--------------------------- MODULE RestoreProofs ---------------------------
(***************************************************************************)
(* What Restore promises of every set of images, staging and destination:  *)
(* types, that nothing unvouched for is extracted or written through a     *)
(* link, that a disc is given up only for a cause, that a restore needs    *)
(* room for one image more than it finds, and that what is reported        *)
(* restored is.                                                            *)
(***************************************************************************)
EXTENDS Restore, FiniteSetTheorems, TLAPS

\* What is known of the image a check has let through.
Vouched(n) ==
  /\ plain[n] \in Image
  /\ \/ sum[n] = plain[n]
     \/ sum[n] = None /\ cipher[n] = Intact(plain[n]) /\ plain[n].opens

\* What each place in PrepareImage may rely on.
Working ==
  /\ pc # "idle" => outcome = "none"
  /\ sel \subseteq Staged
  /\ pc = "repair" => ~(HaveCipherSum(at) /\ MatchesCipherSum(at))
  /\ pc = "redecrypt" /\ Par2Restores(at) => cipher[at] = Intact(parity[at])
  /\ pc = "verify" =>
       plain[at] \in Image /\ cipher[at] = Intact(plain[at]) /\ plain[at].opens
  /\ pc \in {"audit", "extract"} => Vouched(at)
  /\ pc = "extract" => Audited(at)

IInv == TypeOK /\ Working

\* Every staging is of the right types, and no command is under way.
LEMMA Initially == Init => IInv
  <1> SUFFICES ASSUME Init PROVE IInv
    OBVIOUS
  <1>1. PICK s \in Stagings :
          /\ cipher = s.cipher /\ copies = s.copies /\ csum = s.csum /\ sum = s.sum
          /\ parity = s.parity /\ plain = s.plain /\ index = s.index /\ manifest = s.manifest
          /\ dest = s.dest /\ dirAt = s.dirAt /\ par2 = s.par2
    BY DEF Init
  <1>2. s \in Staging
    BY RestoreAssumption
  <1>3. TypeOK
    <2>1. /\ cipher \in [DiscNo -> Ciphertext \cup {None}]
          /\ copies \in [DiscNo -> SUBSET Ciphertext]
          /\ csum \in [DiscNo -> Image \cup {None, Rot, Wrong}]
          /\ sum \in [DiscNo -> Image \cup {None, Rot, Wrong}]
          /\ parity \in [DiscNo -> Image \cup {None}] /\ plain \in [DiscNo -> Image \cup {None}]
          /\ index \in IndexType \cup {None, Rot} /\ manifest \in Nat \cup {None}
          /\ par2 \in BOOLEAN /\ dirAt \in [Dir -> {"none", "dir", "link", "linkToDir"}]
          /\ dest \in [File -> {None, Old}]
      BY <1>1, <1>2 DEF Staging
    <2>2. dest \in [File -> Image \cup {None, Old}]
      BY <2>1
    <2>3. /\ part = {} /\ pc = "idle" /\ request = NoRequest /\ sel = {} /\ todo = {} /\ at = 0
          /\ missing = FALSE /\ found = {} /\ had = {} /\ wrote = {} /\ warned = FALSE
          /\ before \subseteq DiscNo
          /\ outcome = "none" /\ stops = 0
      BY DEF Init, Decrypted
    <2>4. stops \in 0 .. MaxStops
      BY <2>3, RestoreAssumption
    <2> QED
      BY <2>1, <2>2, <2>3, <2>4 DEF TypeOK, Outcome
  <1> QED
    BY <1>3 DEF IInv, Working, Init, Staged

\* The disc a command is at has a ciphertext.
LEMMA AtDisc ==
  ASSUME IInv, pc \notin {"idle", "select", "next"}
  PROVE  /\ at \in todo /\ at \in sel /\ at \in DiscNo
         /\ cipher[at] \in Ciphertext /\ cipher[at].of \in Image
         /\ cipher[at].damage = {} => cipher[at] = Intact(cipher[at].of)
  BY DEF IInv, TypeOK, Working, Staged, Ciphertext, Intact

\* Ending leaves nothing that the rest of the invariant speaks of.
LEMMA EndsKeeps ==
  ASSUME IInv, NEW how \in Outcome, Ends(how),
         UNCHANGED <<small, destination, stops>>,
         cipher' \in [DiscNo -> Ciphertext \cup {None}], plain' \in [DiscNo -> Image \cup {None}],
         part' \subseteq DiscNo, Staged \subseteq Staged'
  PROVE  IInv'
  <1>1. stops' \in 0 .. MaxStops
    BY DEF IInv, TypeOK
  <1> QED
    BY <1>1 DEF IInv, TypeOK, Working, Ends, small, destination, tally

\* A command begins with nothing known of any disc, whatever lies in staging.
LEMMA BeginKeeps ==
  ASSUME IInv, NEW r \in Requests, Begin(r)
  PROVE  IInv'
  <1>1. had' \subseteq request'.only
    BY DEF Begin
  <1>2. pc' \in {"select", "idle"} /\ (pc' = "select" => outcome' = "none") /\ outcome' \in Outcome
    BY DEF Begin, Outcome
  <1>3. part' \subseteq DiscNo
    BY DEF Begin, Reaped, IInv, TypeOK
  <1>4. TypeOK'
    BY <1>1, <1>2, <1>3 DEF Begin, Decrypted, IInv, TypeOK, small, destination
  <1> QED
    BY <1>2, <1>4 DEF Begin, IInv, Working

\* The discs selected are staged, and a refusal ends the command.
LEMMA SelectKeeps ==
  ASSUME IInv, Select
  PROVE  IInv'
  <1>1. CASE Ends("refused")
    BY <1>1, EndsKeeps DEF Select, Outcome, IInv, TypeOK, Staged
  <1>2. CASE /\ sel' = NarrowByIndex(Chosen) /\ todo' = sel'
             /\ missing' = (request.disc = 0 /\ LacksDiscs)
             /\ pc' = "next"
             /\ UNCHANGED <<request, at, found, had, wrote, before, warned, outcome>>
    <2>1. sel' \subseteq Staged
      BY <1>2 DEF NarrowByIndex, Chosen
    <2>2. Staged \subseteq DiscNo /\ Staged' = Staged
      BY DEF Staged, Select
    <2>3. missing' \in BOOLEAN
      BY <1>2 DEF LacksDiscs
    <2>4. TypeOK'
      BY <1>2, <2>1, <2>2, <2>3 DEF Select, IInv, TypeOK, small, destination
    <2> QED
      BY <1>2, <2>1, <2>2, <2>4 DEF Select, IInv, Working
  <1> QED
    BY <1>1, <1>2 DEF Select

\* Going on to the next image, or ending, keeps the invariant.
LEMMA NextImageKeeps ==
  ASSUME IInv, NextImage
  PROVE  IInv'
  <1>1. CASE \E how \in {"partial", "complete", "failed"} : Ends(how)
    BY <1>1, EndsKeeps DEF NextImage, Outcome, IInv, TypeOK, Staged
  <1>2. CASE /\ at' \in todo /\ \A n \in todo : at' <= n
             /\ pc' = "reuse"
             /\ UNCHANGED <<request, sel, todo, tally, outcome>>
    <2>1. TypeOK'
      BY <1>2 DEF NextImage, IInv, TypeOK, small, destination, tally
    <2> QED
      BY <1>2, <2>1 DEF NextImage, IInv, Working, Staged
  <1> QED
    BY <1>1, <1>2 DEF NextImage

\* An image left there that matches its recorded hash is vouched for.
LEMMA ReuseKeeps ==
  ASSUME IInv, Reuse
  PROVE  IInv'
  <1> USE DEF Reuse
  <1>1. at \in DiscNo /\ at \in todo
    BY AtDisc
  <1>2. CASE Reusable(at) /\ Goes("audit") /\ UNCHANGED plain
    <2>1. plain[at] \in Image /\ sum[at] = plain[at]
      BY <1>1, <1>2 DEF Reusable, IInv, TypeOK
    <2>2. TypeOK'
      BY <1>1, <1>2 DEF IInv, TypeOK, Goes, small, destination, tally
    <2>3. Vouched(at)'
      BY <1>2, <2>1 DEF Vouched, Goes, small
    <2> QED
      BY <1>2, <2>2, <2>3 DEF IInv, Working, Goes, Staged
  <1>3. CASE plain' = [plain EXCEPT ![at] = None] /\ Goes("decrypt")
    <2>1. TypeOK'
      BY <1>1, <1>3 DEF IInv, TypeOK, Goes, small, destination, tally
    <2> QED
      BY <1>3, <2>1 DEF IInv, Working, Goes, Staged
  <1> QED
    BY <1>2, <1>3

\* Decrypting: the plaintext is what the ciphertext was made from.
LEMMA PromoteKeeps ==
  ASSUME IInv, pc \in {"decrypt", "redecrypt"}, Decrypts(cipher[at]), Promote(at),
         UNCHANGED <<cipher, small, destination, stops>>
  PROVE  IInv'
  <1>1. /\ at \in DiscNo /\ at \in todo
        /\ cipher[at].of \in Image /\ cipher[at] = Intact(cipher[at].of) /\ cipher[at].of.opens
    BY AtDisc DEF Decrypts
  <1>2. plain' \in [DiscNo -> Image \cup {None}] /\ plain'[at] = cipher[at].of
    BY <1>1 DEF Promote, IInv, TypeOK
  <1>3. TypeOK'
    BY <1>1, <1>2 DEF IInv, TypeOK, Promote, Goes, small, destination, tally
  <1>4. at' = at /\ pc' = "verify" /\ plain'[at'] = cipher[at].of
    BY <1>2 DEF Promote, Goes
  <1>5. plain'[at'] \in Image /\ cipher'[at'] = Intact(plain'[at']) /\ plain'[at'].opens
    BY <1>1, <1>4
  <1> QED
    BY <1>3, <1>4, <1>5 DEF IInv, Working, Promote, Goes, Staged, Intact

\* The first decryption goes to a repair only where hash and ciphertext disagree.
LEMMA DecryptKeeps ==
  ASSUME IInv, Decrypt
  PROVE  IInv'
  <1> USE DEF Decrypt
  <1>1. at \in DiscNo /\ at \in todo
    BY AtDisc
  <1>2. CASE Decrypts(cipher[at]) /\ Promote(at)
    BY <1>2, PromoteKeeps
  <1>3. CASE Ends("unprepared") /\ UNCHANGED <<plain, part>>
    BY <1>3, EndsKeeps DEF Outcome, IInv, TypeOK, Staged
  <1>4. CASE /\ Goes("repair") /\ UNCHANGED <<plain, part>>
             /\ ~(HaveCipherSum(at) /\ MatchesCipherSum(at))
    <2>1. TypeOK'
      BY <1>1, <1>4 DEF IInv, TypeOK, Goes, small, destination, tally
    <2> QED
      BY <1>4, <2>1 DEF IInv, Working, Goes, Staged, small, HaveCipherSum, MatchesCipherSum, Intact
  <1>5. CASE Goes("redecrypt") /\ UNCHANGED <<plain, part>> /\ (parity[at] = None \/ ~par2)
    <2>1. TypeOK'
      BY <1>1, <1>5 DEF IInv, TypeOK, Goes, small, destination, tally
    <2>2. ~Par2Restores(at)'
      BY <1>5 DEF Par2Restores, Goes, small
    <2> QED
      BY <1>5, <2>1, <2>2 DEF IInv, Working, Goes, Staged
  <1> QED
    BY <1>2, <1>3, <1>4, <1>5

\* After a repair the ciphertext is the one the parity is of.
LEMMA RepairKeeps ==
  ASSUME IInv, Repair
  PROVE  IInv'
  <1> USE DEF Repair
  <1>1. at \in DiscNo /\ at \in todo
    BY AtDisc
  <1>2. CASE /\ Par2Restores(at)
             /\ cipher' = [cipher EXCEPT ![at] = Intact(parity[at])]
             /\ Goes("redecrypt")
    <2>1. Intact(parity[at]) \in Ciphertext /\ Intact(parity[at]) # None
      BY <1>1, <1>2, RestoreAssumption DEF Par2Restores, IInv, TypeOK, Ciphertext, Intact
    <2>2. cipher' \in [DiscNo -> Ciphertext \cup {None}] /\ Staged \subseteq Staged'
      BY <1>1, <1>2, <2>1 DEF IInv, TypeOK, Staged
    <2>3. TypeOK'
      BY <1>1, <1>2, <2>2 DEF IInv, TypeOK, Goes, small, destination, tally
    <2>4. cipher'[at'] = Intact(parity'[at'])
      BY <1>1, <1>2 DEF IInv, TypeOK, Goes, small
    <2>5. Intact(parity[at])' = Intact(parity'[at'])
      BY <1>2 DEF Intact, Goes
    <2> QED
      BY <1>2, <2>2, <2>3, <2>4, <2>5 DEF IInv, Working, Goes, Intact
  <1>3. CASE Ends("unprepared") /\ UNCHANGED cipher
    BY <1>3, EndsKeeps DEF Outcome, IInv, TypeOK, Staged
  <1> QED
    BY <1>2, <1>3

\* The second decryption promotes only what age has authenticated.
LEMMA RedecryptKeeps ==
  ASSUME IInv, Redecrypt
  PROVE  IInv'
  <1> USE DEF Redecrypt
  <1>1. CASE Decrypts(cipher[at]) /\ Promote(at)
    BY <1>1, PromoteKeeps
  <1>2. CASE Ends("unprepared") /\ UNCHANGED <<plain, part>>
    BY <1>2, EndsKeeps DEF Outcome, IInv, TypeOK, Staged
  <1> QED
    BY <1>1, <1>2

\* What passes its own hash, or has none, is vouched for.
LEMMA VerifyKeeps ==
  ASSUME IInv, Verify
  PROVE  IInv'
  <1> USE DEF Verify
  <1>1. at \in DiscNo /\ at \in todo
    BY AtDisc
  <1>2. CASE sum[at] \in {None, plain[at]} /\ Goes("audit") /\ UNCHANGED plain
    <2>1. TypeOK'
      BY <1>1, <1>2 DEF IInv, TypeOK, Goes, small, destination, tally
    <2>2. Vouched(at)
      BY <1>2 DEF Vouched, IInv, Working
    <2>3. Vouched(at)'
      BY <1>2, <2>2 DEF Vouched, Goes, small, Intact
    <2> QED
      BY <1>2, <2>1, <2>3 DEF IInv, Working, Goes, Staged
  <1>3. CASE plain' = [plain EXCEPT ![at] = None] /\ Ends("unprepared")
    <2>1. plain' \in [DiscNo -> Image \cup {None}]
      BY <1>3 DEF IInv, TypeOK
    <2> QED
      BY <1>3, <2>1, EndsKeeps DEF Outcome, IInv, TypeOK, Staged
  <1> QED
    BY <1>2, <1>3

\* An image is done with: nothing more is known of any disc.
LEMMA DoneKeeps ==
  ASSUME IInv, pc \in {"audit", "extract"}, DoneWith(at),
         UNCHANGED <<cipher, small, part, missing, had, before>>,
         warned' \in BOOLEAN, stops' \in 0 .. MaxStops,
         dest' \in [File -> Image \cup {None, Old}],
         dirAt' \in [Dir -> {"none", "dir", "link", "linkToDir"}],
         found' \subseteq request.only, wrote' \subseteq request.only
  PROVE  IInv'
  <1>1. at \in DiscNo /\ at \in todo
    BY AtDisc
  <1>2. plain' \in [DiscNo -> Image \cup {None}]
    <2> DEFINE now == IF request.keep THEN plain[at] ELSE None
    <2>1. now \in Image \cup {None}
      BY <1>1 DEF IInv, TypeOK
    <2>2. plain' = [plain EXCEPT ![at] = now]
      BY DEF DoneWith, Discards
    <2> QED
      BY <2>1, <2>2 DEF IInv, TypeOK
  <1>3. TypeOK'
    BY <1>2 DEF IInv, TypeOK, DoneWith, small
  <1> QED
    BY <1>3 DEF IInv, Working, DoneWith, Staged

\* Only an audited image is extracted.
LEMMA AuditKeeps ==
  ASSUME IInv, Audit
  PROVE  IInv'
  <1> USE DEF Audit
  <1>1. CASE \E how \in {"listed", "refused"} : Ends(how) /\ UNCHANGED plain
    BY <1>1, EndsKeeps DEF Outcome, IInv, TypeOK, Staged
  <1>2. CASE DoneWith(at) /\ UNCHANGED tally
    BY <1>2, DoneKeeps DEF IInv, TypeOK, tally, destination
  <1>3. CASE Audited(at) /\ Goes("extract") /\ UNCHANGED plain
    <2>1. TypeOK'
      BY <1>3, AtDisc DEF IInv, TypeOK, Goes, small, destination, tally
    <2>2. Vouched(at)
      BY DEF IInv, Working
    <2>3. Vouched(at)'
      BY <1>3, <2>2 DEF Vouched, Goes, small, Intact
    <2>4. Audited(at)'
      BY <1>3 DEF Audited, Goes, small, destination, tally, Here, Exact, Legible,
                  PathsPresent, Covers, Listed, DirsOf, Touched
    <2> QED
      BY <1>3, <2>1, <2>3, <2>4 DEF IInv, Working, Goes, Staged
  <1> QED
    BY <1>1, <1>2, <1>3

\* What unsquashfs may make of the destination is a destination.
LEMMA Extracted ==
  ASSUME IInv, pc = "extract", NEW files \in SUBSET FilesOf(plain[at], Here(at))
  PROVE  /\ Overwrite(files, plain[at]) \in [File -> Image \cup {None, Old}]
         /\ DirsAfter(plain[at], Here(at)) \subseteq [Dir -> {"none", "dir", "link", "linkToDir"}]
         /\ Here(at) \subseteq request.only
  <1>1. plain[at] \in Image
    BY DEF IInv, Working, Vouched
  <1> QED
    BY <1>1 DEF Overwrite, DirsAfter, Here, PathsPresent, IInv, TypeOK

\* An extraction, of all the files or of some.
LEMMA ExtractsAny ==
  ASSUME IInv, Extract \/ ExtractSome
  PROVE  /\ pc = "extract" /\ warned' \in BOOLEAN /\ stops' \in 0 .. MaxStops
         /\ \E files \in SUBSET FilesOf(plain[at], Here(at)) : Extracts(files)
  <1>1. warned \in BOOLEAN /\ stops \in 0 .. MaxStops /\ MaxStops \in Nat
    BY RestoreAssumption DEF IInv, TypeOK
  <1>2. CASE Extract
    BY <1>1, <1>2 DEF Extract
  <1>3. CASE ExtractSome
    BY <1>1, <1>3 DEF ExtractSome
  <1> QED
    BY <1>2, <1>3

\* Extracting keeps the invariant, whatever is left out.
LEMMA ExtractKeeps ==
  ASSUME IInv, Extract \/ ExtractSome
  PROVE  IInv'
  <1>1. PICK files \in SUBSET FilesOf(plain[at], Here(at)) : Extracts(files)
    BY ExtractsAny
  <1>2. /\ dest' \in [File -> Image \cup {None, Old}]
        /\ dirAt' \in [Dir -> {"none", "dir", "link", "linkToDir"}]
        /\ Here(at) \subseteq request.only
    BY <1>1, Extracted, ExtractsAny DEF Extracts
  <1>3. found' \subseteq request.only /\ wrote' \subseteq request.only
    BY <1>1, <1>2 DEF Extracts, Seen, IInv, TypeOK
  <1> QED
    BY <1>1, <1>2, <1>3, ExtractsAny, DoneKeeps DEF Extracts

\* A command stopped anywhere leaves staging and destination of the right types.
LEMMA StopKeeps ==
  ASSUME IInv, Stop
  PROVE  IInv'
  <1>1. Ends("stopped") /\ UNCHANGED <<small, plain>> /\ stops' = stops + 1 /\ stops < MaxStops
    BY DEF Stop
  <1>2. stops' \in 0 .. MaxStops
    BY <1>1, RestoreAssumption DEF IInv, TypeOK
  <1>3. at \in DiscNo \cup {0} /\ "stopped" \in Outcome
    BY DEF IInv, TypeOK, Outcome
  <1> HIDE DEF Stop
  <1>4. /\ cipher' \in [DiscNo -> Ciphertext \cup {None}] /\ Staged \subseteq Staged'
        /\ part' \subseteq DiscNo
        /\ dest' \in [File -> Image \cup {None, Old}]
        /\ dirAt' \in [Dir -> {"none", "dir", "link", "linkToDir"}]
    <2>1. CASE StopExtracting
      <3>1. PICK files \in SUBSET FilesOf(plain[at], Here(at)) : dest' = Overwrite(files, plain[at])
        BY <2>1 DEF StopExtracting
      <3> QED
        BY <2>1, <3>1, Extracted DEF StopExtracting, IInv, TypeOK, Staged
    <2>2. CASE StopDecrypting
      BY <2>2, AtDisc DEF StopDecrypting, IInv, TypeOK, Staged, destination
    <2>3. CASE StopRepairing
      <3>1. CASE UNCHANGED cipher
        BY <2>3, <3>1 DEF StopRepairing, IInv, TypeOK, Staged, destination
      <3>2. CASE /\ Par2Restores(at)
                 /\ \E lost \in SUBSET Block :
                      cipher' = [cipher EXCEPT ![at] = [of |-> parity[at], damage |-> lost]]
        <4>1. PICK lost \in SUBSET Block :
                cipher' = [cipher EXCEPT ![at] = [of |-> parity[at], damage |-> lost]]
          BY <3>2
        <4>2. at \in DiscNo
          BY <2>3, AtDisc DEF StopRepairing
        <4>3. [of |-> parity[at], damage |-> lost] \in Ciphertext
          BY <3>2, <4>2 DEF Par2Restores, IInv, TypeOK, Ciphertext
        <4>4. [of |-> parity[at], damage |-> lost] # None
          BY <4>3, RestoreAssumption
        <4> QED
          BY <2>3, <4>1, <4>2, <4>3, <4>4 DEF StopRepairing, IInv, TypeOK, Staged, destination
      <3> QED
        BY <2>3, <3>1, <3>2 DEF StopRepairing
    <2>4. CASE UNCHANGED <<cipher, part, destination>>
      BY <2>4 DEF IInv, TypeOK, Staged, destination
    <2> QED
      BY <2>1, <2>2, <2>3, <2>4 DEF Stop
  <1>5. TypeOK'
    BY <1>1, <1>2, <1>3, <1>4 DEF IInv, TypeOK, Ends, small, tally
  <1> QED
    BY <1>1, <1>4, <1>5 DEF IInv, Working, Ends

\* IInv is inductive.
LEMMA StepKeeps == IInv /\ [Next]_vars => IInv'
  <1> SUFFICES ASSUME IInv, [Next]_vars PROVE IInv'
    OBVIOUS
  <1>1. CASE \E r \in Requests : Begin(r)
    BY <1>1, BeginKeeps
  <1>2. CASE Step
    BY <1>2, SelectKeeps, NextImageKeeps, ReuseKeeps, DecryptKeeps, RepairKeeps,
       RedecryptKeeps, VerifyKeeps, AuditKeeps, ExtractKeeps DEF Step
  <1>3. CASE Stop
    BY <1>3, StopKeeps
  <1>4. CASE UNCHANGED vars
    BY <1>4 DEF vars, small, destination, tally, IInv, TypeOK, Working, Staged,
                HaveCipherSum, MatchesCipherSum, Par2Restores, BlocksFound, Intact, Vouched,
                Audited, Here, Exact, Legible, PathsPresent, Covers, Listed, DirsOf, Touched
  <1> QED
    BY <1>1, <1>2, <1>3, <1>4 DEF Next

\* The types, and what each place in PrepareImage relies on, hold throughout.
THEOREM Invariance == Spec => []IInv
  BY Initially, StepKeeps, PTL DEF Spec

\* Every variable has its type, in every state.
THEOREM TypeCorrect == Spec => []TypeOK
  <1>1. IInv => TypeOK
    BY DEF IInv
  <1> QED
    BY <1>1, Invariance, PTL

\* What is extracted has been vouched for, after whatever rot, leftovers and
\* interruptions.
THEOREM ExtractionVouched == Spec => ExtractsOnlyTheVouchedFor
  <1>1. ASSUME IInv, pc = "extract"
        PROVE  /\ \/ sum[at] = plain[at]
                  \/ sum[at] = None /\ cipher[at] = Intact(plain[at]) /\ plain[at].opens
               /\ Exact(at) => Listed(plain[at]) = index.rows[at]
    BY <1>1 DEF IInv, Working, Vouched, Audited
  <1>2. IInv /\ [Next]_vars =>
          [pc = "extract" /\ destination' # destination =>
             /\ \/ sum[at] = plain[at]
                \/ sum[at] = None /\ cipher[at] = Intact(plain[at]) /\ plain[at].opens
             /\ Exact(at) => Listed(plain[at]) = index.rows[at]]_vars
    BY <1>1
  <1> QED
    BY <1>2, Invariance, PTL DEF Spec, ExtractsOnlyTheVouchedFor

\* What an extraction writes lies in directories that it touches: the image
\* has them, and the request covers them or lies in them.
LEMMA WrittenInTouched ==
  ASSUME NEW i \in Image, NEW here, NEW f \in FilesOf(i, here), NEW d \in Dir, f \in Under[d]
  PROVE  d \in Touched(i, here)
  <1>1. i.dirs[d] = "dir"
    BY RestoreAssumption DEF FilesOf
  <1>2. CASE here = {}
    BY <1>1, <1>2 DEF Touched
  <1>3. CASE here # {}
    <2>1. PICK w \in here : f \in Covers(w)
      BY <1>3 DEF FilesOf
    <2>2. CASE f = w
      BY <1>1, <2>1, <2>2 DEF Touched
    <2>3. CASE w \in Dir /\ f \in Under[w]
      <3>1. w = d \/ w \in Under[d] \/ d \in Under[w]
        BY <2>3, RestoreAssumption
      <3>2. d \in Covers(w) \/ w \in Under[d]
        BY <2>3, <3>1 DEF Covers
      <3> QED
        BY <1>1, <2>1, <3>2 DEF Touched
    <2> QED
      BY <2>1, <2>2, <2>3 DEF Covers
  <1> QED
    BY <1>2, <1>3

\* No extraction, whole or interrupted, writes through a symlink.
THEOREM LinksRespected == Spec => NothingThroughLinks
  <1>1. ASSUME IInv, [Next]_vars, pc = "extract", todo' # todo, NEW d \in Dir,
               \/ \E f \in File \cap Under[d] : dest'[f] # dest[f]
               \/ d \in Touched(plain[at], Here(at))
        PROVE  dirAt[d] \notin {"link", "linkToDir"}
    <2>1. plain[at] \in Image /\ Audited(at) /\ dest \in [File -> Image \cup {None, Old}]
      BY <1>1 DEF IInv, Working, Vouched, TypeOK
    <2>2. Extract \/ ExtractSome \/ StopExtracting
      BY <1>1 DEF Next, Step, Begin, Select, NextImage, Reuse, Decrypt, Repair, Redecrypt,
                  Verify, Audit, Stop, StopDecrypting, StopRepairing, vars
    <2>3. PICK files \in SUBSET FilesOf(plain[at], Here(at)) : dest' = Overwrite(files, plain[at])
      BY <2>2 DEF Extract, ExtractSome, Extracts, StopExtracting
    <2>4. CASE \E f \in File \cap Under[d] : dest'[f] # dest[f]
      <3>1. PICK f \in File \cap Under[d] : dest'[f] # dest[f]
        BY <2>4
      <3>2. f \in FilesOf(plain[at], Here(at))
        BY <2>1, <2>3, <3>1 DEF Overwrite
      <3>3. d \in Touched(plain[at], Here(at))
        BY <2>1, <3>1, <3>2, WrittenInTouched
      <3> QED
        BY <2>1, <3>3 DEF Audited
    <2>5. CASE d \in Touched(plain[at], Here(at))
      BY <2>1, <2>5 DEF Audited
    <2> QED
      BY <1>1, <2>4, <2>5
  <1>2. IInv /\ [Next]_vars =>
          [pc = "extract" /\ todo' # todo =>
             \A d \in Dir :
               \/ \E f \in File \cap Under[d] : dest'[f] # dest[f]
               \/ d \in Touched(plain[at], Here(at))
               => dirAt[d] \notin {"link", "linkToDir"}]_vars
    BY <1>1
  <1> QED
    BY <1>2, Invariance, PTL DEF Spec, NothingThroughLinks

\* HL-2, for every set, rot and history: a disc that its ciphertext or its
\* parity can give back is prepared.
THEOREM CauseGiven == Spec => GivesUpForACause
  <1>1. ASSUME IInv, [Next]_vars, pc # "idle", outcome' = "unprepared",
               NEW i \in Image, Recoverable(at, i)
        PROVE  FALSE
    <2>1. outcome = "none"
      BY <1>1 DEF IInv, Working
    <2>2. \/ pc = "decrypt" /\ Decrypt
          \/ pc = "repair" /\ Repair
          \/ pc = "redecrypt" /\ Redecrypt
          \/ pc = "verify" /\ Verify
      BY <1>1, <2>1 DEF Next, Step, Begin, Select, NextImage, Reuse, Decrypt, Repair, Redecrypt,
                  Verify, Audit, Extract, ExtractSome, Extracts, Stop, Ends, Goes,
                  DoneWith, vars
    <2>3. /\ at \in DiscNo /\ cipher[at] \in Ciphertext
          /\ csum[at] \in Image \cup {None, Rot, Wrong} /\ parity[at] \in Image \cup {None}
          /\ cipher[at].of = i /\ i.opens /\ sum[at] \in {None, i}
          /\ None \notin Image /\ Rot \notin Image
      BY <2>2, <1>1, AtDisc, RestoreAssumption DEF IInv, TypeOK, Recoverable
    <2>4. CASE Decrypt
      <3>1. HaveCipherSum(at)
        BY <2>1, <2>4, <1>1 DEF Decrypt, Goes
      <3>2. CASE MatchesCipherSum(at)
        <4>1. Decrypts(cipher[at])
          BY <2>3, <3>1, <3>2 DEF MatchesCipherSum, Decrypts, Intact
        <4> QED
          BY <1>1, <2>1, <2>4, <3>1, <3>2, <4>1 DEF Decrypt, Promote, Goes
      <3>3. CASE ~MatchesCipherSum(at)
        <4>1. Par2Restores(at)
          BY <1>1, <3>3 DEF Recoverable, MatchesCipherSum
        <4> QED
          BY <1>1, <2>1, <2>4, <3>1, <3>3, <4>1 DEF Decrypt, Goes, Par2Restores
      <3> QED
        BY <3>2, <3>3
    <2>5. CASE Repair
      <3>1. ~Par2Restores(at)
        BY <1>1, <2>1, <2>5 DEF Repair, Goes
      <3>2. cipher[at] = Intact(i) /\ csum[at] = i
        BY <1>1, <3>1 DEF Recoverable
      <3>3. HaveCipherSum(at) /\ MatchesCipherSum(at)
        BY <2>3, <3>2 DEF HaveCipherSum, MatchesCipherSum
      <3> QED
        BY <1>1, <2>5, <3>3 DEF Repair, IInv, Working
    <2>6. CASE Redecrypt
      <3>1. ~Decrypts(cipher[at])
        BY <1>1, <2>1, <2>6 DEF Redecrypt, Promote, Goes
      <3>2. Par2Restores(at) => cipher[at] = Intact(parity[at])
        BY <1>1, <2>6 DEF Redecrypt, IInv, Working
      <3>3. cipher[at].damage = {}
        BY <1>1, <3>2 DEF Recoverable, Intact
      <3> QED
        BY <2>3, <3>1, <3>3 DEF Decrypts
    <2>7. CASE Verify
      <3>1. sum[at] \notin {None, plain[at]}
        BY <1>1, <2>1, <2>7 DEF Verify, Goes
      <3>2. cipher[at] = Intact(plain[at])
        BY <1>1, <2>7 DEF Verify, IInv, Working
      <3>3. plain[at] = i
        BY <2>3, <3>2 DEF Intact
      <3> QED
        BY <2>3, <3>1, <3>3
    <2> QED
      BY <2>2, <2>4, <2>5, <2>6, <2>7
  <1>2. IInv /\ [Next]_vars =>
          [pc # "idle" /\ outcome' = "unprepared" => ~\E i \in Image : Recoverable(at, i)]_vars
    BY <1>1
  <1> QED
    BY <1>2, Invariance, PTL DEF Spec, GivesUpForACause

\* The search of a restore is over; its discs have all been dealt with.
Through == outcome \in {"complete", "partial", "failed"}

\* What RoomForOneMore rests on, while a restore that keeps no images works:
\* but for the disc it is at, the images are those it found, without those of
\* the discs it has dealt with.  A listing never gets as far as the next image.
RoomInv ==
  /\ pc \in {"idle", "select", "next"} => at = 0
  /\ pc = "select" => sel = {}
  /\ pc \in {"decrypt", "repair", "redecrypt"} => plain[at] = None
  /\ request.cmd = "list" => pc # "extract" /\ (pc = "next" => todo # {})
  /\ request.cmd = "restore" /\ ~request.keep =>
       /\ pc # "idle" =>
            part = {} /\ Decrypted \ {at} = (before \ (sel \ todo)) \ {at}
       /\ pc = "idle" =>
            /\ \E n \in DiscNo \cup {0} : (Decrypted \ before) \cup part \subseteq {n}
            /\ \A n \in part : plain[n] = None
            /\ Through => Decrypted = before \ (sel \ todo) /\ part = {}

LEMMA OthersStayDecrypted ==
  ASSUME NEW m, \A n \in DiscNo \ {m} : plain'[n] = plain[n]
  PROVE  Decrypted' \ {m} = Decrypted \ {m}
  BY DEF Decrypted

\* Wherever a command is given up, its own disc is the only one it has added.
LEMMA GivenUp ==
  ASSUME IInv, RoomInv, pc # "idle", NEW how \in Outcome \ {"complete", "partial", "failed"}, Ends(how),
         \A n \in DiscNo \ {at} : plain'[n] = plain[n],
         part' \subseteq part \cup {at}, \A n \in part' \ part : plain'[n] = None
  PROVE  RoomInv'
  <1>1. /\ request' = request /\ pc' = "idle" /\ at' = 0 /\ before' = before /\ outcome' = how
        /\ at \in DiscNo \cup {0}
    BY DEF Ends, tally, IInv, TypeOK
  <1>2. Decrypted' \ {at} = Decrypted \ {at}
    BY OthersStayDecrypted
  <1>3. ASSUME request.cmd = "restore", ~request.keep
        PROVE  /\ (Decrypted' \ before) \cup part' \subseteq {at}
               /\ \A n \in part' : plain'[n] = None
    <2>1. part = {} /\ Decrypted \ {at} = (before \ (sel \ todo)) \ {at}
      BY <1>3 DEF RoomInv
    <2> QED
      BY <1>2, <2>1
  <1> QED
    BY <1>1, <1>3 DEF RoomInv, Through

\* Within PrepareImage only the image in hand comes and goes.
LEMMA GoesOn ==
  ASSUME IInv, RoomInv, pc \notin {"idle", "select", "next"},
         NEW where \in {"decrypt", "repair", "redecrypt", "verify", "audit"}, Goes(where),
         part' \subseteq part, \A n \in DiscNo \ {at} : plain'[n] = plain[n],
         where \in {"decrypt", "repair", "redecrypt"} => plain'[at] = None
  PROVE  RoomInv'
  <1>1. /\ pc' = where /\ UNCHANGED <<request, sel, todo, at, before>>
    BY DEF Goes, tally
  <1>2. Decrypted' \ {at} = Decrypted \ {at}
    BY OthersStayDecrypted
  <1> QED
    BY <1>1, <1>2 DEF RoomInv

\* A disc done with takes its image with it, whether it was of use or not.
LEMMA DoneAndGone ==
  ASSUME IInv, RoomInv, pc \in {"audit", "extract"}, request.cmd = "restore", DoneWith(at),
         UNCHANGED <<part, before>>
  PROVE  RoomInv'
  <1>1. at \in todo /\ at \in DiscNo /\ todo \subseteq sel /\ plain \in [DiscNo -> Image \cup {None}]
    BY AtDisc DEF IInv, TypeOK
  <1>2. /\ pc' = "next" /\ at' = 0 /\ todo' = todo \ {at} /\ UNCHANGED <<request, sel>>
        /\ \A n \in DiscNo \ {at} : plain'[n] = plain[n]
        /\ ~request.keep => plain'[at] = None
    BY <1>1 DEF DoneWith, Discards
  <1>3. Decrypted' \ {at} = Decrypted \ {at}
    BY <1>2, OthersStayDecrypted
  <1>4. ASSUME ~request.keep
        PROVE  part' = {} /\ Decrypted' = before \ (sel \ todo')
    <2>1. part = {} /\ Decrypted \ {at} = (before \ (sel \ todo)) \ {at}
      BY <1>4 DEF RoomInv
    <2>2. at \notin Decrypted'
      BY <1>2, <1>4 DEF Decrypted
    <2>3. sel \ todo' = (sel \ todo) \cup {at}
      BY <1>1, <1>2
    <2> QED
      BY <1>3, <2>1, <2>2, <2>3
  <1> QED
    BY <1>2, <1>4 DEF RoomInv

\* RoomInv is inductive, relative to IInv.
LEMMA RoomStep == IInv /\ RoomInv /\ [Next]_vars => RoomInv'
  <1> SUFFICES ASSUME IInv, RoomInv, [Next]_vars PROVE RoomInv'
    OBVIOUS
  <1>1. /\ plain \in [DiscNo -> Image \cup {None}] /\ 0 \notin DiscNo
        /\ sel \subseteq DiscNo /\ todo \subseteq sel
        /\ request.cmd \in {"restore", "list"}
        /\ request.cmd = "list" => request.disc # 0
    BY RestoreAssumption DEF IInv, TypeOK, Request, NoRequest
  <1>2. Decrypted \subseteq DiscNo
    BY DEF Decrypted
  <1>3. ASSUME NEW r \in Requests, Begin(r) PROVE RoomInv'
    <2>1. /\ request' = r /\ sel' = {} /\ todo' = {} /\ at' = 0 /\ before' = Decrypted
          /\ pc' \in {"select", "idle"} /\ (r.cmd = "restore" => part' = {})
          /\ outcome' \in {"none", "refused"} /\ Decrypted' = Decrypted
      BY <1>3 DEF Begin, Reaped, RoomInv, Decrypted
    <2> QED
      BY <2>1 DEF RoomInv, Through
  <1>4. CASE Select
    <2>1. CASE Ends("refused")
      BY <1>4, <2>1, GivenUp DEF Select, Outcome
    <2>2. CASE Chosen # {} /\ sel' = NarrowByIndex(Chosen) /\ todo' = sel' /\ pc' = "next"
               /\ UNCHANGED <<request, at, before>>
      <3>1. request.cmd = "list" => todo' # {}
        BY <1>1, <2>2 DEF NarrowByIndex
      <3>2. sel = {} /\ at = 0 /\ Decrypted' = Decrypted /\ part' = part
        BY <1>4 DEF Select, RoomInv, Decrypted
      <3> QED
        BY <1>4, <2>2, <3>1, <3>2 DEF Select, RoomInv
    <2> QED
      BY <1>4, <2>1, <2>2 DEF Select
  <1>5. CASE NextImage
    <2>1. at = 0 /\ pc = "next" /\ Decrypted' = Decrypted /\ UNCHANGED <<plain, part>>
      BY <1>5 DEF NextImage, RoomInv, Decrypted
    <2>2. request.cmd = "restore" /\ ~request.keep => part = {} /\ Decrypted = before \ (sel \ todo)
      <3> SUFFICES ASSUME request.cmd = "restore", ~request.keep
                   PROVE  part = {} /\ Decrypted = before \ (sel \ todo)
        OBVIOUS
      <3>1. before \subseteq DiscNo
        BY DEF IInv, TypeOK
      <3> QED
        BY <1>1, <1>2, <2>1, <3>1 DEF RoomInv
    <2>3. CASE pc' = "reuse" /\ UNCHANGED <<request, sel, todo, before>>
      BY <2>1, <2>2, <2>3 DEF RoomInv
    <2>4. CASE todo = {} /\ \E how \in Outcome : Ends(how)
      <3>1. /\ todo = {} /\ todo' = {} /\ pc' = "idle" /\ at' = 0 /\ UNCHANGED <<request, sel, before>>
        BY <2>4 DEF Ends, tally
      <3> QED
        BY <2>1, <2>2, <3>1 DEF RoomInv
    <2> QED
      BY <1>5, <2>3, <2>4 DEF NextImage, tally, Outcome
  <1>6. CASE Reuse
    BY <1>1, <1>6, AtDisc, GoesOn DEF Reuse
  <1>7. ASSUME pc \in {"decrypt", "redecrypt"}, Promote(at) PROVE RoomInv'
    BY <1>1, <1>7, AtDisc, GoesOn DEF Promote
  <1>8. CASE Decrypt
    <2>1. plain[at] = None
      BY <1>8 DEF Decrypt, RoomInv
    <2> QED
      BY <1>7, <1>8, <2>1, GoesOn, GivenUp DEF Decrypt, Outcome
  <1>9. CASE Repair
    <2>1. plain[at] = None
      BY <1>9 DEF Repair, RoomInv
    <2> QED
      BY <1>9, <2>1, GoesOn, GivenUp DEF Repair, Outcome
  <1>10. CASE Redecrypt
    BY <1>7, <1>10, GivenUp DEF Redecrypt, Outcome
  <1>11. CASE Verify
    BY <1>1, <1>11, AtDisc, GoesOn, GivenUp DEF Verify, Outcome
  <1>12. CASE Audit
    <2>1. CASE \E how \in {"listed", "refused"} : Ends(how) /\ UNCHANGED plain
      BY <1>12, <2>1, GivenUp DEF Audit, Outcome
    <2>2. CASE request.cmd = "restore" /\ DoneWith(at) /\ UNCHANGED tally
      BY <1>12, <2>2, DoneAndGone DEF Audit, tally
    <2>3. CASE request.cmd = "restore" /\ Goes("extract") /\ UNCHANGED plain
      <3>1. Decrypted' = Decrypted /\ pc = "audit" /\ part' = part
        BY <1>12, <2>3 DEF Audit, Decrypted
      <3> QED
        BY <2>3, <3>1 DEF Goes, tally, RoomInv
    <2> QED
      BY <1>12, <2>1, <2>2, <2>3 DEF Audit
  <1>13. CASE Extract \/ ExtractSome
    <2>1. pc = "extract" /\ request.cmd = "restore" /\ DoneWith(at) /\ UNCHANGED <<part, before>>
      BY <1>1, <1>13 DEF Extract, ExtractSome, Extracts, RoomInv
    <2> QED
      BY <2>1, DoneAndGone
  <1>14. CASE Stop
    <2>1. pc # "idle" /\ Ends("stopped") /\ UNCHANGED plain
      BY <1>14 DEF Stop, small
    <2>2. part' = part \/ (part' = part \cup {at} /\ plain[at] = None)
      BY <1>14 DEF Stop, StopExtracting, StopDecrypting, StopRepairing, RoomInv
    <2> QED
      BY <2>1, <2>2, GivenUp DEF Outcome
  <1>15. CASE UNCHANGED vars
    BY <1>15 DEF vars, tally, RoomInv, Decrypted, Through
  <1> QED
    BY <1>3, <1>4, <1>5, <1>6, <1>8, <1>9, <1>10, <1>11, <1>12, <1>13, <1>14, <1>15 DEF Next, Step

LEMMA RoomIsForOne == IInv /\ RoomInv => RoomForOneMore
  <1> SUFFICES ASSUME IInv, RoomInv, request.cmd = "restore", ~request.keep
               PROVE  /\ Cardinality((Decrypted \ before) \cup part) <= 1
                      /\ \A n \in part : plain[n] = None
                      /\ pc = "next" \/ Through => Decrypted = before \ (sel \ todo) /\ part = {}
    BY DEF RoomForOneMore, Through
  <1>1. \E n \in DiscNo \cup {0} : (Decrypted \ before) \cup part \subseteq {n}
    <2>1. CASE pc = "idle"
      BY <2>1 DEF RoomInv
    <2>2. CASE pc # "idle"
      <3>1. (Decrypted \ before) \cup part \subseteq {at} /\ at \in DiscNo \cup {0}
        BY <2>2 DEF RoomInv, IInv, TypeOK
      <3> QED
        BY <3>1
    <2> QED
      BY <2>1, <2>2
  <1>2. Cardinality((Decrypted \ before) \cup part) <= 1
    <2>1. PICK n \in DiscNo \cup {0} : (Decrypted \ before) \cup part \subseteq {n}
      BY <1>1
    <2>2. IsFiniteSet({n}) /\ Cardinality({n}) = 1
      BY FS_Singleton
    <2> QED
      BY <2>1, <2>2, FS_Subset
  <1>3. ASSUME pc = "next"
        PROVE  Decrypted = before \ (sel \ todo) /\ part = {}
    <2>1. at = 0 /\ 0 \notin DiscNo /\ before \subseteq DiscNo /\ Decrypted \subseteq DiscNo
      BY <1>3, RestoreAssumption DEF RoomInv, IInv, TypeOK, Decrypted
    <2> QED
      BY <1>3, <2>1 DEF RoomInv
  <1>4. Through => pc = "idle"
    BY DEF IInv, Working, Through
  <1> QED
    BY <1>2, <1>3, <1>4 DEF RoomInv

\* A restore needs room for one image more than it finds, and leaves of its
\* own at most the one it stopped at.
THEOREM RoomForOneMoreHolds == Spec => []RoomForOneMore
  <1>1. Init => RoomInv
    <2> SUFFICES ASSUME Init PROVE RoomInv
      OBVIOUS
    <2>1. /\ pc = "idle" /\ at = 0 /\ part = {} /\ before = Decrypted /\ outcome = "none"
          /\ request.cmd = "restore"
      BY DEF Init, NoRequest
    <2> QED
      BY <2>1 DEF RoomInv, Through
  <1> QED
    BY <1>1, RoomStep, RoomIsForOne, Invariance, PTL DEF Spec

-----------------------------------------------------------------------------
(* What a restore has to show for itself.                                  *)

Successes == {"complete", "partial"}

\* A command is under way, or has ended well.
Alive == pc # "idle" \/ outcome \in Successes

\* Of what the request covers, disc n's files are at the destination, and a path
\* with any of them is known to have been put there.
Gathered(n) ==
  /\ \A f \in ImageOf(n).files :
       request.only = {} \/ (\E w \in request.only : f \in Covers(w)) => dest[f] \in Image
  /\ \A w \in request.only : Covers(w) \cap ImageOf(n).files # {} => w \in wrote

\* The discs to search were chosen by what is staged, and those missing noted.
SearchesChosen ==
  Alive /\ pc # "select" =>
    sel = NarrowByIndex(Chosen) /\ missing = (request.disc = 0 /\ LacksDiscs)

\* Each requested path at the destination was there before, or was put there.
HadOrWrote == Alive => \A w \in request.only : There(w, dest, dirAt) => w \in had \cup wrote

FoundIsThere ==
  Alive => /\ found \subseteq had \cup wrote
           /\ ~warned => \A w \in found \ wrote : ShownFalsely(w)

DiscsGathered == Alive /\ ~warned => \A n \in sel \ todo : Gathered(n)

EndsWell ==
  /\ pc = "extract" => request.only = {} \/ Here(at) # {}
  /\ outcome \in Successes => todo = {} /\ request.only \subseteq found
  /\ outcome = "complete" => ~missing

SearchInv == SearchesChosen /\ HadOrWrote /\ FoundIsThere /\ DiscsGathered /\ EndsWell

\* Steps of a command leave the discs there are, what is recorded of them and,
\* of those it is done with, the ciphertext.
LEMMA DiscsStay ==
  ASSUME IInv, [Next]_vars
  PROVE  /\ UNCHANGED small /\ Staged' = Staged
         /\ \A n \in DiscNo \ todo : cipher'[n] = cipher[n]
  <1>1. UNCHANGED small
    BY DEF Next, Begin, Step, Select, NextImage, Reuse, Decrypt, Repair, Redecrypt, Verify, Audit,
           Extract, ExtractSome, Extracts, Stop, vars
  <1>2. cipher \in [DiscNo -> Ciphertext \cup {None}]
    BY DEF IInv, TypeOK
  <1>3. CASE UNCHANGED cipher
    BY <1>1, <1>3 DEF Staged
  <1>4. CASE /\ pc = "repair" /\ Par2Restores(at)
             /\ \E lost \in SUBSET Block :
                  cipher' = [cipher EXCEPT ![at] = [of |-> parity[at], damage |-> lost]]
    <2>1. PICK lost \in SUBSET Block :
            cipher' = [cipher EXCEPT ![at] = [of |-> parity[at], damage |-> lost]]
      BY <1>4
    <2>2. at \in todo /\ at \in DiscNo /\ cipher[at] \in Ciphertext
      BY <1>4, AtDisc
    <2>3. [of |-> parity[at], damage |-> lost] \in Ciphertext
      BY <1>4, <2>2 DEF Par2Restores, IInv, TypeOK, Ciphertext
    <2>4. cipher[at] # None /\ [of |-> parity[at], damage |-> lost] # None
      BY <2>2, <2>3, RestoreAssumption
    <2>5. cipher'[at] # None /\ \A n \in DiscNo \ {at} : cipher'[n] = cipher[n]
      BY <1>2, <2>1, <2>2, <2>4
    <2> QED
      BY <1>1, <2>2, <2>4, <2>5 DEF Staged
  <1>5. CASE Repair
    <2>1. CASE Par2Restores(at) /\ cipher' = [cipher EXCEPT ![at] = Intact(parity[at])]
      BY <1>4, <1>5, <2>1 DEF Repair, Intact
    <2> QED
      BY <1>3, <1>5, <2>1 DEF Repair
  <1>6. CASE Stop
    <2>1. CASE StopRepairing
      BY <1>3, <1>4, <2>1 DEF StopRepairing
    <2> QED
      BY <1>3, <1>6, <2>1 DEF Stop, StopExtracting, StopDecrypting
  <1> QED
    BY <1>3, <1>5, <1>6 DEF Next, Begin, Step, Select, NextImage, Reuse, Decrypt, Redecrypt, Verify,
       Audit, Extract, ExtractSome, Extracts, vars

\* So what was chosen and gathered stays so, while the command does something
\* else than choose, extract and end.
LEMMA ChoiceStays ==
  ASSUME IInv, [Next]_vars, request' = request
  PROVE  /\ NarrowByIndex(Chosen)' = NarrowByIndex(Chosen) /\ LacksDiscs' = LacksDiscs
         /\ \A n \in DiscNo \ todo : ImageOf(n)' = ImageOf(n)
  <1>1. UNCHANGED <<csum, sum, index, manifest>> /\ Staged' = Staged
    BY DiscsStay DEF small
  <1>2. Chosen' = Chosen
    BY <1>1 DEF Chosen
  <1>3. NarrowByIndex(Chosen)' = NarrowByIndex(Chosen)
    BY <1>1, <1>2 DEF NarrowByIndex, Legible, HitsOf
  <1>4. LacksDiscs' = LacksDiscs
    BY <1>1 DEF LacksDiscs
  <1> QED
    BY <1>1, <1>3, <1>4, DiscsStay DEF ImageOf

\* A disc gathered stays gathered.
LEMMA GatheredStays ==
  ASSUME IInv, [Next]_vars, request' = request, wrote \subseteq wrote',
         \A f \in File : dest[f] \in Image => dest'[f] \in Image,
         NEW n \in DiscNo \ todo, Gathered(n), ImageOf(n) \in Image
  PROVE  Gathered(n)'
  <1>1. ImageOf(n)' = ImageOf(n)
    BY ChoiceStays
  <1>2. ImageOf(n).files \subseteq File
    BY RestoreAssumption DEF ImageType
  <1>3. \A f \in ImageOf(n).files :
          request'.only = {} \/ (\E w \in request'.only : f \in Covers(w)) => dest'[f] \in Image
    BY <1>2 DEF Gathered
  <1>4. \A w \in request'.only : Covers(w) \cap ImageOf(n).files # {} => w \in wrote'
    BY DEF Gathered
  <1> QED
    BY <1>1, <1>3, <1>4 DEF Gathered, Covers

\* The image a staged disc ends up as is one.
LEMMA ImageOfIs ==
  ASSUME IInv, NEW n \in Staged
  PROVE  n \in DiscNo /\ ImageOf(n) \in Image
  <1>1. n \in DiscNo /\ cipher[n] \in Ciphertext
    BY DEF IInv, TypeOK, Staged
  <1> QED
    BY <1>1 DEF ImageOf, Ciphertext

\* The image in hand is the one the disc ends up as.
LEMMA ImageInHand ==
  ASSUME IInv, pc \in {"audit", "extract"}
  PROVE  plain[at] \in Image /\ ImageOf(at) = plain[at]
  <1>1. Vouched(at)
    BY DEF IInv, Working
  <1>2. None \notin Image
    BY RestoreAssumption
  <1> QED
    BY <1>1, <1>2 DEF Vouched, ImageOf, Intact

\* A path the image has anything of is not overlooked.
LEMMA NotOverlooked ==
  ASSUME NEW i \in Image, NEW want, NEW w \in want, w \in File \cup Dir,
         Covers(w) \cap i.files # {} \/ Covers(w) \cap DirsOf(i) # {}
  PROVE  w \in PathsPresent(i, want)
  <1>1. i.files \subseteq File /\ File \cap Dir = {}
    BY RestoreAssumption DEF ImageType
  <1>2. CASE w \in File
    <2>1. Covers(w) = {w} /\ w \notin DirsOf(i)
      BY <1>1, <1>2 DEF Covers, DirsOf
    <2> QED
      BY <1>2, <2>1 DEF PathsPresent, Listed
  <1>3. CASE w \in Dir /\ Covers(w) \cap i.files # {}
    <2>1. i.files \cap Under[w] # {}
      BY <1>1, <1>3 DEF Covers
    <2>2. w \in DirsOf(i)
      BY <1>3, <2>1, RestoreAssumption DEF DirsOf
    <2> QED
      BY <2>2 DEF PathsPresent, Covers
  <1> QED
    BY <1>2, <1>3 DEF PathsPresent

\* A command that has failed has nothing to show.
LEMMA FailureShows ==
  ASSUME pc' = "idle", outcome' \notin Successes
  PROVE  SearchInv'
  BY DEF SearchInv, SearchesChosen, HadOrWrote, FoundIsThere, DiscsGathered, EndsWell, Alive,
         Successes

\* The only requested paths that may be counted from the start are those there.
LEMMA BeginShows ==
  ASSUME IInv, NEW r \in Requests, Begin(r)
  PROVE  SearchInv'
  <1>1. CASE pc' = "idle"
    BY <1>1, FailureShows DEF Begin, Successes
  <1>2. CASE pc' = "select"
    <2>1. request' = r /\ had' = {w \in r.only : There(w, dest, dirAt)} /\ UNCHANGED <<dest, dirAt>>
      BY DEF Begin, destination
    <2>2. HadOrWrote'
      BY <2>1 DEF HadOrWrote, There
    <2> QED
      BY <1>2, <2>2 DEF Begin, SearchInv, SearchesChosen, FoundIsThere, DiscsGathered, EndsWell,
                        Successes
  <1> QED
    BY <1>1, <1>2 DEF Begin

\* Steps that neither choose, extract nor end show nothing new.
LEMMA WorkShows ==
  ASSUME IInv, SearchInv, [Next]_vars, pc \notin {"idle", "select"}, pc' \notin {"idle", "select"},
         UNCHANGED <<request, sel, todo, tally, outcome, destination>>,
         pc' = "extract" => EndsWell'
  PROVE  SearchInv'
  <1>1. outcome = "none" /\ sel \subseteq Staged /\ Alive
    BY DEF IInv, Working, Alive
  <1>2. SearchesChosen'
    BY <1>1, ChoiceStays DEF SearchInv, SearchesChosen, tally
  <1>3. HadOrWrote'
    BY <1>1 DEF SearchInv, HadOrWrote, tally, destination, There
  <1>4. FoundIsThere'
    BY <1>1 DEF SearchInv, FoundIsThere, tally, ShownFalsely, Covers
  <1>5. DiscsGathered'
    <2> SUFFICES ASSUME ~warned', NEW n \in sel' \ todo' PROVE Gathered(n)'
      BY DEF DiscsGathered
    <2>1. Gathered(n)
      BY <1>1 DEF SearchInv, DiscsGathered, tally
    <2>2. n \in DiscNo \ todo /\ ImageOf(n) \in Image
      BY <1>1, ImageOfIs
    <2> QED
      BY <2>1, <2>2, GatheredStays DEF tally, destination
  <1>6. EndsWell'
    BY <1>1 DEF EndsWell, Successes
  <1> QED
    BY <1>2, <1>3, <1>4, <1>5, <1>6 DEF SearchInv

\* The selection is made of what is staged, and nothing has been searched yet.
LEMMA SelectShows ==
  ASSUME IInv, SearchInv, [Next]_vars, Select
  PROVE  SearchInv'
  <1>1. CASE Ends("refused")
    BY <1>1, FailureShows DEF Ends, Successes
  <1>2. CASE /\ sel' = NarrowByIndex(Chosen) /\ todo' = sel'
             /\ missing' = (request.disc = 0 /\ LacksDiscs) /\ pc' = "next"
             /\ UNCHANGED <<request, found, had, wrote, warned, outcome>>
    <2>1. UNCHANGED destination /\ outcome = "none" /\ Alive
      BY DEF Select, IInv, Working, Alive
    <2>2. SearchesChosen'
      BY <1>2, ChoiceStays DEF SearchesChosen
    <2>3. HadOrWrote'
      BY <1>2, <2>1 DEF SearchInv, HadOrWrote, destination, There
    <2>4. FoundIsThere'
      BY <1>2, <2>1 DEF SearchInv, FoundIsThere, ShownFalsely, Covers
    <2>5. DiscsGathered' /\ EndsWell'
      BY <1>2, <2>1 DEF DiscsGathered, EndsWell, Successes
    <2> QED
      BY <2>2, <2>3, <2>4, <2>5 DEF SearchInv
  <1> QED
    BY <1>1, <1>2 DEF Select

\* A command ends well only with every disc searched and every path found.
LEMMA NextImageShows ==
  ASSUME IInv, SearchInv, [Next]_vars, NextImage
  PROVE  SearchInv'
  <1>1. CASE pc' = "reuse" /\ UNCHANGED <<request, sel, todo, tally, outcome>>
    BY <1>1, WorkShows DEF NextImage
  <1>2. CASE Ends("failed")
    BY <1>2, FailureShows DEF Ends, Successes
  <1>3. CASE /\ todo = {} /\ request.only \subseteq found
             /\ Ends(IF missing THEN "partial" ELSE "complete")
    <2>1. /\ UNCHANGED <<request, sel, todo, tally, destination>> /\ pc' = "idle" /\ pc = "next"
          /\ outcome' = IF missing THEN "partial" ELSE "complete"
      BY <1>3 DEF NextImage, Ends
    <2>2. sel \subseteq Staged /\ Alive
      BY <2>1 DEF IInv, Working, Alive
    <2>3. SearchesChosen'
      BY <2>1, <2>2, ChoiceStays DEF SearchInv, SearchesChosen, tally
    <2>4. HadOrWrote'
      BY <2>1, <2>2 DEF SearchInv, HadOrWrote, tally, destination, There
    <2>5. FoundIsThere'
      BY <2>1, <2>2 DEF SearchInv, FoundIsThere, tally, ShownFalsely, Covers
    <2>6. DiscsGathered'
      <3> SUFFICES ASSUME ~warned', NEW n \in sel' \ todo' PROVE Gathered(n)'
        BY DEF DiscsGathered
      <3>1. Gathered(n)
        BY <2>1, <2>2 DEF SearchInv, DiscsGathered, tally
      <3>2. n \in DiscNo \ todo /\ ImageOf(n) \in Image
        BY <2>1, <2>2, ImageOfIs
      <3> QED
        BY <2>1, <3>1, <3>2, GatheredStays DEF tally, destination
    <2>7. EndsWell'
      BY <1>3, <2>1 DEF EndsWell, tally
    <2> QED
      BY <2>3, <2>4, <2>5, <2>6, <2>7 DEF SearchInv
  <1> QED
    BY <1>1, <1>2, <1>3 DEF NextImage

\* Once the image in hand is gathered, and it alone is done with, all of those
\* done with are.
LEMMA OneMoreGathered ==
  ASSUME IInv, SearchInv, [Next]_vars, pc \in {"audit", "extract"}, DoneWith(at),
         wrote \subseteq wrote', \A f \in File : dest[f] \in Image => dest'[f] \in Image,
         ~warned' => ~warned, NEW d \in DiscNo, d = at, ~warned' => Gathered(d)'
  PROVE  DiscsGathered'
  <1> SUFFICES ASSUME ~warned', NEW n \in sel' \ todo' PROVE Gathered(n)'
    BY DEF DiscsGathered
  <1>1. sel \subseteq Staged /\ Alive /\ sel' = sel /\ todo' = todo \ {at} /\ request' = request
    BY DEF IInv, Working, Alive, DoneWith
  <1>2. CASE n = d
    BY <1>2
  <1>3. CASE n # d
    <2>1. n \in sel \ todo /\ n \in DiscNo \ todo /\ ImageOf(n) \in Image
      BY <1>1, <1>3, ImageOfIs
    <2>2. Gathered(n)
      BY <1>1, <2>1 DEF SearchInv, DiscsGathered
    <2> QED
      BY <1>1, <2>1, <2>2, GatheredStays
  <1> QED
    BY <1>2, <1>3

\* Passing over an image leaves nothing out that was asked for.
LEMMA AuditShows ==
  ASSUME IInv, SearchInv, [Next]_vars, Audit
  PROVE  SearchInv'
  <1>1. CASE \E how \in {"listed", "refused"} : Ends(how)
    BY <1>1, FailureShows DEF Ends, Successes
  <1>2. CASE Goes("extract") /\ (request.only = {} \/ Here(at) # {}) /\ UNCHANGED plain
    <2>1. EndsWell'
      BY <1>2 DEF SearchInv, EndsWell, Goes, tally, Here, PathsPresent, Covers, Listed, DirsOf
    <2> QED
      BY <1>2, <2>1, WorkShows DEF Audit, Goes
  <1>3. CASE request.only # {} /\ Here(at) = {} /\ DoneWith(at) /\ UNCHANGED tally
    <2>1. /\ UNCHANGED <<request, sel, outcome, destination, cipher, sum>> /\ pc' = "next"
          /\ pc = "audit" /\ outcome = "none" /\ Alive /\ at \in DiscNo
          /\ request.only \subseteq File \cup Dir
      BY <1>3, AtDisc, RestoreAssumption
      DEF Audit, DoneWith, IInv, TypeOK, Working, Alive, small, Request, NoRequest
    <2>2. PICK d \in DiscNo : d = at
      BY <2>1
    <2>3. plain[at] \in Image /\ ImageOf(d) = plain[at]
      BY <2>1, <2>2, ImageInHand
    <2>4. \A w \in request.only : Covers(w) \cap ImageOf(d).files = {}
      BY <1>3, <2>1, <2>3, NotOverlooked DEF Here
    <2>5. Gathered(d)'
      <3>1. ImageOf(d)' = ImageOf(d)
        BY <2>1 DEF ImageOf
      <3>2. /\ \A f \in ImageOf(d).files :
                 request.only = {} \/ (\E w \in request.only : f \in Covers(w)) => dest'[f] \in Image
            /\ \A w \in request.only : Covers(w) \cap ImageOf(d).files # {} => w \in wrote'
        BY <1>3, <2>4
      <3> QED
        BY <2>1, <3>1, <3>2 DEF Gathered, Covers
    <2>6. DiscsGathered'
      BY <1>3, <2>1, <2>2, <2>5, OneMoreGathered DEF tally, destination
    <2>7. SearchesChosen'
      BY <1>3, <2>1, ChoiceStays DEF SearchInv, SearchesChosen, tally
    <2>8. HadOrWrote' /\ FoundIsThere' /\ EndsWell'
      BY <1>3, <2>1 DEF SearchInv, HadOrWrote, FoundIsThere, EndsWell, Successes, tally, destination,
                        There, ShownFalsely, Covers
    <2> QED
      BY <2>6, <2>7, <2>8 DEF SearchInv
  <1> QED
    BY <1>1, <1>2, <1>3 DEF Audit

\* What is at the destination and was not before is of the image, and asked for.
LEMMA NewIsWritten ==
  ASSUME IInv, pc = "extract", NEW files \in SUBSET FilesOf(plain[at], Here(at)), Extracts(files),
         NEW w \in request.only, There(w, dest', dirAt'), ~There(w, dest, dirAt)
  PROVE  w \in wrote'
  <1>1. /\ plain[at] \in Image /\ request.only \subseteq File \cup Dir /\ at \in DiscNo
        /\ dest \in [File -> Image \cup {None, Old}]
    BY ImageInHand, AtDisc, RestoreAssumption DEF IInv, TypeOK, Request, NoRequest
  <1>2. files \subseteq plain[at].files
    BY DEF FilesOf
  <1>3. CASE w \in Dir
    <2>1. dirAt[w] = "none" /\ dirAt'[w] # "none"
      BY <1>3 DEF There
    <2>2. w \in DirsOf(plain[at])
      BY <1>3, <2>1 DEF Extracts, DirsAfter, Touched, DirsOf
    <2>3. w \in Here(at)
      BY <1>1, <1>3, <2>2, NotOverlooked DEF Here, Covers
    <2> QED
      BY <2>2, <2>3 DEF Extracts, Covers
  <1>4. CASE w \in File /\ w \notin Dir
    <2>1. dest[w] = None /\ dest'[w] # None
      BY <1>4 DEF There
    <2>2. w \in files
      BY <1>4, <2>1 DEF Extracts, Overwrite
    <2>3. w \in Here(at)
      BY <1>1, <1>2, <1>4, <2>2, NotOverlooked DEF Here, Covers
    <2> QED
      BY <2>2, <2>3 DEF Extracts, Covers
  <1> QED
    BY <1>1, <1>3, <1>4

\* An extraction without a warning leaves out nothing of the image that was asked
\* for.
LEMMA AllExtracted ==
  ASSUME IInv, SearchInv, pc = "extract", Extracts(FilesOf(plain[at], Here(at))),
         NEW d \in DiscNo, d = at
  PROVE  /\ Gathered(d)'
         /\ \A w \in Here(at) \ wrote' : ShownFalsely(w)
  <1> DEFINE i == plain[at]
  <1>1. /\ i \in Image /\ ImageOf(d) = i /\ ImageOf(d)' = i /\ i.files \subseteq File
        /\ request' = request /\ request.only \subseteq File \cup Dir
    <2>1. i \in Image /\ ImageOf(d) = i
      BY ImageInHand
    <2>2. UNCHANGED <<request, sum, cipher>>
      BY DEF Extracts, DoneWith, small
    <2>3. i.files \subseteq File /\ request.only \subseteq File \cup Dir
      BY <2>1, RestoreAssumption DEF IInv, TypeOK, Request, NoRequest, ImageType
    <2> QED
      BY <2>1, <2>2, <2>3 DEF ImageOf
  <1>2. request.only = {} => Here(at) = {}
    BY DEF Here, PathsPresent
  <1>3. request.only # {} => Here(at) # {}
    BY DEF SearchInv, EndsWell
  <1>4. ASSUME NEW f \in i.files, request.only = {} \/ \E w \in request.only : f \in Covers(w)
        PROVE  f \in FilesOf(i, Here(at))
    <2>1. CASE request.only = {}
      BY <1>2, <2>1 DEF FilesOf
    <2>2. CASE request.only # {}
      <3>1. PICK w \in request.only : f \in Covers(w)
        BY <1>4, <2>2
      <3>2. w \in Here(at)
        BY <1>1, <3>1, NotOverlooked DEF Here
      <3> QED
        BY <3>1, <3>2 DEF FilesOf
    <2> QED
      BY <2>1, <2>2
  <1>5. Gathered(d)'
    <2>1. \A f \in i.files :
            request.only = {} \/ (\E w \in request.only : f \in Covers(w)) => dest'[f] \in Image
      BY <1>1, <1>4 DEF Extracts, Overwrite
    <2>2. ASSUME NEW w \in request.only, Covers(w) \cap i.files # {} PROVE w \in wrote'
      <3>1. w \in Here(at)
        BY <1>1, <2>2, NotOverlooked DEF Here
      <3>2. Covers(w) \cap FilesOf(i, Here(at)) # {}
        BY <1>4, <2>2
      <3> QED
        BY <3>1, <3>2 DEF Extracts
    <2> QED
      BY <1>1, <2>1, <2>2 DEF Gathered, Covers
  <1>6. ASSUME NEW w \in Here(at), w \notin wrote' PROVE ShownFalsely(w)
    <2>1. Covers(w) \cap (FilesOf(i, Here(at)) \cup DirsOf(i)) = {}
      BY <1>6 DEF Extracts
    <2>2. Covers(w) \cap i.files \subseteq FilesOf(i, Here(at))
      BY <1>6 DEF FilesOf
    <2>3. w \in Newline \/ Covers(w) \cap Listed(i) # {}
      BY <1>6, <2>1 DEF Here, PathsPresent
    <2> QED
      BY <2>1, <2>2, <2>3 DEF Listed, ShownFalsely
  <1> QED
    BY <1>5, <1>6

\* What is found is there because it was before, or was put there.
LEMMA ExtractShows ==
  ASSUME IInv, SearchInv, [Next]_vars, Extract \/ ExtractSome
  PROVE  SearchInv'
  <1>1. PICK files \in SUBSET FilesOf(plain[at], Here(at)) : Extracts(files)
    BY ExtractsAny
  <1>2. /\ pc = "extract" /\ pc' = "next" /\ Alive /\ outcome' = "none" /\ plain[at] \in Image
        /\ UNCHANGED <<request, sel, missing, had>> /\ DoneWith(at)
        /\ found' = found \cup Seen(at) /\ wrote \subseteq wrote'
    BY <1>1, ExtractsAny, ImageInHand DEF Extracts, DoneWith, IInv, Working, Alive
  <1>3. ~warned' => Extracts(FilesOf(plain[at], Here(at))) /\ ~warned
    BY DEF Extract, ExtractSome
  <1>4. PICK d \in DiscNo : d = at
    BY <1>2, AtDisc
  <1>5. SearchesChosen'
    BY <1>2, ChoiceStays DEF SearchInv, SearchesChosen
  <1>6. \A w \in request.only : There(w, dest', dirAt') => w \in had \cup wrote'
    <2> SUFFICES ASSUME NEW w \in request.only, There(w, dest', dirAt'), w \notin wrote'
                 PROVE  w \in had
      OBVIOUS
    <2>1. There(w, dest, dirAt)
      BY <1>1, <1>2, NewIsWritten
    <2> QED
      BY <1>2, <2>1 DEF SearchInv, HadOrWrote
  <1>7. HadOrWrote'
    BY <1>2, <1>6 DEF HadOrWrote, There
  <1>8. FoundIsThere'
    <2>1. Seen(at) \subseteq had \cup wrote'
      BY <1>6 DEF Seen, Here, PathsPresent
    <2>2. ASSUME ~warned', NEW w \in found', w \notin wrote' PROVE ShownFalsely(w)
      <3>1. CASE w \in found
        BY <1>2, <1>3, <2>2, <3>1 DEF SearchInv, FoundIsThere
      <3>2. CASE w \in Here(at)
        BY <1>2, <1>3, <1>4, <2>2, <3>2, AllExtracted
      <3> QED
        BY <1>2, <3>1, <3>2 DEF Seen
    <2>3. \A w \in found' \ wrote' : ~warned' => ShownFalsely(w)
      BY <2>2
    <2>4. found' \subseteq had' \cup wrote'
      BY <1>2, <2>1 DEF SearchInv, FoundIsThere
    <2> QED
      BY <2>3, <2>4 DEF FoundIsThere, ShownFalsely, Covers
  <1>9. DiscsGathered'
    <2>1. \A f \in File : dest[f] \in Image => dest'[f] \in Image
      BY <1>1, <1>2 DEF Extracts, Overwrite
    <2>2. ~warned' => Gathered(d)'
      BY <1>2, <1>3, <1>4, AllExtracted
    <2> QED
      BY <1>2, <1>3, <1>4, <2>1, <2>2, OneMoreGathered
  <1>10. EndsWell'
    BY <1>2 DEF EndsWell, Successes
  <1> QED
    BY <1>5, <1>7, <1>8, <1>9, <1>10 DEF SearchInv

\* SearchInv is inductive, relative to IInv.
LEMMA SearchStep == IInv /\ SearchInv /\ [Next]_vars => SearchInv'
  <1> SUFFICES ASSUME IInv, SearchInv, [Next]_vars PROVE SearchInv'
    OBVIOUS
  <1>1. CASE \E r \in Requests : Begin(r)
    BY <1>1, BeginShows
  <1>2. ASSUME NEW how \in Outcome \ Successes, Ends(how) PROVE SearchInv'
    BY <1>2, FailureShows DEF Ends
  <1>3. ASSUME pc \notin {"idle", "select"}, UNCHANGED destination,
               NEW where \in {"decrypt", "repair", "redecrypt", "verify", "audit"}, Goes(where)
        PROVE  SearchInv'
    BY <1>3, WorkShows DEF Goes
  <1>4. CASE Reuse
    BY <1>3, <1>4 DEF Reuse
  <1>5. CASE Decrypt
    BY <1>2, <1>3, <1>5 DEF Decrypt, Promote, Outcome, Successes
  <1>6. CASE Repair
    BY <1>2, <1>3, <1>6 DEF Repair, Outcome, Successes
  <1>7. CASE Redecrypt
    BY <1>2, <1>3, <1>7 DEF Redecrypt, Promote, Outcome, Successes
  <1>8. CASE Verify
    BY <1>2, <1>3, <1>8 DEF Verify, Outcome, Successes
  <1>9. CASE Stop
    BY <1>2, <1>9 DEF Stop, Outcome, Successes
  <1>10. CASE UNCHANGED vars
    BY <1>10 DEF vars, small, destination, tally, SearchInv, SearchesChosen, HadOrWrote, FoundIsThere,
                 DiscsGathered, EndsWell, Alive, Gathered, ImageOf, There, Covers, ShownFalsely,
                 NarrowByIndex, Chosen, Staged, Legible, HitsOf, LacksDiscs, Here, PathsPresent,
                 Listed, DirsOf
  <1> QED
    BY <1>1, <1>4, <1>5, <1>6, <1>7, <1>8, <1>9, <1>10, SelectShows, NextImageShows, AuditShows,
       ExtractShows DEF Next, Step

\* What a command has to show for the discs it has searched is so at every step.
THEOREM SearchInvHolds == Spec => []SearchInv
  <1>1. Init => SearchInv
    BY DEF Init, SearchInv, SearchesChosen, HadOrWrote, FoundIsThere, DiscsGathered, EndsWell, Alive,
           Successes
  <1> QED
    BY <1>1, SearchStep, Invariance, PTL DEF Spec

\* A restore that says it is complete has every file it was asked for, of every
\* staged disc, at the destination: what narrowing passed over holds none.
THEOREM CompleteRestoresHaveAll == Spec => []CompleteMeansAll
  <1>1. IInv /\ SearchInv => CompleteMeansAll
    <2> SUFFICES ASSUME IInv, SearchInv, outcome = "complete", ~warned PROVE CompleteMeansAll
      BY DEF CompleteMeansAll
    <2>1. /\ Alive /\ pc = "idle" /\ todo = {} /\ ~missing /\ sel = NarrowByIndex(Chosen)
          /\ missing = (request.disc = 0 /\ LacksDiscs)
      BY DEF Alive, Successes, SearchInv, SearchesChosen, EndsWell, IInv, Working
    <2>2. request.disc = 0 /\ manifest # None => 1 .. manifest \subseteq Staged
      BY <2>1 DEF LacksDiscs
    <2>3. ASSUME request.only = {} \/ request.disc # 0 \/ ~Legible \/ \A n \in Staged : Agrees(n),
                 NEW n \in Chosen, NEW f \in ImageOf(n).files,
                 request.only = {} \/ \E w \in request.only : f \in Covers(w)
          PROVE  dest[f] \in Image
      <3>1. n \in sel
        <4>1. CASE request.only = {} \/ ~Legible \/ request.disc # 0
          BY <2>1, <4>1 DEF NarrowByIndex
        <4>2. CASE request.only # {} /\ Legible /\ request.disc = 0
          <5>1. PICK w \in request.only : f \in Covers(w)
            BY <2>3, <4>2
          <5>2. Agrees(n) /\ n \in DiscNo
            BY <2>3, <4>2 DEF Chosen, Staged
          <5>3. n \in HitsOf(w)
            BY <5>1, <5>2 DEF Agrees, HitsOf
          <5> QED
            BY <2>1, <4>2, <5>3 DEF NarrowByIndex
        <4> QED
          BY <4>1, <4>2
      <3>2. Gathered(n)
        BY <2>1, <3>1 DEF SearchInv, DiscsGathered
      <3> QED
        BY <2>3, <3>2 DEF Gathered
    <2> QED
      BY <2>2, <2>3 DEF CompleteMeansAll
  <1> QED
    BY <1>1, Invariance, SearchInvHolds, PTL

\* A path is reported restored only where it was put, or with a reason to doubt it.
THEOREM FoundIsWritten == Spec => []FoundMeansWritten
  <1>1. IInv /\ SearchInv => FoundMeansWritten
    <2> SUFFICES ASSUME IInv, SearchInv, outcome \in Successes, NEW w \in request.only, w \notin wrote
                 PROVE  Unproved(w)
      BY DEF FoundMeansWritten, Successes
    <2>1. Alive /\ pc = "idle" /\ todo = {} /\ w \in found /\ sel = NarrowByIndex(Chosen)
      BY DEF Alive, Successes, SearchInv, SearchesChosen, EndsWell, IInv, Working
    <2>2. w \in had
      BY <2>1 DEF SearchInv, FoundIsThere
    <2>3. ~warned => ShownFalsely(w)
      BY <2>1 DEF SearchInv, FoundIsThere
    <2>4. ASSUME ~warned, Legible, NEW n \in HitsOf(w) \cap Chosen, \A m \in Staged : Agrees(m)
          PROVE  FALSE
      <3>1. n \in sel
        BY <2>1, <2>4 DEF NarrowByIndex
      <3>2. Gathered(n)
        BY <2>1, <2>4, <3>1 DEF SearchInv, DiscsGathered
      <3>3. Covers(w) \cap ImageOf(n).files # {}
        BY <2>4 DEF HitsOf, Chosen, Agrees
      <3> QED
        BY <3>2, <3>3 DEF Gathered
    <2> QED
      BY <2>2, <2>3, <2>4 DEF Unproved
  <1> QED
    BY <1>1, Invariance, SearchInvHolds, PTL
=============================================================================
