----------------------------- MODULE ArchiveSet -----------------------------
(***************************************************************************)
(* What a backup set promises, whatever happens while it is written: a     *)
(* sequence of discs that only ever grows at its end, until it is complete *)
(* and every disc carries the catalog of all of them.                      *)
(*                                                                         *)
(* Nothing here knows of runs, staging or interruptions.                   *)
(***************************************************************************)
EXTENDS Naturals, Sequences, FiniteSets

CONSTANTS
  FileKind, Absent   \* kinds a path may have on a disc

VARIABLES
  discs,    \* the finished discs, in order: [kinds, key, room]
  catalog   \* file to disc, once the set is complete

FilesOn(c) == {p \in DOMAIN c.kinds : c.kinds[p] = FileKind}

\* Two discs of one set: no file twice, no path of two kinds, one key, one
\* medium.
Compatible(c, e) ==
  /\ FilesOn(c) \cap FilesOn(e) = {}
  /\ \A p \in DOMAIN c.kinds :
       Absent \in {c.kinds[p], e.kinds[p]} \/ c.kinds[p] = e.kinds[p]
  /\ c.key = e.key /\ c.room = e.room

Init == discs = <<>> /\ catalog = {}

\* One more disc, whatever is on it, compatible with all before it.
AddDisc ==
  /\ catalog = {}
  /\ Len(discs') = Len(discs) + 1 /\ SubSeq(discs', 1, Len(discs)) = discs
  /\ LET c == discs'[Len(discs')] IN
       /\ FilesOn(c) # {} /\ Cardinality(FilesOn(c)) <= c.room
       /\ \A i \in DOMAIN discs : Compatible(discs[i], c)
  /\ UNCHANGED catalog

Complete ==
  /\ catalog = {} /\ discs # <<>>
  /\ catalog' = UNION {{<<i, p>> : p \in FilesOn(discs[i])} : i \in DOMAIN discs}
  /\ UNCHANGED discs

Next == Complete \/ AddDisc

Spec == Init /\ [][Next]_<<discs, catalog>>
=============================================================================
