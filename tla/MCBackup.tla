------------------------------ MODULE MCBackup ------------------------------
(* Instances of Backup for TLC: a directory with a file in it and two files *)
(* beside it, with the trees and settings each run needs.                   *)
EXTENDS Backup

CONSTANTS keysA, keysB, set1, set2

MCPath == {"d", "d/f", "g", "h"}
MCAbove == [p \in MCPath |-> IF p = "d/f" THEN {"d"} ELSE {}]

TreeOf(d, f, g, h) ==
  [p \in MCPath |-> IF p = "d" THEN d ELSE IF p = "d/f" THEN f ELSE IF p = "g" THEN g ELSE h]

\* A tree; the same with the directory gone, and a new file; with a file and
\* with a link where the directory was; with a link and with a directory where
\* a file was.
ChangingTrees ==
  {TreeOf("dir", "file", "file", "absent"), TreeOf("absent", "absent", "file", "file"),
   TreeOf("file", "absent", "file", "file"), TreeOf("link", "absent", "file", "absent"),
   TreeOf("dir", "link", "file", "absent"), TreeOf("dir", "file", "dir", "absent")}
ThreeFiles == {[p \in {"a", "b", "c"} |-> "file"]}
FlatPath == {"a", "b", "c"}
FlatAbove == [p \in FlatPath |-> {}]

Settings(n, public, r, room) == [name |-> n, public |-> public, recipients |-> r, room |-> room]

OneConfig == {Settings(set1, FALSE, keysA, 1)}
\* Each differs from the first in one setting.
FourConfigs ==
  OneConfig \cup
  {Settings(set1, FALSE, keysB, 1), Settings(set1, FALSE, keysA, 2), Settings(set1, TRUE, keysA, 1)}
\* Room for two files, the same under another name, and no room at all.
RoomyConfigs ==
  {Settings(set1, FALSE, keysA, 2), Settings(set2, FALSE, keysA, 2), Settings(set1, FALSE, keysA, 0)}
=============================================================================
