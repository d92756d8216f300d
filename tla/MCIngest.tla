------------------------------ MODULE MCIngest ------------------------------
(* Instances of Ingest for TLC: files of two blocks, discs damaged in the  *)
(* ways that matter, and a disc of another set.                            *)
EXTENDS Ingest

CONSTANTS ours, theirs, rot

MCSet == {ours, theirs}
MCBlock == 1 .. 2
MCWrong == {rot}

\* A file that reads as the given outcomes, block by block.
Reads(first, second) == <<first, second>>
Good(s) == Reads({s}, {s})

Burned(s, image, index, parity, sum, k) ==
  [set |-> s, disc |-> 1,
   data |-> [kd \in Kind |-> CASE kd = "image" -> image [] kd = "index" -> index [] OTHER -> parity],
   sums |-> [kd \in Kind |-> sum], key |-> k]

PerfectDisc(s) == Burned(s, Good(s), Good(s), Good(s), s, s)

\* An unreadable sector, one that reads only sometimes, wrong bytes read without
\* an error, and each of them on another block on a second pressing.
Scratched == Burned(ours, Reads({Bad}, {ours, Bad}), Good(ours), Good(ours), ours, None)
Rotten == Burned(ours, Reads({ours}, {rot}), Reads({ours}, {ours, rot}), Reads({rot}, {ours, Bad}), ours, Bad)
Flaky == Burned(ours, Reads({rot}, {ours, Bad}), Good(ours), Reads({ours}, {rot}), ours, ours)
\* An index that reads wrong, and always the same.
Faded == Burned(ours, Good(ours), Reads({ours}, {rot}), Good(ours), ours, None)
\* Another set's, with an index that reads only sometimes.
Illegible == Burned(theirs, Good(theirs), Reads({theirs, Bad}, {theirs}), Good(theirs), theirs, None)
\* No hashes recorded.
Unsummed == Burned(ours, Reads({ours, Bad}, {rot}), Good(ours), Good(ours), None, None)

MCPressings == {PerfectDisc(ours), PerfectDisc(theirs), Scratched, Rotten, Flaky, Faded, Illegible,
                Unsummed}

\* One set, no foreign disc: bytes that read wrong without an error.
RottenPressings == {PerfectDisc(ours), Scratched, Rotten, Flaky}
=============================================================================
