----------------------------- MODULE MCRestore -----------------------------
(***************************************************************************)
(* Two discs of a set and images of another, staged with at most two       *)
(* things wrong.                                                           *)
(***************************************************************************)
EXTENDS Restore

CONSTANTS d, e, none, rot, wrong, old

MCDiscNo == {1, 2}
MCFile == {"a", "b", "n"}
\* The directory e is in d.
MCDir == {d, e}
MCUnder == [x \in MCDir |-> IF x = d THEN {"a", "b", "n", e} ELSE {"b", "n"}]
MCCutShort == [x \in {"n"} |-> "a"]

AnImage(s, files, at_e, opens) ==
  [set |-> s, files |-> files, dirs |-> [x \in MCDir |-> IF x = d THEN "dir" ELSE at_e], opens |-> opens]

\* This set; another backup of the same tree; an image with a symlink where
\* this set has a directory; and one no key of ours opens.
g == <<AnImage("this", {"a"}, "dir", TRUE), AnImage("this", {"b", "n"}, "dir", TRUE)>>
alike == AnImage("other", {"a"}, "dir", TRUE)
linked == AnImage("other", {}, "link", TRUE)
sealed == AnImage("other", {"b"}, "dir", FALSE)
MCImage == {g[1], g[2], alike, linked, sealed}

Clean == [
  cipher |-> [n \in MCDiscNo |-> [of |-> g[n], damage |-> {}]],
  copies |-> [n \in MCDiscNo |-> {}],
  csum |-> g, sum |-> g, parity |-> g,
  plain |-> [n \in MCDiscNo |-> none],
  index |-> [rows |-> [n \in MCDiscNo |-> g[n].files], bad |-> FALSE],
  manifest |-> 2,
  dest |-> [f \in MCFile |-> none],
  dirAt |-> [x \in MCDir |-> "none"],
  par2 |-> TRUE]

\* Disc n as ingest stages one of another set.
Swapped(s, n, i) ==
  [s EXCEPT !.cipher[n] = [of |-> i, damage |-> {}],
            !.csum[n] = i, !.sum[n] = i, !.parity[n] = i]

\* One more thing wrong with a disc, and with the rest.
DiscFaults(s) == UNION {
    {[s EXCEPT !.csum[n] = v] : v \in {none, rot, wrong}}
    \cup {[s EXCEPT !.sum[n] = v] : v \in {none, rot, wrong}}
    \cup {[s EXCEPT !.cipher[n] = none], [s EXCEPT !.parity[n] = none]}
    \cup {[s EXCEPT !.plain[n] = i] : i \in {g[n], alike}}
    \cup {Swapped(s, n, i) : i \in {alike, linked, sealed}}
    \cup {[s EXCEPT !.copies[n] = {[of |-> g[n], damage |-> {2}]}]}
    \cup {[s EXCEPT !.cipher[n] = [of |-> g[n], damage |-> x]] : x \in {{1}, {1, 2}}}
  : n \in MCDiscNo}

OtherFaults(s) ==
  {[s EXCEPT !.index = v] : v \in {none, rot, [rows |-> [n \in MCDiscNo |-> IF n = 1 THEN {"a"} ELSE {}], bad |-> TRUE]}}
  \cup {[s EXCEPT !.manifest = none], [s EXCEPT !.par2 = FALSE]}
  \cup {[s EXCEPT !.dest["a"] = old, !.dirAt[d] = "dir"], [s EXCEPT !.dest["n"] = old, !.dirAt = [x \in MCDir |-> "dir"]]}
  \cup {[s EXCEPT !.dirAt[e] = v] : v \in {"link", "linkToDir"}}

Faults(s) == DiscFaults(s) \cup OtherFaults(s)
MCStagings == {Clean} \cup Faults(Clean) \cup UNION {Faults(s) : s \in Faults(Clean)}

Asks(n, only, keep) == [cmd |-> "restore", disc |-> n, only |-> only, keep |-> keep]
MCRequests ==
  {Asks(0, {}, FALSE), Asks(0, {}, TRUE), Asks(0, {"a"}, FALSE), Asks(0, {"n"}, FALSE),
   Asks(0, {d}, FALSE), Asks(1, {"n"}, FALSE), Asks(0, {"a", "b"}, FALSE), Asks(2, {"a", "b"}, FALSE), Asks(2, {}, FALSE),
   [cmd |-> "list", disc |-> 1, only |-> {}, keep |-> FALSE]}
=============================================================================
