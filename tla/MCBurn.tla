------------------------------- MODULE MCBurn -------------------------------
(***************************************************************************)
(* Two discs; runs with a full payload, with none and with half of it,     *)
(* eager or not, reading back or not; staging that links, staging that     *)
(* copies, and media the documents or the data outgrow.                    *)
(***************************************************************************)
EXTENDS Burn

A(payload, located, roundtrip, eager) ==
  [payload |-> payload, located |-> located, roundtrip |-> roundtrip, eager |-> eager]
MCSettings == {A({"sh", "self"}, FALSE, FALSE, TRUE), A({}, TRUE, TRUE, FALSE)}

On(links, usable) == [links |-> links, usable |-> usable]
MCSites == {On(TRUE, 8), On(FALSE, 9), On(TRUE, 2)}

MCLeftovers == {{"image", "index", "readme", "sums"}, File \ {"image"}}

MCBurners == {[keep |-> FALSE, media |-> 9]}

\* The plainest setting in which a set is finished after an interruption.
PlainSites == {On(TRUE, 9)}
PlainBurners == {[keep |-> FALSE, media |-> 10]}
=============================================================================
