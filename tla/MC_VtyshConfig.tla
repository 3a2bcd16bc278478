--------------------------- MODULE MC_VtyshConfig ---------------------------
(* Instantiates VtyshConfig for TLC.  The argument sets are given in the   *)
(* .cfg files as model values; the definitions here are the ones a cfg     *)
(* cannot write directly.                                                  *)
EXTENDS VtyshConfig, TLC

\* What the generators make of the portmap.txt and filter.txt on the device:
\* one redirect, and one filter rule.
MC_NatGen == << [name |-> "redirect", port |-> NoValue] >>
MC_FilterGen == << [name |-> "SFIREWALL_FILTER", port |-> NoValue] >>

\* The destinations of routes are interchangeable.
DstSymmetry == Permutations(Dsts)

====
