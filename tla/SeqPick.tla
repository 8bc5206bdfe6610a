-------------------------------- MODULE SeqPick --------------------------------
(***************************************************************************)
(* The loops of singbox.go and yamlcfg.go that copy the lines, users or    *)
(* rules they keep to a new slice.  Pick gives the members of a sequence   *)
(* at a set of positions, in the order they have there: SelectSeq with the *)
(* positions for a test, and a definition that can be reasoned about.      *)
(***************************************************************************)
EXTENDS Integers, Sequences, FiniteSets

(* The number of positions kept up to k.                                   *)
Rank(keep, k) == Cardinality({x \in keep : x <= k})

Pick(s, keep) ==
  [i \in 1 .. Cardinality(keep) |-> s[CHOOSE k \in keep : Rank(keep, k) = i]]
=============================================================================
