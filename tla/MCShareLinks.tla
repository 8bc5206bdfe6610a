----------------------------- MODULE MCShareLinks -----------------------------
(* One entry "a" on port 1 with a line of its own, and a second, "b",      *)
(* with a line or without.                                                 *)
EXTENDS ShareLinks, TLC

E(tag, kind, port, cred) == [tag |-> tag, kind |-> kind, port |-> port, users |-> <<cred>>, on |-> TRUE]

One  == [ents |-> {E("a", "vless", 1, 1)}, url |-> <<Link(1, 1)>>]
Two  == [ents |-> {E("a", "vless", 1, 1), E("b", "vless", 2, 2)}, url |-> <<Link(1, 1), Link(2, 2)>>]

Symmetry == Permutations(Requests)

MCStarts == {Two}
MCOne    == {One}
=============================================================================
