------------------------------ MODULE MCHostNet ------------------------------
(* Configurations to start with: numbers given, left out, or at the edge.  *)
(* Tunnel "a" was up before, under the old set-up.                         *)
EXTENDS HostNet

T(n, table, mark) == [name |-> n, table |-> table, mark |-> mark]

Given   == [tunnels |-> <<T("a", 64, 64), T("b", 65, 65)>>, default |-> "a", seeds |-> {"a", "b"}]
First   == [tunnels |-> <<T("a", 0, 0), T("b", 65, 65)>>, default |-> "none", seeds |-> {"b"}]
LeftOut == [tunnels |-> <<T("a", 0, 0), T("b", 0, 0)>>, default |-> "b", seeds |-> {"b"}]
Mixed   == [tunnels |-> <<T("a", 64, 64), T("b", 65, 65), T("c", 0, 0)>>,
            default |-> "b", seeds |-> {}]
Edge    == [tunnels |-> <<T("a", 64, 255)>>, default |-> "a", seeds |-> {}]

MCFiles   == {First}
MCLeftOut == {LeftOut}
MCMixed   == {Mixed}
MCEdge    == {Edge}
MCGiven   == {Given}

MCNftName == [n \in Names |-> n]
MCSameNft == [n \in Names |-> IF n = "c" THEN "b" ELSE n]
MCSeeds   == [n \in Names |-> IF n = "a" THEN {320} ELSE {}]
=============================================================================
