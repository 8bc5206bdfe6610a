--------------------------- MODULE MCStickyEgress ---------------------------
(* One tunnel, a plain account "u", an entry account "e", a seed "s".      *)
EXTENDS StickyEgress

TunA == [name |-> "a", net |-> "n1", sticky |-> 2]

MCTunnels  == {TunA}
MCHome     == [u \in Users |-> TunA]
MCSeeds    == [u \in {"s"} |-> [net |-> "n1", iid |-> 1]]
MCNoSeeds  == [u \in {} |-> 0]
(* What an earlier version left: "u" on record without last_used.          *)
LegacyFile ==
  [EmptyStore EXCEPT !.records["u"] =
                       [tun |-> "a", addr |-> [net |-> "n1", iid |-> 2], used |-> "unset"],
                     !.next["a"] = 3]

MCOldFiles    == {EmptyStore}
MCLegacyFiles == {EmptyStore, LegacyFile}
=============================================================================
