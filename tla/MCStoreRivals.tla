---------------------------- MODULE MCStoreRivals ---------------------------
(* Tunnels "a" (the default) and "b"; b can get another /64.  Account "d"  *)
(* names no tunnel, account "x" names b.                                   *)
EXTENDS StoreRivals

TunA  == [name |-> "a", net |-> "n1", sticky |-> 1]
TunB  == [name |-> "b", net |-> "n2", sticky |-> 1]
TunB2 == [name |-> "b", net |-> "n3", sticky |-> 1]

MCTunnels  == {TunA, TunB, TunB2}
MCConfigs  == {[tunnels |-> {TunA, TunB}, default |-> "a"]}
MCWanted   == [d |-> "", x |-> "b"]
MCSeeds    == [u \in {} |-> 0]
MCOldFiles == {EmptyStore}
=============================================================================
