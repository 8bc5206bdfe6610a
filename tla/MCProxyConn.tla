----------------------------- MODULE MCProxyConn ----------------------------
(* Two connections for one slot.  Only the first one sends anything: the   *)
(* second is there for the slot, and connections share nothing else.       *)
EXTENDS ProxyConn

MCChunks == [c \in Conns |-> IF c = "c1" THEN 1 ELSE 0]

(* One connection whose sides send a little more.                          *)
MCTwoChunks == [c \in Conns |-> 2]
=============================================================================
