---------------------------- MODULE StickyService ---------------------------
(***************************************************************************)
(* What the proxy promises the users of sticky accounts, whatever happens  *)
(* inside: an account is promised an address nobody else was ever promised *)
(* and keeps it until it is revoked; every session leaves through the      *)
(* address promised to its account when it was opened.                     *)
(***************************************************************************)
CONSTANTS Users, Addrs, Sessions, NoAddr, NoSession

VARIABLES
  promise,  (* user -> address or NoAddr          *)
  past,     (* every <<address, user>> promised   *)
  session   (* session -> [user, addr] or none    *)

serviceVars == <<promise, past, session>>

ServiceInit ==
  /\ promise = [u \in Users |-> NoAddr]
  /\ past = {}
  /\ session = [s \in Sessions |-> NoSession]

Assign(u, a) ==
  /\ promise[u] = NoAddr
  /\ \A p \in past : p[1] = a => p[2] = u
  /\ promise' = [promise EXCEPT ![u] = a]
  /\ past' = past \cup {<<a, u>>}
  /\ UNCHANGED session

Withdraw(gone) ==
  /\ promise' = [u \in Users |-> IF u \in gone THEN NoAddr ELSE promise[u]]
  /\ UNCHANGED <<past, session>>

Open(s, u) ==
  /\ session[s] = NoSession /\ promise[u] # NoAddr
  /\ session' = [session EXCEPT ![s] = [user |-> u, addr |-> promise[u]]]
  /\ UNCHANGED <<promise, past>>

End(closed) ==
  /\ session' = [s \in Sessions |-> IF s \in closed THEN NoSession ELSE session[s]]
  /\ UNCHANGED <<promise, past>>

ServiceNext ==
  \/ \E u \in Users, a \in Addrs : Assign(u, a)
  \/ \E gone \in SUBSET Users : Withdraw(gone)
  \/ \E s \in Sessions, u \in Users : Open(s, u)
  \/ \E closed \in SUBSET Sessions : End(closed)

ServiceSpec == ServiceInit /\ [][ServiceNext]_serviceVars
=============================================================================
