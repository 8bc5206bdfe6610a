---------------------------- MODULE EphemeralPool ---------------------------
(***************************************************************************)
(* The default account with ephemeral: true (ephemeral.go): a connection   *)
(* draws a random interface identifier, puts its /128 on the tunnel's      *)
(* interface through netlink and binds it; after the connection the        *)
(* address stays for a grace period, then a timer takes it off.  Sticky    *)
(* accounts add their addresses to the same interface without asking the   *)
(* pool, and the kernel refuses an address that is already there.          *)
(*                                                                         *)
(* One tunnel: the pool keeps one set of identifiers per interface.        *)
(***************************************************************************)
EXTENDS Integers, FiniteSets

CONSTANTS
  Proxies,  (* goroutines of proxy() serving the default account             *)
  Random,   (* identifiers randIID may draw                                  *)
  Sticky,   (* identifiers of the sticky accounts on record                  *)
  Reserved, (* 0 and 1                                                       *)
  Base,     (* identifier of the tunnel's base address                       *)
  Faults    (* "add", "del": netlink fails; "crash"; "flap": the interface   *)
            (* is restarted under the process                                *)

ASSUME PoolAssumption == Base \notin Sticky

IIDs == Random \cup Sticky \cup {Base}

VARIABLES
  iface,    (* identifiers of the /128s on the interface, base apart         *)
  used,     (* Ephemeral.used of this interface                              *)
  timers,   (* identifiers whose delayed removal is pending                  *)
  conn,     (* connection -> [pc, iid]                                       *)
  ensured,  (* sticky identifiers the server believes on the interface       *)
  index,    (* linkIdx's cache: "unknown", "right", or "stale" after a flap  *)
  leaked    (* history: identifiers on the interface whose removal failed    *)

poolVars == <<iface, used, timers, conn, ensured, index, leaked>>

NoConn == [pc |-> "idle", iid |-> Base]

PoolInit ==
  /\ iface = {} /\ used = {} /\ timers = {} /\ ensured = {}
  /\ conn = [c \in Proxies |-> NoConn]
  /\ index = "unknown" /\ leaked = {}

-----------------------------------------------------------------------------
(* What addAddr6 can succeed with: the kernel answers EEXIST otherwise.    *)
Addable(i) == i # Base /\ i \notin iface

(* Draws the retry loop throws away before it asks the kernel.             *)
Taken(i) == i \in Reserved \/ i \in used

LinkKnown == index' = IF index = "unknown" THEN "right" ELSE index

(* Mutant: the removal is armed when the address is handed out.            *)
AcquireArmed(c, i) ==
  /\ conn[c].pc = "idle" /\ index # "stale"
  /\ ~Taken(i) /\ Addable(i)
  /\ iface' = iface \cup {i} /\ used' = used \cup {i} /\ timers' = timers \cup {i}
  /\ conn' = [conn EXCEPT ![c] = [pc |-> "dial", iid |-> i]]
  /\ LinkKnown
  /\ UNCHANGED <<ensured, leaked>>

(* Acquire, under its mutex: a draw is neither taken nor refused.          *)
Acquire(c, i) ==
  /\ conn[c].pc = "idle" /\ index # "stale"
  /\ ~Taken(i) /\ Addable(i)
  /\ iface' = iface \cup {i} /\ used' = used \cup {i}
  /\ conn' = [conn EXCEPT ![c] = [pc |-> "dial", iid |-> i]]
  /\ LinkKnown
  /\ UNCHANGED <<timers, ensured, leaked>>

(* Acquire, all sixteen draws taken, already there or refused by netlink:  *)
(* the base address, which nft spreads over the pool.  With a stale index  *)
(* every draw is refused.                                                  *)
AcquireBase(c) ==
  /\ conn[c].pc = "idle"
  /\ \/ index = "stale" \/ "add" \in Faults
     \/ \E i \in Random : Taken(i) \/ ~Addable(i)
  /\ conn' = [conn EXCEPT ![c] = [pc |-> "dial", iid |-> Base]]
  /\ LinkKnown
  /\ UNCHANGED <<iface, used, timers, ensured, leaked>>

Dialed(c) ==
  /\ conn[c].pc = "dial"
  /\ conn' = [conn EXCEPT ![c].pc = "relay"]
  /\ UNCHANGED <<iface, used, timers, ensured, index, leaked>>

(* Mutant: a failed dial returns without the deferred Release.             *)
ReleaseRelayed(c) ==
  /\ conn[c].pc \in {"dial", "relay"}
  /\ timers' = IF conn[c].pc = "dial" THEN timers ELSE timers \cup ({conn[c].iid} \ {Base})
  /\ conn' = [conn EXCEPT ![c] = NoConn]
  /\ UNCHANGED <<iface, used, ensured, index, leaked>>

(* proxy returns, whether the dial failed or the relay ended: the deferred *)
(* Release arms a timer, except for the base address.                      *)
Release(c) ==
  /\ conn[c].pc \in {"dial", "relay"}
  /\ timers' = timers \cup ({conn[c].iid} \ {Base})
  /\ conn' = [conn EXCEPT ![c] = NoConn]
  /\ UNCHANGED <<iface, used, ensured, index, leaked>>

(* Mutant: a failed removal is tried again.                                *)
GraceEndsOnSuccess(i) ==
  /\ i \in timers /\ index # "stale"
  /\ iface' = iface \ {i}
  /\ timers' = timers \ {i}
  /\ used' = used \ {i}
  /\ UNCHANGED <<conn, ensured, index, leaked>>

(* The timer's function, under the mutex: the address is off the           *)
(* interface, or netlink failed, and free again in both cases.             *)
GraceEnds(i) ==
  /\ i \in timers
  /\ \E ok \in IF index = "stale" THEN {FALSE} ELSE IF "del" \in Faults THEN BOOLEAN ELSE {TRUE} :
       IF ok THEN iface' = iface \ {i} /\ UNCHANGED leaked
             ELSE leaked' = leaked \cup (iface \cap {i}) /\ UNCHANGED iface
  /\ timers' = timers \ {i}
  /\ used' = used \ {i}
  /\ UNCHANGED <<conn, ensured, index>>

-----------------------------------------------------------------------------
(* The neighbours.                                                         *)

(* A sticky connection: ensureAddr runs ip addr replace once per process.  *)
EnsureSticky(i) ==
  /\ i \in Sticky \ ensured
  /\ iface' = iface \cup {i} /\ ensured' = ensured \cup {i}
  /\ UNCHANGED <<used, timers, conn, index, leaked>>

(* Mutant: startup leaves the interface as it finds it.                    *)
RestartUnpruned ==
  /\ "crash" \in Faults
  /\ used' = {} /\ timers' = {} /\ ensured' = {}
  /\ conn' = [c \in Proxies |-> NoConn] /\ index' = "unknown" /\ leaked' = {}
  /\ UNCHANGED iface

(* The process dies and starts again: PruneStaleAddrs keeps only the       *)
(* addresses of accounts on record.                                        *)
Restart ==
  /\ "crash" \in Faults
  /\ iface' = iface \cap Sticky
  /\ used' = {} /\ timers' = {} /\ ensured' = {}
  /\ conn' = [c \in Proxies |-> NoConn] /\ index' = "unknown" /\ leaked' = {}

(* wg-quick down and up: other addresses than base are gone, and the       *)
(* interface has a new index the cache does not know.                      *)
Flap ==
  /\ "flap" \in Faults
  /\ iface' = {} /\ leaked' = {}
  /\ index' = IF index = "unknown" THEN "unknown" ELSE "stale"
  /\ UNCHANGED <<used, timers, conn, ensured>>

PoolNext ==
  \/ \E c \in Proxies, i \in Random : Acquire(c, i)
  \/ \E c \in Proxies : AcquireBase(c) \/ Dialed(c) \/ Release(c)
  \/ \E i \in timers : GraceEnds(i)
  \/ \E i \in Sticky : EnsureSticky(i)
  \/ Restart
  \/ Flap

PoolSpec == PoolInit /\ [][PoolNext]_poolVars

(* time.AfterFunc runs its function; connections need not end.             *)
PoolFairSpec == PoolSpec /\ \A i \in IIDs : WF_poolVars(GraceEnds(i))

-----------------------------------------------------------------------------
(* Properties.                                                             *)

Live(c) == conn[c].pc # "idle" /\ conn[c].iid # Base

(* The pool's sets hold identifiers, no reserved one; connections hold one *)
(* of them or the base.                                                    *)
PoolTypeOK ==
  /\ iface \subseteq IIDs
  /\ used \subseteq Random \ Reserved /\ timers \subseteq Random \ Reserved
  /\ ensured \subseteq Sticky /\ leaked \subseteq iface
  /\ conn \in [Proxies -> [pc : {"idle", "dial", "relay"}, iid : IIDs]]
  /\ index \in {"unknown", "right", "stale"}

(* Two live connections of the default account never leave through one     *)
(* random address, not even after netlink failures and interface restarts. *)
OwnAddress ==
  \A c, d \in Proxies : Live(c) /\ Live(d) /\ conn[c].iid = conn[d].iid => c = d

(* The identifiers marked in use are exactly those of live connections and *)
(* of closed ones in their grace period, never both: an address is handed  *)
(* out again only after the replies to its last connection had their time. *)
GraceKept ==
  /\ used = timers \cup {conn[c].iid : c \in {d \in Proxies : Live(d)}}
  /\ \A c \in Proxies : Live(c) => conn[c].iid \notin timers

(* As long as the interface stays, the addresses of the pool on it are     *)
(* those in use or in grace, and those netlink refused to remove: none     *)
(* leaks otherwise, from failed dials or from the process's earlier lives, *)
(* and none goes early.                                                    *)
NoLeak ==
  /\ index # "stale" => used \subseteq iface
  /\ iface \ Sticky \subseteq used \cup leaked

(* An address the pool hands out is never one of a sticky account.         *)
AvoidsSticky == \A c \in Proxies : Live(c) => conn[c].iid \notin Sticky

(* An address in its grace period is free again some day, or the process   *)
(* restarts, whatever netlink answers.                                     *)
GraceIsFinite == \A i \in IIDs : i \in timers ~> i \notin timers
=============================================================================
