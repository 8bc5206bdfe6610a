---------------------------- MODULE AccountStore ----------------------------
(***************************************************************************)
(* The sticky-account store of allocator.go: the map from a username to    *)
(* the /128 it leaves through, the per-tunnel counter the next address is  *)
(* taken from, and the file both are saved to.  Every method of Store runs *)
(* under one mutex, so each is one action; a method that saves may find    *)
(* the disk failing, and the process may die between any two of them.      *)
(*                                                                         *)
(* granted, issued are history variables: what the callers were promised.  *)
(***************************************************************************)
EXTENDS Integers, FiniteSets

CONSTANTS
  Users,     (* usernames, the keys of records                                 *)
  Tunnels,   (* tunnels callers may pass: [name, net, sticky], net is the /64  *)
  Seeds,     (* seed_accounts: function from usernames to their addresses           *)
  IIDCount,  (* number of interface identifiers, 2^64 in the code              *)
  IIDBound,  (* bound: how far an allocation may run from its start            *)
  NoRec,     (* no record under that username                                  *)
  NoAddr,    (* no address promised                                            *)
  OldFiles,  (* files an earlier run, or an earlier version, may have left     *)
  Faults     (* the environment faults a run allows; "save": the disk may fail *)

IIDs  == 0 .. (IIDCount - 1)
Nets  == {t.net : t \in Tunnels}
Names == {t.name : t \in Tunnels}
Addrs == [net : Nets, iid : IIDs]

(* last_used: 0 in a file of an older version, within the TTL, beyond it.  *)
Ages == {"unset", "recent", "old"}

Records == [tun : Names, addr : Addrs, used : Ages]
Stores  == [records : [Users -> Records \cup {NoRec}], next : [Names -> IIDs]]

ASSUME ConstantsAssumption ==
  /\ IIDCount \in Nat \ {0}
  /\ IIDBound \in Nat
  /\ \A t \in Tunnels : t.sticky \in IIDs
  /\ \A u \in DOMAIN Seeds : u \in Users /\ Seeds[u] \in Addrs

ASSUME SentinelsAssumption == NoRec \notin Records /\ NoAddr \notin Addrs

ASSUME OldFilesAssumption == OldFiles \subseteq Stores

VARIABLES
  mem,      (* the Store object: [records, next]                           *)
  file,     (* what state/accounts.json decodes to                         *)
  granted,  (* user -> the address Allocate last returned to it, while     *)
            (* nothing has removed the account since                       *)
  issued    (* every <<address, user>> ever returned by Allocate           *)

storeVars == <<mem, file, granted, issued>>

(* A missing file, or one that decodes to nothing: a counter missing from  *)
(* the Go map reads as 0.                                                  *)
EmptyStore == [records |-> [u \in Users |-> NoRec],
               next    |-> [n \in Names |-> 0]]

-----------------------------------------------------------------------------
(* What the methods compute on a store value.                              *)

Registered(s) == {u \in Users : s.records[u] # NoRec}
AddrsIn(s)    == {s.records[u].addr : u \in Registered(s)}
OfTunnel(s, n) == {u \in Registered(s) : s.records[u].tun = n}

Without(s, gone) ==
  [s EXCEPT !.records = [u \in Users |-> IF u \in gone THEN NoRec ELSE s.records[u]]]

WithRecord(s, u, n, a, next) ==
  [records |-> [s.records EXCEPT ![u] = [tun |-> n, addr |-> a, used |-> "recent"]],
   next    |-> [s.next EXCEPT ![n] = next]]

Touched(s, u) == [s EXCEPT !.records[u].used = "recent"]

(* LoadStore: a record without last_used counts as used now.               *)
Loaded(s) ==
  [s EXCEPT !.records =
     [u \in Users |-> IF s.records[u] # NoRec /\ s.records[u].used = "unset"
                      THEN [s.records[u] EXCEPT !.used = "recent"]
                      ELSE s.records[u]]]

(* uint64 arithmetic on interface identifiers.                             *)
Wrap(i) == i % IIDCount

(* Mutant: the counter is forgotten, every search starts at sticky_start.  *)
StartAtSticky(s, t) == t.sticky

Start(s, t) == IF s.next[t.name] < t.sticky THEN t.sticky ELSE s.next[t.name]

AddrAt(s, t, k) == [net |-> t.net, iid |-> Wrap(Start(s, t) + k)]

(* The loop of Allocate stops at the first address no record holds.        *)
StopsAt(s, t, k) ==
  /\ AddrAt(s, t, k) \notin AddrsIn(s)
  /\ \A j \in 0 .. (k - 1) : AddrAt(s, t, j) \in AddrsIn(s)

Allocated(s, t, u, k) ==
  WithRecord(s, u, t.name, AddrAt(s, t, k), Wrap(AddrAt(s, t, k).iid + 1))

(* Seed moves the counter past its own address when that lies in the       *)
(* sticky range.                                                           *)
NextAfterSeed(s, t, iid) ==
  IF iid >= t.sticky /\ iid >= s.next[t.name] THEN Wrap(iid + 1) ELSE s.next[t.name]

Seeded(s, t, u, a) == WithRecord(s, u, t.name, a, NextAfterSeed(s, t, a.iid))

(* Mutant: only the counter of the tunnel is dropped.                      *)
DroppedCounter(s, n) == [s EXCEPT !.next[n] = 0]

Dropped(s, n) == [Without(s, OfTunnel(s, n)) EXCEPT !.next[n] = 0]

Expired(s, protected) ==
  {u \in Registered(s) \ protected : s.records[u].used = "old"}

Aged(s) ==
  [s EXCEPT !.records =
     [u \in Users |-> IF s.records[u] # NoRec /\ s.records[u].used = "recent"
                      THEN [s.records[u] EXCEPT !.used = "old"]
                      ELSE s.records[u]]]

-----------------------------------------------------------------------------
(* saveLocked writes a temporary file and renames it: the file holds the   *)
(* whole old value or the whole new one, and memory keeps s either way.    *)
SaveOutcomes == IF "save" \in Faults THEN BOOLEAN ELSE {TRUE}

Save(s, ok) ==
  /\ ok \in SaveOutcomes
  /\ mem' = s
  /\ file' = IF ok THEN s ELSE file

Grant(u, a) ==
  /\ granted' = [granted EXCEPT ![u] = a]
  /\ issued' = issued \cup {<<a, u>>}

Revoke(gone) ==
  granted' = [u \in Users |-> IF u \in gone THEN NoAddr ELSE granted[u]]

StoreInit ==
  /\ file \in OldFiles
  /\ mem = Loaded(file)
  /\ granted = [u \in Users |-> NoAddr]
  /\ issued = {}

Seed(t, u, a, ok) ==
  /\ mem.records[u] = NoRec
  /\ Save(Seeded(mem, t, u, a), ok)
  /\ UNCHANGED <<granted, issued>>

(* Mutant: a use is not worth a save, the address on record is returned.   *)
AllocateKnownUnsaved(u, ok) ==
  /\ mem.records[u] # NoRec
  /\ ok /\ mem' = Touched(mem, u)
  /\ Grant(u, mem.records[u].addr)
  /\ UNCHANGED file

(* Allocate, an account already on record: last_used moves, the address    *)
(* does not; a failed save is reported and nothing is returned.            *)
AllocateKnown(u, ok) ==
  /\ mem.records[u] # NoRec
  /\ Save(Touched(mem, u), ok)
  /\ IF ok THEN Grant(u, mem.records[u].addr) ELSE UNCHANGED <<granted, issued>>

(* Mutant: the record found is not returned, a new address always is.      *)
AllocateNewAlways(t, u, k, ok) ==
  /\ Start(mem, t) + k <= IIDBound
  /\ StopsAt(mem, t, k)
  /\ Save(Allocated(mem, t, u, k), ok)
  /\ IF ok THEN Grant(u, AddrAt(mem, t, k)) ELSE UNCHANGED <<granted, issued>>

(* Allocate, a new account: k used addresses are skipped.                  *)
AllocateNew(t, u, k, ok) ==
  /\ mem.records[u] = NoRec
  /\ Start(mem, t) + k <= IIDBound
  /\ StopsAt(mem, t, k)
  /\ Save(Allocated(mem, t, u, k), ok)
  /\ IF ok THEN Grant(u, AddrAt(mem, t, k)) ELSE UNCHANGED <<granted, issued>>

Allocate(t, u, ok) ==
  \/ AllocateKnown(u, ok)
  \/ \E k \in 0 .. Cardinality(Users) : AllocateNew(t, u, k, ok)

(* ReapIdle saves only when it removed something, and ignores the outcome. *)
ReapIdle(protected, ok) ==
  LET gone == Expired(mem, protected) IN
    /\ IF gone = {} THEN UNCHANGED <<mem, file>> ELSE Save(Without(mem, gone), ok)
    /\ Revoke(gone)
    /\ UNCHANGED issued

Unregister(u, ok) ==
  /\ mem.records[u] # NoRec
  /\ Save(Without(mem, {u}), ok)
  /\ Revoke({u})
  /\ UNCHANGED issued

(* DropTunnel also forgets the tunnel's counter: its addresses are void.   *)
DropTunnel(n, ok) ==
  LET gone == OfTunnel(mem, n) IN
    /\ gone # {}
    /\ Save(Dropped(mem, n), ok)
    /\ Revoke(gone)
    /\ issued' = {p \in issued : p[1].net \notin {t.net : t \in {x \in Tunnels : x.name = n}}}

(* The process dies and LoadStore reads the file back.                     *)
Restart ==
  /\ mem' = Loaded(file)
  /\ UNCHANGED <<file, granted, issued>>

(* account_idle_ttl goes by without a use.                                 *)
TtlPasses ==
  /\ mem' = Aged(mem)
  /\ file' = Aged(file)
  /\ UNCHANGED <<granted, issued>>

StoreNext ==
  \/ \E u \in DOMAIN Seeds, t \in Tunnels, ok \in BOOLEAN :
        t.net = Seeds[u].net /\ Seed(t, u, Seeds[u], ok)
  \/ \E t \in Tunnels, u \in Users, ok \in BOOLEAN : Allocate(t, u, ok)
  \/ \E protected \in SUBSET Users, ok \in BOOLEAN : ReapIdle(protected, ok)
  \/ \E u \in Users, ok \in BOOLEAN : Unregister(u, ok)
  \/ \E n \in Names, ok \in BOOLEAN : DropTunnel(n, ok)
  \/ Restart
  \/ TtlPasses

StoreSpec == StoreInit /\ [][StoreNext]_storeVars

-----------------------------------------------------------------------------
(* Assumptions some properties need; a run or a theorem says which.        *)

(* No sticky address is ever a seed's: seeds lie below every sticky range  *)
(* of their /64, and no two seeds share an address.                        *)
StickyZone == {a \in Addrs : \E t \in Tunnels : t.net = a.net /\ a.iid >= t.sticky}

SeedsApart ==
  /\ \A u \in DOMAIN Seeds : Seeds[u] \notin StickyZone
  /\ \A u, v \in DOMAIN Seeds : Seeds[u] = Seeds[v] => u = v

(* The 2^64 identifiers do not run out: the counter never wraps.           *)
NoWrap == IIDBound + 1 < IIDCount

(* A record holds a sticky address or the address its seed was given.      *)
Placed(s) ==
  \A u \in Registered(s) :
     \/ s.records[u].addr \in StickyZone
     \/ u \in DOMAIN Seeds /\ s.records[u].addr = Seeds[u]

(* A record names the tunnel whose /64 its address lies in.                *)
Homed(s) ==
  \A u \in Registered(s) :
     \E t \in Tunnels : t.name = s.records[u].tun /\ t.net = s.records[u].addr.net

(* The counter of a tunnel is past every sticky address on record.         *)
Counted(s) ==
  \A u \in Registered(s), t \in Tunnels :
     s.records[u].addr \in StickyZone /\ t.net = s.records[u].addr.net
       => s.next[t.name] > s.records[u].addr.iid

(* Every /64 is routed to one tunnel.                                      *)
OneNetPerName == \A s, t \in Tunnels : s.net = t.net => s.name = t.name

-----------------------------------------------------------------------------
(* Properties.                                                             *)

(* The Store object, the file and the promises are well formed; a record   *)
(* in memory always carries a last_used, or it could never be reaped.      *)
StoreTypeOK ==
  /\ mem \in Stores
  /\ \A u \in Registered(mem) : mem.records[u].used # "unset"
  /\ file \in Stores
  /\ granted \in [Users -> Addrs \cup {NoAddr}]
  /\ issued \subseteq Addrs \X Users

NoShared(s) ==
  \A u, v \in Registered(s) : s.records[u].addr = s.records[v].addr => u = v

(* No address serves two accounts at once, in memory or after a restart    *)
(* (the used set of Allocate; the next pushed past a seed).                *)
AddrsUnique == NoShared(mem) /\ NoShared(file)

(* What Allocate answered is on disk, and in memory, until the account is  *)
(* removed: a crash or a failed save of a later call cannot lose it.       *)
GrantsDurable ==
  \A u \in Users : granted[u] # NoAddr =>
     \A s \in {mem, file} : s.records[u] # NoRec /\ s.records[u].addr = granted[u]

(* An account keeps its address: no step moves a live promise to another   *)
(* address, whatever failed or restarted between two connections.          *)
StickyForever ==
  [][\A u \in Users : granted[u] # NoAddr /\ granted'[u] # NoAddr
                          => granted'[u] = granted[u]]_storeVars

(* An address once answered to an account is never answered to another,    *)
(* not even after the first was reaped or unregistered and the process     *)
(* restarted: the counter only moves forward.                              *)
OneOwner == \A p, q \in issued : p[1] = q[1] => p[2] = q[2]
=============================================================================
