------------------------- MODULE StoreRivalsProofs -------------------------
(***************************************************************************)
(* What the store keeps next to its rivals, for every set of users,        *)
(* tunnels, configurations and old files, when the rivals are Quiet: one   *)
(* at a time, with no client connecting until the proxy has restarted.     *)
(***************************************************************************)
EXTENDS StoreRivals, AccountStoreProofs

(* A store read from the file is still what the file says when it is used: *)
(* this is what Quiet buys, and what the runs without it break.            *)
CopiesCurrent ==
  /\ del.pc = "drop" => del.copy = Loaded(file)
  /\ cli.pc = "save" => cli.copy = Loaded(file)

(* One rival at a time, and the configuration the proxy has is the one on  *)
(* disk unless a restart is due.                                           *)
OneRival ==
  /\ del.pc = "idle" \/ cli.pc = "idle"
  /\ ~pending /\ del.pc = "idle" => disk = conf
  /\ pending => del.pc = "idle"

(* The configuration without the tunnel n.                                 *)
Less(c, n) == [c EXCEPT !.tunnels = {x \in c.tunnels : x.name # n}]

(* While the accounts of the deleted tunnel are still in the file, the     *)
(* disk lacks that tunnel and is otherwise what the proxy was started on.  *)
Deleting ==
  del.pc \in {"load", "drop"} =>
    /\ del.name \in NamesIn(conf) \ {conf.default}
    /\ disk = Less(conf, del.name)

(* The configuration the accounts in the file belong to: until they are    *)
(* dropped, the one that still has the tunnel.                             *)
FileConf == IF del.pc \in {"load", "drop"} THEN conf ELSE disk

(* Every account is of a tunnel of c.                                      *)
Known(s, c) == \A u \in Registered(s) : s.records[u].tun \in NamesIn(c)

NoGhostOnDisk == "cut" \notin astray => Known(file, FileConf)

HomesKept == astray = {} => AtHome(mem, conf) /\ AtHome(file, FileConf)

RivalInv ==
  /\ TypeOK /\ CopiesCurrent /\ OneRival /\ Deleting
  /\ GrantsDurable
  /\ Settled => NoGhosts /\ NoGhostOnDisk /\ HomesKept /\ EgressInTunnel

-----------------------------------------------------------------------------
(* Configurations.                                                         *)

LEMMA TunnelOfName ==
  ASSUME NEW c, WellFormed(c), NEW n \in NamesIn(c)
  PROVE  /\ TunnelIn(c, n) \in c.tunnels /\ TunnelIn(c, n).name = n
         /\ \A t \in c.tunnels : t.name = n => TunnelIn(c, n) = t
  <1>1. PICK t \in c.tunnels : t.name = n
    BY DEF NamesIn
  <1>2. TunnelIn(c, n) \in c.tunnels /\ TunnelIn(c, n).name = n
    BY <1>1 DEF TunnelIn
  <1> QED BY <1>2 DEF WellFormed

(* The name of a user's home.                                              *)
HomeName(c, u) == IF Wanted[u] \in NamesIn(c) THEN Wanted[u] ELSE c.default

LEMMA HomeIsTunnel ==
  ASSUME NEW c, WellFormed(c), NEW u
  PROVE  /\ HomeName(c, u) \in NamesIn(c)
         /\ HomeIn(c, u) = TunnelIn(c, HomeName(c, u))
         /\ HomeIn(c, u) \in c.tunnels /\ HomeIn(c, u) \in Tunnels
         /\ HomeIn(c, u).name = HomeName(c, u)
  <1>1. HomeName(c, u) \in NamesIn(c) /\ HomeIn(c, u) = TunnelIn(c, HomeName(c, u))
    BY DEF HomeName, HomeIn, WellFormed
  <1> QED BY <1>1, TunnelOfName DEF WellFormed

LEMMA LessWellFormed ==
  ASSUME NEW c, WellFormed(c),
         NEW n \in NamesIn(c) \ {c.default}
  PROVE  /\ WellFormed(Less(c, n))
         /\ NamesIn(Less(c, n)) = NamesIn(c) \ {n}
  BY DEF Less, WellFormed, NamesIn

(* Only the accounts of the tunnel deleted have to move.                   *)
LEMMA LessHome ==
  ASSUME NEW c, WellFormed(c),
         NEW n \in NamesIn(c) \ {c.default},
         NEW u, HomeIn(c, u).name # n
  PROVE  HomeIn(Less(c, n), u) = HomeIn(c, u)
  <1> DEFINE d == Less(c, n)
  <1>1. WellFormed(d) /\ NamesIn(d) = NamesIn(c) \ {n} /\ d.default = c.default
    BY LessWellFormed DEF Less
  <1>2. HomeName(d, u) = HomeName(c, u)
    BY <1>1, HomeIsTunnel DEF HomeName
  <1>3. HomeIn(c, u) \in d.tunnels
    BY HomeIsTunnel DEF Less
  <1> HIDE DEF d
  <1>4. TunnelIn(d, HomeName(c, u)) = HomeIn(c, u)
    BY <1>1, <1>2, <1>3, HomeIsTunnel, TunnelOfName
  <1> QED BY <1>1, <1>2, <1>4, HomeIsTunnel DEF d

(* Another /64 for a tunnel the configuration has.                         *)
LEMMA ReplacedWellFormed ==
  ASSUME NEW c, WellFormed(c),
         NEW t \in Tunnels, t.name \in NamesIn(c)
  PROVE  LET d == [c EXCEPT !.tunnels = {x \in @ : x.name # t.name} \cup {t}] IN
         /\ WellFormed(d) /\ NamesIn(d) = NamesIn(c)
  BY DEF WellFormed, NamesIn

-----------------------------------------------------------------------------
(* Stores and the tunnels of their accounts.                               *)

(* r holds no account that s lacks, each with the tunnel and address it    *)
(* has in s.                                                               *)
Keeps(r, s) ==
  \A u \in Registered(r) :
     /\ u \in Registered(s)
     /\ r.records[u].tun = s.records[u].tun /\ r.records[u].addr = s.records[u].addr

LEMMA KeepsHome ==
  ASSUME NEW r, NEW s, Keeps(r, s), NEW c
  PROVE  /\ AtHome(s, c) => AtHome(r, c)
         /\ Known(s, c) => Known(r, c)
         /\ Within(r, s)
  BY DEF Keeps, AtHome, Known, Within

LEMMA LoadedKeeps ==
  ASSUME NEW s \in Stores
  PROVE  Keeps(Loaded(s), s)
  <1> DEFINE R(u) == IF s.records[u] # NoRec /\ s.records[u].used = "unset"
                     THEN [s.records[u] EXCEPT !.used = "recent"]
                     ELSE s.records[u]
  <1>1. \A u \in Users : s.records[u] \in Records \cup {NoRec}
    BY DEF Stores
  <1>2. \A u \in Users : R(u) # NoRec =>
          s.records[u] # NoRec /\ R(u).tun = s.records[u].tun /\ R(u).addr = s.records[u].addr
    BY <1>1 DEF Records
  <1>3. Loaded(s).records = [u \in Users |-> R(u)]
    BY DEF Loaded, Stores
  <1> HIDE DEF R
  <1> QED BY <1>2, <1>3 DEF Keeps, Registered

LEMMA TouchedKeeps ==
  ASSUME NEW s \in Stores, NEW u \in Users, s.records[u] # NoRec
  PROVE  Keeps(Touched(s, u), s)
  <1> DEFINE new == [s.records[u] EXCEPT !.used = "recent"]
  <1>1. new.tun = s.records[u].tun /\ new.addr = s.records[u].addr
    BY DEF Stores, Records
  <1>2. Touched(s, u) = [s EXCEPT !.records = [s.records EXCEPT ![u] = new]]
    BY DEF Touched, Stores
  <1> HIDE DEF new
  <1>3. Touched(s, u).records = [s.records EXCEPT ![u] = new]
    BY <1>2 DEF Stores
  <1> QED BY <1>1, <1>3 DEF Keeps, Registered, Stores

LEMMA WithoutKeeps ==
  ASSUME NEW s \in Stores, NEW gone
  PROVE  Keeps(Without(s, gone), s)
  BY DEF Keeps, Without, Stores, Registered

LEMMA DroppedKeeps ==
  ASSUME NEW s \in Stores, NEW n \in Names
  PROVE  /\ Keeps(Dropped(s, n), s)
         /\ \A u \in Registered(Dropped(s, n)) : s.records[u].tun # n
  <1>1. Dropped(s, n).records = Without(s, OfTunnel(s, n)).records
    BY DEF Dropped, Without, Stores
  <1>2. Keeps(Without(s, OfTunnel(s, n)), s)
    BY WithoutKeeps
  <1>3. \A u \in Registered(Without(s, OfTunnel(s, n))) : s.records[u].tun # n
    BY DEF Without, Stores, Registered, OfTunnel
  <1> QED BY <1>1, <1>2, <1>3 DEF Keeps, Registered

(* Once the accounts of a deleted tunnel are gone, the rest are at home in *)
(* what is left of the configuration.                                      *)
LEMMA DroppedHome ==
  ASSUME NEW c, WellFormed(c),
         NEW n \in NamesIn(c) \ {c.default},
         NEW s, NEW r, Keeps(r, s), \A u \in Registered(r) : s.records[u].tun # n
  PROVE  /\ AtHome(s, c) => AtHome(r, Less(c, n))
         /\ Known(s, c) => Known(r, Less(c, n))
  <1>1. ASSUME AtHome(s, c), NEW u \in Registered(r)
        PROVE  r.records[u].tun = HomeIn(Less(c, n), u).name
               /\ r.records[u].addr.net = HomeIn(Less(c, n), u).net
    <2>1. /\ r.records[u].tun = HomeIn(c, u).name
          /\ r.records[u].addr.net = HomeIn(c, u).net
          /\ HomeIn(c, u).name # n
      BY <1>1 DEF Keeps, AtHome
    <2> QED BY <2>1, LessHome
  <1>2. ASSUME Known(s, c), NEW u \in Registered(r)
        PROVE  r.records[u].tun \in NamesIn(Less(c, n))
    BY <1>2, LessWellFormed DEF Keeps, Known
  <1> QED BY <1>1, <1>2 DEF AtHome, Known

-----------------------------------------------------------------------------
(* The inductive invariant.                                                *)

LEMMA EmptyIsStore == EmptyStore \in Stores /\ Resting.copy \in Stores /\ NoCli.copy \in Stores
  BY ConstantsAssumption DEF EmptyStore, Stores, IIDs, Resting, NoCli

LEMMA RivalInit == Init => RivalInv
  <1> SUFFICES ASSUME Init PROVE RivalInv
    OBVIOUS
  <1>1. StoreTypeOK /\ GrantsDurable
    BY TypeInit, DurableInit DEF Init
  <1>2. WellFormed(disk) /\ conf = disk /\ file \in Stores
        /\ (Settled => AtHome(file, disk))
    BY ConfigsAssumption, OldFilesAssumption DEF Init, StoreInit, Settled
  <1>3. del.pc = "idle" /\ cli.pc = "idle" /\ ~pending /\ last = NoRec /\ astray = {}
    BY DEF Init, Resting, NoCli
  <1>4. TypeOK
    BY <1>1, <1>2, EmptyIsStore DEF Init, Resting, NoCli, TypeOK
  <1>5. Settled => AtHome(mem, disk)
    BY <1>2, LoadedKeeps, KeepsHome DEF Init, StoreInit
  <1>6. Settled => Known(file, disk) /\ Known(mem, disk)
    BY <1>2, <1>5, HomeIsTunnel DEF AtHome, Known
  <1> QED
    BY <1>1, <1>2, <1>3, <1>4, <1>5, <1>6
       DEF RivalInv, CopiesCurrent, OneRival, Deleting, NoGhosts, NoGhostOnDisk, HomesKept,
           FileConf, EgressInTunnel, EgressAlways, Known

(* What Allocate leaves for an account dialled at home.                    *)
LEMMA AllocateHome ==
  ASSUME StoreTypeOK, WellFormed(conf), NEW u \in Users, NEW ok \in BOOLEAN,
         Allocate(HomeIn(conf, u), u, ok)
  PROVE  /\ AtHome(mem, conf) => AtHome(mem', conf)
         /\ Known(mem, conf) => Known(mem', conf)
         /\ u \in Registered(mem') /\ file' \in {mem', file}
  <1> DEFINE t == HomeIn(conf, u)
  <1>0. t \in Tunnels /\ t.name \in NamesIn(conf) /\ mem \in Stores
    BY HomeIsTunnel DEF StoreTypeOK
  <1>1. CASE AllocateKnown(u, ok)
    <2>1. mem.records[u] # NoRec /\ mem' = Touched(mem, u) /\ file' \in {mem', file}
      BY <1>1 DEF AllocateKnown, Save
    <2>2. Keeps(mem', mem)
      BY <1>0, <2>1, TouchedKeeps
    <2>3. u \in Registered(mem')
      BY <1>0, <2>1, TouchedType DEF Within, Registered
    <2> QED BY <2>1, <2>2, <2>3, KeepsHome
  <1>2. CASE \E k \in Nat : AllocateNew(t, u, k, ok)
    <2>1. PICK k \in Nat : AllocateNew(t, u, k, ok)
      BY <1>2
    <2> DEFINE a == AddrAt(mem, t, k)
    <2>2. /\ mem' = WithRecord(mem, u, t.name, a, Wrap(a.iid + 1))
          /\ file' \in {mem', file}
      BY <2>1 DEF AllocateNew, Allocated, Save
    <2>3. a \in Addrs /\ Wrap(a.iid + 1) \in IIDs /\ t.name \in Names /\ a.net = t.net
      <3>1. a \in Addrs
        BY <1>0, AddrAtType
      <3>2. a.iid + 1 \in Nat
        BY <3>1 DEF Addrs, IIDs
      <3> QED BY <1>0, <3>1, <3>2, WrapType DEF Names, AddrAt
    <2> HIDE DEF a, t
    <2>4. /\ mem'.records[u] = [tun |-> t.name, addr |-> a, used |-> "recent"]
          /\ Registered(mem') = Registered(mem) \cup {u}
          /\ \A v \in Users \ {u} : mem'.records[v] = mem.records[v]
      BY <1>0, <2>2, <2>3, WithRecordType
    <2>5. \A v \in Registered(mem') : v # u => v \in Registered(mem) /\ mem'.records[v] = mem.records[v]
      BY <2>4 DEF Registered
    <2> QED BY <1>0, <2>2, <2>3, <2>4, <2>5 DEF AtHome, Known, t
  <1> QED BY <1>1, <1>2 DEF Allocate

LEMMA ConnectStep ==
  ASSUME Quiet, RivalInv, NEW u \in Users, Connect(u)
  PROVE  RivalInv' /\ SameOrFresh
  <1> USE DEF RivalInv
  <1>1. del.pc = "idle" /\ cli.pc = "idle" /\ ~pending /\ disk = conf
    BY DEF Connect, OneRival
  <1>2. PICK ok \in SaveOutcomes :
          /\ Allocate(HomeIn(conf, u), u, ok)
          /\ last' = IF ok THEN [tun |-> HomeIn(conf, u), addr |-> mem'.records[u].addr] ELSE last
    BY DEF Connect
  <1>3. ok \in BOOLEAN
    BY DEF SaveOutcomes
  <1>4. StoreTypeOK /\ WellFormed(conf)
    BY DEF TypeOK
  <1>5. StoreNext
    BY <1>2, <1>3, <1>4, HomeIsTunnel DEF StoreNext
  <1>6. StoreTypeOK' /\ GrantsDurable' /\ SameOrFresh
    BY <1>4, <1>5, TypeStep, DurableStep
  <1>7. UNCHANGED <<disk, conf, pending, del, cli, astray>>
    BY DEF Connect
  <1>8. /\ AtHome(mem, conf) => AtHome(mem', conf)
        /\ Known(mem, conf) => Known(mem', conf)
        /\ u \in Registered(mem') /\ file' \in {mem', file}
    BY <1>2, <1>3, <1>4, AllocateHome
  <1>9. FileConf = conf /\ FileConf' = conf
    BY <1>1, <1>7 DEF FileConf
  <1>10. TypeOK' /\ CopiesCurrent' /\ OneRival' /\ Deleting'
    BY <1>1, <1>6, <1>7 DEF TypeOK, CopiesCurrent, OneRival, Deleting
  <1>11. Settled => NoGhosts' /\ NoGhostOnDisk'
    BY <1>7, <1>8, <1>9 DEF NoGhosts, NoGhostOnDisk, Known
  <1>12. Settled => HomesKept'
    BY <1>7, <1>8, <1>9 DEF HomesKept
  <1>13. Settled => EgressInTunnel'
    <2>1. ASSUME Settled, astray = {}, ok
          PROVE  last'.addr.net = last'.tun.net
      BY <1>2, <1>7, <1>8, <2>1 DEF HomesKept, AtHome
    <2> QED BY <1>2, <1>7, <2>1 DEF EgressInTunnel, EgressAlways
  <1> QED BY <1>6, <1>10, <1>11, <1>12, <1>13
(* The proxy starts again: what it then has is what the file says, and     *)
(* unless a deletion was cut the file is of the configuration on disk.     *)
LEMMA ReloadStep ==
  ASSUME RivalInv, Reload, TypeOK', del'.pc = "idle", astray \subseteq astray',
         del.pc \in {"load", "drop"} => "cut" \in astray'
  PROVE  RivalInv' /\ SameOrFresh
  <1> USE DEF RivalInv
  <1>1. /\ conf' = disk /\ disk' = disk /\ ~pending' /\ last' = NoRec /\ cli' = cli
        /\ file' = file /\ mem' = Loaded(file)
    BY DEF Reload, Restart
  <1>2. GrantsDurable' /\ SameOrFresh
    <2>1. StoreNext
      BY DEF Reload, StoreNext
    <2> QED BY <2>1, DurableStep DEF TypeOK
  <1>3. CopiesCurrent' /\ OneRival' /\ Deleting'
    BY <1>1 DEF CopiesCurrent, OneRival, Deleting
  <1>4. FileConf' = disk
    BY <1>1 DEF FileConf
  <1>5. Keeps(mem', file)
    BY <1>1, LoadedKeeps DEF TypeOK, StoreTypeOK
  <1>6. Settled => NoGhosts' /\ NoGhostOnDisk'
    <2>1. ASSUME Settled, "cut" \notin astray' PROVE Known(file, disk) /\ Known(mem', disk)
      <3>1. Known(file, disk)
        BY <2>1 DEF NoGhostOnDisk, FileConf
      <3> QED BY <1>5, <3>1, KeepsHome
    <2> QED BY <1>1, <1>4, <2>1 DEF NoGhosts, NoGhostOnDisk, Known
  <1>7. Settled => HomesKept'
    <2>1. ASSUME Settled, astray' = {} PROVE AtHome(file, disk) /\ AtHome(mem', disk)
      <3>1. AtHome(file, disk)
        BY <2>1 DEF HomesKept, FileConf
      <3> QED BY <1>5, <3>1, KeepsHome
    <2> QED BY <1>1, <1>4, <2>1 DEF HomesKept
  <1>8. Settled => EgressInTunnel'
    BY <1>1 DEF EgressInTunnel, EgressAlways
  <1> QED BY <1>2, <1>3, <1>6, <1>7, <1>8

LEMMA RestartStep ==
  ASSUME RivalInv, RestartProxy
  PROVE  RivalInv' /\ SameOrFresh
  <1>1. Reload /\ del.pc = "idle" /\ UNCHANGED <<del, astray>>
    BY DEF RestartProxy
  <1>2. StoreTypeOK'
    <2>1. StoreNext
      BY <1>1 DEF Reload, StoreNext
    <2> QED BY <2>1, TypeStep DEF RivalInv, TypeOK
  <1>3. TypeOK'
    BY <1>1, <1>2 DEF RivalInv, TypeOK, Reload
  <1> QED BY <1>1, <1>3, ReloadStep

LEMMA CrashStep ==
  ASSUME RivalInv, Crash
  PROVE  RivalInv' /\ SameOrFresh
  <1>1. Reload /\ del' = Resting
        /\ astray' = IF del.pc \in {"load", "drop"} THEN astray \cup {"cut"} ELSE astray
    BY DEF Crash
  <1>2. StoreTypeOK'
    <2>1. StoreNext
      BY <1>1 DEF Reload, StoreNext
    <2> QED BY <2>1, TypeStep DEF RivalInv, TypeOK
  <1>3. TypeOK' /\ del'.pc = "idle"
    BY <1>1, <1>2, EmptyIsStore DEF RivalInv, TypeOK, Reload, Resting
  <1> QED BY <1>1, <1>3, ReloadStep

(* The operator's steps that leave the store alone.                        *)
LEMMA MovedStep ==
  ASSUME RivalInv, AdminFree, WellFormed(disk'), NamesIn(disk') = NamesIn(disk),
         pending' = TRUE, astray' = astray \cup {"moved"},
         UNCHANGED <<storeVars, conf, del, cli, last>>
  PROVE  RivalInv' /\ SameOrFresh
  <1> USE DEF RivalInv
  <1>1. UNCHANGED <<mem, file, granted, issued>> /\ del.pc = "idle" /\ disk = conf
    BY DEF storeVars, AdminFree, OneRival
  <1>2. TypeOK' /\ CopiesCurrent' /\ OneRival' /\ Deleting'
    BY <1>1 DEF TypeOK, StoreTypeOK, CopiesCurrent, OneRival, Deleting, Registered
  <1>3. GrantsDurable' /\ SameOrFresh
    BY <1>1 DEF GrantsDurable, SameOrFresh
  <1>4. Settled => NoGhosts' /\ NoGhostOnDisk'
    BY <1>1 DEF NoGhosts, NoGhostOnDisk, Known, FileConf, Registered
  <1>5. Settled => HomesKept' /\ EgressInTunnel'
    BY DEF HomesKept, EgressInTunnel
  <1> QED BY <1>2, <1>3, <1>4, <1>5

LEMMA PutSocksStep ==
  ASSUME RivalInv, NEW n \in Names, PutSocks(n)
  PROVE  RivalInv' /\ SameOrFresh
  <1>1. disk = conf /\ WellFormed(disk) /\ n \in NamesIn(disk) /\ AdminFree
    BY DEF PutSocks, AdminFree, RivalInv, OneRival, TypeOK
  <1>2. WellFormed([disk EXCEPT !.default = n])
        /\ NamesIn([disk EXCEPT !.default = n]) = NamesIn(disk)
    BY <1>1 DEF WellFormed, NamesIn
  <1> QED BY <1>1, <1>2, MovedStep DEF PutSocks

LEMMA PutTunnelStep ==
  ASSUME RivalInv, NEW t \in Tunnels, PutTunnel(t)
  PROVE  RivalInv' /\ SameOrFresh
  <1>1. disk = conf /\ WellFormed(disk) /\ t.name \in NamesIn(disk) /\ AdminFree
    BY DEF PutTunnel, AdminFree, RivalInv, OneRival, TypeOK
  <1>2. WellFormed(disk') /\ NamesIn(disk') = NamesIn(disk)
    BY <1>1, ReplacedWellFormed DEF PutTunnel
  <1> QED BY <1>1, <1>2, MovedStep DEF PutTunnel

LEMMA DelTunnelStep ==
  ASSUME Quiet, RivalInv, NEW n \in Names, DelTunnel(n)
  PROVE  RivalInv' /\ SameOrFresh
  <1> USE DEF RivalInv
  <1>1. /\ UNCHANGED <<mem, file, granted, issued>>
        /\ UNCHANGED <<conf, pending, cli, last, astray>>
    BY DEF DelTunnel, storeVars
  <1>2. /\ del.pc = "idle" /\ cli.pc = "idle" /\ ~pending /\ disk = conf
        /\ n \in NamesIn(conf) \ {conf.default}
    BY DEF DelTunnel, AdminFree, OneRival
  <1>3. del' = [del EXCEPT !.pc = "load", !.name = n] /\ disk' = Less(conf, n)
    BY <1>2 DEF DelTunnel, Less
  <1>4. /\ del' \in [pc : {"idle", "load", "drop", "strip"}, name : Names \cup {NoTunnel},
                     copy : Stores]
        /\ del'.pc = "load" /\ del'.name = n
    BY <1>3 DEF TypeOK
  <1>5. WellFormed(disk')
    BY <1>2, <1>3, LessWellFormed DEF TypeOK
  <1>6. TypeOK' /\ CopiesCurrent' /\ OneRival' /\ Deleting'
    BY <1>1, <1>2, <1>3, <1>4, <1>5
       DEF TypeOK, StoreTypeOK, CopiesCurrent, OneRival, Deleting, Registered
  <1>7. GrantsDurable' /\ SameOrFresh
    BY <1>1 DEF GrantsDurable, SameOrFresh
  <1>8. FileConf' = conf /\ FileConf = conf
    BY <1>1, <1>2, <1>4 DEF FileConf
  <1>9. Settled => NoGhosts' /\ NoGhostOnDisk' /\ HomesKept' /\ EgressInTunnel'
    BY <1>1, <1>8 DEF NoGhosts, NoGhostOnDisk, HomesKept, EgressInTunnel, EgressAlways,
                      Known, AtHome, Registered
  <1> QED BY <1>6, <1>7, <1>9

LEMMA DelLoadStep ==
  ASSUME RivalInv, DelLoad
  PROVE  RivalInv' /\ SameOrFresh
  <1> USE DEF RivalInv
  <1>1. /\ UNCHANGED <<mem, file, granted, issued>>
        /\ UNCHANGED <<disk, conf, pending, cli, last, astray>>
    BY DEF DelLoad, storeVars
  <1>2. del.pc = "load" /\ del' = [del EXCEPT !.pc = "drop", !.copy = Loaded(file)]
    BY DEF DelLoad
  <1>3. Loaded(file) \in Stores
    BY LoadedType DEF TypeOK, StoreTypeOK
  <1>4. /\ del' \in [pc : {"idle", "load", "drop", "strip"}, name : Names \cup {NoTunnel},
                     copy : Stores]
        /\ del'.pc = "drop" /\ del'.name = del.name /\ del'.copy = Loaded(file)
    BY <1>2, <1>3 DEF TypeOK
  <1>5. TypeOK' /\ CopiesCurrent' /\ OneRival' /\ Deleting'
    BY <1>1, <1>2, <1>4
       DEF TypeOK, StoreTypeOK, CopiesCurrent, OneRival, Deleting, Registered
  <1>6. GrantsDurable' /\ SameOrFresh
    BY <1>1 DEF GrantsDurable, SameOrFresh
  <1>7. FileConf' = conf /\ FileConf = conf
    BY <1>1, <1>2, <1>4 DEF FileConf
  <1>8. Settled => NoGhosts' /\ NoGhostOnDisk' /\ HomesKept' /\ EgressInTunnel'
    BY <1>1, <1>7 DEF NoGhosts, NoGhostOnDisk, HomesKept, EgressInTunnel, EgressAlways,
                      Known, AtHome, Registered
  <1> QED BY <1>5, <1>6, <1>8
(* A rival saves what it read minus some accounts, or fails to save: the   *)
(* promises left are those of accounts it did not remove.                  *)
LEMMA RivalSaved ==
  ASSUME StoreTypeOK, GrantsDurable, NEW gone, NEW ok \in BOOLEAN, Revoke(gone),
         NEW s \in Stores, Honors(Without(Loaded(file), gone), granted') => Honors(s, granted'),
         file' = (IF ok THEN s ELSE file), UNCHANGED <<mem, issued>>
  PROVE  StoreTypeOK' /\ GrantsDurable' /\ SameOrFresh
  <1>1. /\ mem \in Stores /\ file \in Stores /\ Loaded(file) \in Stores
        /\ granted \in [Users -> Addrs \cup {NoAddr}]
        /\ Honors(mem, granted) /\ Honors(file, granted)
    BY LoadedType, DurableIsHonored DEF StoreTypeOK
  <1>2. Honors(Loaded(file), granted)
    BY <1>1, LoadedType, HonorsWithin
  <1>3. granted' = [u \in Users |-> IF u \in gone THEN NoAddr ELSE granted[u]]
    BY DEF Revoke
  <1>4. /\ Honors(Without(Loaded(file), gone), granted')
        /\ Honors(mem, granted') /\ Honors(file, granted')
    BY <1>1, <1>2, <1>3, HonorsWithout
  <1>5. StoreTypeOK'
    BY <1>1, RevokeType DEF StoreTypeOK, Registered
  <1>6. GrantsDurable'
    BY <1>4 DEF GrantsDurable, Honors
  <1>7. SameOrFresh
    BY <1>1, <1>3 DEF SameOrFresh
  <1> QED BY <1>5, <1>6, <1>7

LEMMA DelDropStep ==
  ASSUME RivalInv, DelDrop
  PROVE  RivalInv' /\ SameOrFresh
  <1> USE DEF RivalInv
  <1> DEFINE n == del.name
             gone == OfTunnel(del.copy, n)
             dropped == Dropped(del.copy, n)
  <1>1. /\ UNCHANGED <<mem, issued, disk, conf, pending, cli, last>>
        /\ del.pc = "drop" /\ del' = [del EXCEPT !.pc = "strip"] /\ Revoke(gone)
    BY DEF DelDrop
  <1>2. PICK ok \in SaveOutcomes :
          /\ file' = IF gone # {} /\ ok THEN dropped ELSE file
          /\ astray' = IF ok THEN astray ELSE astray \cup {"cut"}
    BY DEF DelDrop
  <1>3. /\ del.copy = Loaded(file) /\ Loaded(file) \in Stores /\ file \in Stores /\ n \in Names
        /\ n \in NamesIn(conf) \ {conf.default} /\ disk = Less(conf, n) /\ WellFormed(conf)
        /\ ~pending /\ cli.pc = "idle"
    <2>1. n \in NamesIn(conf) \ {conf.default} /\ disk = Less(conf, n) /\ WellFormed(conf)
      BY <1>1 DEF Deleting, TypeOK
    <2>2. n \in Names
      BY <2>1 DEF NamesIn, WellFormed, Names
    <2> QED BY <1>1, <2>1, <2>2, LoadedType DEF CopiesCurrent, OneRival, TypeOK, StoreTypeOK
  <1>4. /\ del' \in [pc : {"idle", "load", "drop", "strip"}, name : Names \cup {NoTunnel},
                     copy : Stores]
        /\ del'.pc = "strip"
    BY <1>1 DEF TypeOK
  <1>5. StoreTypeOK' /\ GrantsDurable' /\ SameOrFresh
    <2>1. dropped \in Stores
      BY <1>3, DroppedType
    <2>2. Honors(Without(Loaded(file), gone), granted') => Honors(dropped, granted')
      BY <1>3, HonorsDropped
    <2>3. file' = (IF (gone # {} /\ ok) THEN dropped ELSE file) /\ (gone # {} /\ ok) \in BOOLEAN
      BY <1>2
    <2> HIDE DEF gone, dropped
    <2> QED BY <1>1, <2>1, <2>2, <2>3, RivalSaved DEF TypeOK
  <1>6. TypeOK' /\ CopiesCurrent' /\ OneRival' /\ Deleting'
    BY <1>1, <1>3, <1>4, <1>5 DEF TypeOK, CopiesCurrent, OneRival, Deleting
  <1>7. FileConf' = disk /\ FileConf = conf
    BY <1>1, <1>4 DEF FileConf
  <1>8. ok => Keeps(file', file) /\ \A u \in Registered(file') : file.records[u].tun # n
    <2>1. CASE gone # {} /\ ok
      <3>1. Keeps(dropped, Loaded(file))
            /\ \A u \in Registered(dropped) : Loaded(file).records[u].tun # n
        BY <1>3, DroppedKeeps
      <3>2. Keeps(Loaded(file), file)
        BY <1>3, LoadedKeeps
      <3> HIDE DEF dropped
      <3> QED BY <1>2, <2>1, <3>1, <3>2 DEF Keeps
    <2>2. CASE gone = {}
      <3>1. file' = file
        BY <1>2, <2>2
      <3>2. \A u \in Registered(Loaded(file)) : Loaded(file).records[u].tun # n
        BY <1>3, <2>2 DEF OfTunnel
      <3>3. \A u \in Registered(file) :
              u \in Registered(Loaded(file)) /\ Loaded(file).records[u].tun = file.records[u].tun
        BY <1>3, LoadedType, LoadedKeeps DEF Keeps, Within
      <3> QED BY <3>1, <3>2, <3>3 DEF Keeps
    <2> QED BY <2>1, <2>2
  <1>9. Settled => NoGhosts' /\ NoGhostOnDisk'
    <2>1. ASSUME Settled, "cut" \notin astray' PROVE Known(file, conf) /\ ok /\ "cut" \notin astray
      BY <1>2, <1>7, <2>1 DEF NoGhostOnDisk
    <2>2. Settled /\ "cut" \notin astray' => Known(file', disk)
      BY <1>3, <1>8, <2>1, DroppedHome
    <2> QED BY <1>1, <1>7, <2>1, <2>2 DEF NoGhosts, NoGhostOnDisk, Known, Registered
  <1>10. Settled => HomesKept'
    <2>1. ASSUME Settled, astray' = {} PROVE AtHome(file, conf) /\ ok /\ astray = {}
      BY <1>2, <1>7, <2>1 DEF HomesKept
    <2>2. Settled /\ astray' = {} => AtHome(file', disk)
      BY <1>3, <1>8, <2>1, DroppedHome
    <2> QED BY <1>1, <1>7, <2>1, <2>2 DEF HomesKept, AtHome, Registered
  <1>11. Settled => EgressInTunnel'
    BY <1>1, <1>2 DEF EgressInTunnel, EgressAlways
  <1> QED BY <1>5, <1>6, <1>9, <1>10, <1>11

LEMMA DelDoneStep ==
  ASSUME RivalInv, DelDone
  PROVE  RivalInv' /\ SameOrFresh
  <1> USE DEF RivalInv
  <1>1. /\ UNCHANGED <<mem, file, granted, issued>>
        /\ UNCHANGED <<disk, conf, cli, last, astray>>
        /\ del.pc = "strip" /\ del' = Resting /\ pending' = TRUE
    BY DEF DelDone, storeVars
  <1>2. TypeOK' /\ CopiesCurrent' /\ OneRival' /\ Deleting'
    BY <1>1, EmptyIsStore
       DEF TypeOK, StoreTypeOK, CopiesCurrent, OneRival, Deleting, Registered, Resting
  <1>3. GrantsDurable' /\ SameOrFresh
    BY <1>1 DEF GrantsDurable, SameOrFresh
  <1>4. FileConf' = disk /\ FileConf = disk
    BY <1>1 DEF FileConf, Resting
  <1>5. Settled => NoGhosts' /\ NoGhostOnDisk' /\ HomesKept' /\ EgressInTunnel'
    BY <1>1, <1>4 DEF NoGhosts, NoGhostOnDisk, HomesKept, EgressInTunnel, EgressAlways,
                      Known, AtHome, Registered
  <1> QED BY <1>2, <1>3, <1>5

LEMMA CliLoadStep ==
  ASSUME Quiet, RivalInv, NEW u \in Users, CliLoad(u)
  PROVE  RivalInv' /\ SameOrFresh
  <1> USE DEF RivalInv
  <1>1. /\ UNCHANGED <<mem, file, granted, issued>>
        /\ UNCHANGED <<disk, conf, pending, del, last, astray>>
        /\ cli' = [pc |-> "save", user |-> u, copy |-> Loaded(file)]
        /\ del.pc = "idle"
    BY DEF CliLoad, storeVars
  <1>2. Loaded(file) \in Stores
    BY LoadedType DEF TypeOK, StoreTypeOK
  <1>3. TypeOK' /\ CopiesCurrent' /\ OneRival' /\ Deleting'
    BY <1>1, <1>2 DEF TypeOK, StoreTypeOK, CopiesCurrent, OneRival, Deleting, Registered
  <1>4. GrantsDurable' /\ SameOrFresh
    BY <1>1 DEF GrantsDurable, SameOrFresh
  <1>5. Settled => NoGhosts' /\ NoGhostOnDisk' /\ HomesKept' /\ EgressInTunnel'
    BY <1>1 DEF NoGhosts, NoGhostOnDisk, HomesKept, EgressInTunnel, EgressAlways,
                FileConf, Known, AtHome, Registered
  <1> QED BY <1>3, <1>4, <1>5

LEMMA CliSaveStep ==
  ASSUME RivalInv, CliSave
  PROVE  RivalInv' /\ SameOrFresh
  <1> USE DEF RivalInv
  <1> DEFINE saved == Without(cli.copy, {cli.user})
  <1>1. /\ UNCHANGED <<mem, issued, disk, conf, pending, del, last, astray>>
        /\ cli.pc = "save" /\ cli' = NoCli /\ Revoke({cli.user})
    BY DEF CliSave
  <1>2. PICK ok \in SaveOutcomes : file' = IF ok THEN saved ELSE file
    BY DEF CliSave
  <1>3. cli.copy = Loaded(file) /\ Loaded(file) \in Stores /\ file \in Stores /\ del.pc = "idle"
    BY <1>1, LoadedType DEF CopiesCurrent, OneRival, TypeOK, StoreTypeOK
  <1>4. saved \in Stores /\ Keeps(saved, file)
    <2>1. saved \in Stores /\ Keeps(saved, Loaded(file))
      BY <1>3, WithoutType, WithoutKeeps
    <2>2. Keeps(Loaded(file), file)
      BY <1>3, LoadedKeeps
    <2> HIDE DEF saved
    <2> QED BY <2>1, <2>2 DEF Keeps
  <1>5. StoreTypeOK' /\ GrantsDurable' /\ SameOrFresh
    <2>1. Honors(Without(Loaded(file), {cli.user}), granted') => Honors(saved, granted')
      BY <1>3
    <2>2. ok \in BOOLEAN
      BY DEF SaveOutcomes
    <2> HIDE DEF saved
    <2> QED BY <1>1, <1>2, <1>4, <2>1, <2>2, RivalSaved DEF TypeOK
  <1> HIDE DEF saved
  <1>6. TypeOK' /\ CopiesCurrent' /\ OneRival' /\ Deleting'
    BY <1>1, <1>3, <1>5, EmptyIsStore
       DEF TypeOK, CopiesCurrent, OneRival, Deleting, NoCli
  <1>7. FileConf' = disk /\ FileConf = disk
    BY <1>1, <1>3 DEF FileConf
  <1>8. /\ AtHome(file, disk) => AtHome(file', disk)
        /\ Known(file, disk) => Known(file', disk)
    BY <1>2, <1>4, KeepsHome
  <1>9. Settled => NoGhosts' /\ NoGhostOnDisk' /\ HomesKept' /\ EgressInTunnel'
    BY <1>1, <1>7, <1>8 DEF NoGhosts, NoGhostOnDisk, HomesKept, EgressInTunnel, EgressAlways,
                            Known, AtHome, Registered
  <1> QED BY <1>5, <1>6, <1>9

LEMMA StutterStep ==
  ASSUME RivalInv, UNCHANGED vars
  PROVE  RivalInv' /\ SameOrFresh
  <1>1. /\ UNCHANGED <<mem, file, granted, issued>>
        /\ UNCHANGED <<disk, conf, pending, del, cli, last, astray>>
    BY DEF vars, storeVars, rivalVars
  <1> QED BY <1>1 DEF RivalInv, TypeOK, StoreTypeOK, CopiesCurrent, OneRival, Deleting,
                      GrantsDurable, SameOrFresh, NoGhosts, NoGhostOnDisk, HomesKept, FileConf,
                      EgressInTunnel, EgressAlways, Known, AtHome, Registered

LEMMA RivalStep ==
  ASSUME Quiet, RivalInv, [Next]_vars
  PROVE  RivalInv' /\ SameOrFresh
  BY ConnectStep, RestartStep, CrashStep, PutSocksStep, PutTunnelStep, DelTunnelStep,
     DelLoadStep, DelDropStep, DelDoneStep, CliLoadStep, CliSaveStep, StutterStep
     DEF Next

(* With Quiet rivals the invariant holds throughout.                       *)
THEOREM RivalsInvariant ==
  ASSUME Quiet
  PROVE  Spec => []RivalInv
  <1>1. RivalInv /\ [Next]_vars => RivalInv'
    BY RivalStep
  <1> QED BY <1>1, RivalInit, PTL DEF Spec

(* A deletion that is carried through deletes the accounts for good: no    *)
(* stale copy of the proxy or of --unregister brings them back, whatever   *)
(* crashes in between and whichever saves fail.                            *)
THEOREM NoGhostAccounts ==
  ASSUME Quiet, Settled
  PROVE  Spec => []NoGhosts
  <1>1. RivalInv => NoGhosts
    BY DEF RivalInv
  <1> QED BY <1>1, RivalsInvariant, PTL

(* A connection is dialled through the tunnel its address belongs to, also *)
(* after other tunnels were deleted and the proxy restarted on what was    *)
(* left of the configuration.                                              *)
THEOREM EgressStaysInTunnel ==
  ASSUME Quiet, Settled
  PROVE  Spec => []EgressInTunnel
  <1>1. RivalInv => EgressInTunnel
    BY DEF RivalInv
  <1> QED BY <1>1, RivalsInvariant, PTL

(* No rival's save loses what a client was answered.                       *)
THEOREM AnswersStayOnDisk ==
  ASSUME Quiet
  PROVE  Spec => []AnswersOnDisk
  <1>1. RivalInv => AnswersOnDisk
    BY DEF RivalInv, GrantsDurable, AnswersOnDisk
  <1> QED BY <1>1, RivalsInvariant, PTL

(* Nor does it move an account to another address.                         *)
THEOREM StickyNextToRivals ==
  ASSUME Quiet
  PROVE  Spec => StickyForever
  <1>1. RivalInv /\ [Next]_vars => [SameOrFresh]_storeVars
    BY RivalStep
  <1> QED BY <1>1, RivalsInvariant, PTL DEF Spec, StickyForever, SameOrFresh
=============================================================================
