-------------------------- MODULE StickyEgressProofs ------------------------
(***************************************************************************)
(* The running proxy uses the store the way AccountStore describes, for    *)
(* every number of handlers and every fault: the theorems about the store  *)
(* are theorems about the proxy.  And what it promises beyond the store.   *)
(***************************************************************************)
EXTENDS StickyEgress, AccountStoreProofs

-----------------------------------------------------------------------------
LEMMA SeedsAreUsers == DOMAIN Seeds \subseteq Users
  BY ConstantsAssumption

LEMMA EgressInitially == Init => TypeOK
<1>1. SUFFICES ASSUME Init PROVE TypeOK
  OBVIOUS
<1>2. StoreTypeOK
  BY <1>1, TypeInit DEF Init
<1>3. Asleep \in Rounds
  BY DEF Asleep, Rounds
<1>4. conn \in [Handlers -> Sessions]
  BY <1>1 DEF Init, Sessions
<1>5. QED
  BY <1>1, <1>2, <1>3, <1>4 DEF Init, TypeOK

(* Every step is one of the store's, or leaves the store alone.            *)
LEMMA StepUsesStore == TypeOK /\ [Next]_vars => [StoreNext]_storeVars
<1>1. SUFFICES ASSUME TypeOK, [Next]_vars PROVE [StoreNext]_storeVars
  OBVIOUS
<1>2. SaveOutcomes \subseteq BOOLEAN
  BY DEF SaveOutcomes
<1>3. ASSUME NEW u \in DOMAIN Seeds, SeedAccount(u) PROVE [StoreNext]_storeVars
  BY <1>2, <1>3 DEF SeedAccount, StoreNext
<1>4. ASSUME NEW h \in Handlers, NEW u \in Users, Resolve(h, u) PROVE StoreNext
  BY <1>2, <1>4, HomeAssumption DEF Resolve, StoreNext
<1>5. ASSUME Reap PROVE StoreNext
  <2>1. reaper.protected \in SUBSET Users
    BY <1>1 DEF TypeOK, Rounds
  <2>2. QED
    BY <1>2, <1>5, <2>1 DEF Reap, StoreNext
<1>6. CASE Crash
  BY <1>6 DEF Crash, StoreNext
<1>7. CASE TimePasses
  BY <1>7 DEF TimePasses, StoreNext
<1>8. ASSUME NEW h \in Handlers, Handle(h) \/ Close(h) PROVE UNCHANGED storeVars
  BY <1>8 DEF Handle, Close, CheckEnsured, AddToIface, MarkEnsured, DialOk, DialFails
<1>9. CASE \/ StartServing \/ ScanEntries \/ ForgetAddr \/ LinkFlap
           \/ \E e \in iface \cup reaper.todo : DelFromIface(e)
           \/ UNCHANGED vars
  BY <1>9 DEF StartServing, ScanEntries, DelFromIface, ForgetAddr, LinkFlap, vars
<1>10. QED
  BY <1>1, <1>3, <1>4, <1>5, <1>6, <1>7, <1>8, <1>9 DEF Next, ReapRound

(* Allocate leaves a fresh record, and everybody else's as it was.         *)
LEMMA AllocatedHas ==
  ASSUME NEW s \in Stores, NEW t \in Tunnels, NEW u \in Users, NEW k \in Nat
  PROVE  /\ Allocated(s, t, u, k).records[u] # NoRec
         /\ Allocated(s, t, u, k).records[u].used = "recent"
         /\ Allocated(s, t, u, k).records[u].addr = AddrAt(s, t, k)
         /\ \A v \in Users \ {u} : Allocated(s, t, u, k).records[v] = s.records[v]
<1>1. t.name \in Names /\ AddrAt(s, t, k) \in Addrs
  BY AddrAtType DEF Names
<1>2. Wrap(AddrAt(s, t, k).iid + 1) \in IIDs
  BY <1>1, WrapType DEF Addrs, IIDs
<1>3. [tun |-> t.name, addr |-> AddrAt(s, t, k), used |-> "recent"] \in Records
  BY <1>1 DEF Records, Ages
<1>4. QED
  BY <1>1, <1>2, <1>3, WithRecordType, SentinelsAssumption DEF Allocated

Active == [pc : Setup \cup {"relay"}, user : Users, addr : Addrs]

(* A handler at work has an account, an address and a key on an interface. *)
LEMMA AtWork ==
  ASSUME TypeOK, NEW h \in Handlers, conn[h].pc # "idle"
  PROVE  conn[h] \in Active /\ Key(h) \in OnIface
<1>1. conn[h] \in Active
  BY DEF TypeOK, Sessions, Active, Idle
<1>2. Home[conn[h].user].name \in Names
  BY <1>1, HomeAssumption DEF Active, Names
<1>3. QED
  BY <1>1, <1>2 DEF Key, OnIface, Active

(* Moving a handler at work on, or back to idle, keeps sessions typed.     *)
LEMMA GotoType ==
  ASSUME TypeOK, NEW h \in Handlers, conn[h].pc # "idle",
         (\E p \in Setup \cup {"relay"} : Goto(h, p)) \/ Finish(h)
  PROVE  conn' \in [Handlers -> Sessions]
<1>1. conn[h] \in Active
  BY AtWork
<1>2. CASE \E p \in Setup \cup {"relay"} : Goto(h, p)
  <2>1. PICK p \in Setup \cup {"relay"} : Goto(h, p)
    BY <1>2
  <2>2. [conn[h] EXCEPT !.pc = p] \in Sessions
    BY <1>1 DEF Active, Sessions
  <2>3. conn' = [conn EXCEPT ![h] = [conn[h] EXCEPT !.pc = p]]
    BY <2>1 DEF Goto
  <2>4. QED
    BY <2>2, <2>3 DEF TypeOK
<1>3. CASE Finish(h)
  BY <1>3 DEF Finish, TypeOK, Sessions
<1>4. QED
  BY <1>2, <1>3

LEMMA EgressTypeStep == TypeOK /\ [Next]_vars => TypeOK'
<1>1. SUFFICES ASSUME TypeOK, [Next]_vars PROVE TypeOK'
  OBVIOUS
<1>2. StoreTypeOK'
  BY <1>1, StepUsesStore, TypeStep DEF TypeOK
<1>3. ASSUME NEW u \in DOMAIN Seeds, SeedAccount(u) PROVE TypeOK'
  BY <1>1, <1>2, <1>3 DEF SeedAccount, TypeOK
<1>4. CASE StartServing
  BY <1>1, <1>2, <1>4 DEF StartServing, TypeOK
<1>5. CASE Crash
  <2>1. Asleep \in Rounds /\ Idle \in Sessions
    BY DEF Asleep, Rounds, Sessions
  <2>2. QED
    BY <1>1, <1>2, <1>5, <2>1 DEF Crash, TypeOK
<1>6. ASSUME NEW h \in Handlers, NEW u \in Users, Resolve(h, u) PROVE TypeOK'
  <2>1. PICK ok \in SaveOutcomes :
          /\ Allocate(Home[u], u, ok)
          /\ conn' = IF ok THEN [conn EXCEPT ![h] = [pc |-> "check", user |-> u,
                                                     addr |-> mem'.records[u].addr]]
                           ELSE conn
    BY <1>6 DEF Resolve
  <2>2. mem'.records[u] # NoRec
    <3>1. CASE AllocateKnown(u, ok)
      BY <1>1, <3>1, TouchedType DEF AllocateKnown, Save, Within, Registered, TypeOK, StoreTypeOK
    <3>2. CASE \E k \in 0 .. Cardinality(Users) : AllocateNew(Home[u], u, k, ok)
      <4>1. PICK k \in Nat : AllocateNew(Home[u], u, k, ok)
        BY <3>2
      <4>2. Home[u] \in Tunnels /\ mem \in Stores
        BY <1>1, HomeAssumption DEF TypeOK, StoreTypeOK
      <4>3. mem' = Allocated(mem, Home[u], u, k)
        BY <4>1 DEF AllocateNew, Save
      <4>4. QED
        BY <4>1, <4>2, <4>3, AllocatedHas
    <3>3. QED
      BY <2>1, <3>1, <3>2 DEF Allocate
  <2>3. mem'.records[u].addr \in Addrs
    BY <1>2, <2>2 DEF StoreTypeOK, Stores, Records
  <2>4. [pc |-> "check", user |-> u, addr |-> mem'.records[u].addr] \in Sessions
    BY <2>3 DEF Sessions, Setup
  <2>5. conn' \in [Handlers -> Sessions]
    BY <1>1, <2>1, <2>4 DEF TypeOK
  <2>6. QED
    BY <1>1, <1>2, <1>6, <2>5 DEF Resolve, TypeOK
<1>7. ASSUME NEW h \in Handlers, Handle(h) \/ Close(h) PROVE TypeOK'
  <2>1. conn[h].pc # "idle"
    BY <1>7 DEF Handle, Close, CheckEnsured, AddToIface, MarkEnsured, DialOk, DialFails
  <2>2. (\E p \in Setup \cup {"relay"} : Goto(h, p)) \/ Finish(h)
    BY <1>7 DEF Handle, Close, CheckEnsured, AddToIface, MarkEnsured, DialOk, DialFails, Setup
  <2>3. conn' \in [Handlers -> Sessions]
    BY <1>1, <2>1, <2>2, GotoType
  <2>4. /\ phase' = phase /\ toSeed' = toSeed /\ reaper' = reaper
        /\ iface' \subseteq iface \cup {Key(h)} /\ ensured' \subseteq ensured \cup {Key(h)}
    BY <1>7 DEF Handle, Close, CheckEnsured, AddToIface, MarkEnsured, DialOk, DialFails
  <2>5. Key(h) \in OnIface
    BY <1>1, <2>1, AtWork
  <2>6. QED
    BY <1>1, <1>2, <2>3, <2>4, <2>5 DEF TypeOK
<1>8. CASE ScanEntries
  <2>1. PICK ok \in Outcomes("scan") :
          reaper' = [reaper EXCEPT !.pc = "reap",
                       !.protected = DOMAIN Seeds \cup IF ok THEN Entries ELSE {}]
    BY <1>8 DEF ScanEntries
  <2> DEFINE guarded == DOMAIN Seeds \cup IF ok THEN Entries ELSE {}
  <2>2. guarded \subseteq Users
    BY SeedsAreUsers, HomeAssumption
  <2>3. reaper' = [reaper EXCEPT !.pc = "reap", !.protected = guarded]
    BY <2>1
  <2> HIDE DEF guarded
  <2>4. reaper' \in Rounds
    BY <1>1, <2>2, <2>3 DEF TypeOK, Rounds
  <2>5. QED
    BY <1>1, <1>2, <1>8, <2>4 DEF ScanEntries, TypeOK
<1>9. CASE Reap
  <2> DEFINE gone == Expired(mem, reaper.protected)
             left == {<<mem.records[u].tun, mem.records[u].addr>> : u \in gone}
  <2>1. left \in SUBSET OnIface
    BY <1>1 DEF TypeOK, StoreTypeOK, Stores, Records, Expired, Registered, OnIface
  <2>2. reaper' = IF left = {} THEN Asleep ELSE [Asleep EXCEPT !.pc = "clean", !.todo = left]
    BY <1>9 DEF Reap
  <2> HIDE DEF left
  <2>3. reaper' \in Rounds
    BY <2>1, <2>2 DEF Asleep, Rounds
  <2>4. QED
    BY <1>1, <1>2, <1>9, <2>3 DEF Reap, TypeOK
<1>10. ASSUME NEW e \in iface \cup reaper.todo, DelFromIface(e) PROVE TypeOK'
  <2>1. e \in OnIface
    BY <1>1 DEF TypeOK, Rounds
  <2>2. reaper' = [reaper EXCEPT !.pc = "forget", !.todo = reaper.todo \ {e}, !.cur = e]
    BY <1>10 DEF DelFromIface
  <2>3. reaper' \in Rounds
    BY <1>1, <2>1, <2>2 DEF TypeOK, Rounds
  <2>4. QED
    BY <1>1, <1>2, <1>10, <2>3 DEF DelFromIface, TypeOK
<1>11. CASE ForgetAddr
  <2>1. Asleep \in Rounds
    BY DEF Asleep, Rounds
  <2>2. [reaper EXCEPT !.pc = "clean", !.cur = <<>>] \in Rounds
    BY <1>1 DEF TypeOK, Rounds
  <2>3. QED
    BY <1>1, <1>2, <1>11, <2>1, <2>2 DEF ForgetAddr, TypeOK
<1>12. CASE TimePasses \/ LinkFlap \/ UNCHANGED vars
  BY <1>1, <1>2, <1>12 DEF TimePasses, LinkFlap, egressVars, vars, TypeOK
<1>13. QED
  BY <1>1, <1>3, <1>4, <1>5, <1>6, <1>7, <1>8, <1>9, <1>10, <1>11, <1>12 DEF Next, ReapRound

(* Handlers, reaper, startup and crashes keep everything in its type.      *)
THEOREM EgressTypeCorrect == Spec => []TypeOK
  BY EgressInitially, EgressTypeStep, PTL DEF Spec

(* The proxy, whatever its handlers, its reaper, its startup and crashes   *)
(* do and in whatever order, is a behaviour of the store.                  *)
THEOREM EgressUsesStore == Spec => UsesStore
<1>1. Init => StoreInit
  BY DEF Init
<1>2. QED
  BY <1>1, EgressTypeCorrect, StepUsesStore, PTL DEF Spec, UsesStore, StoreSpec

-----------------------------------------------------------------------------
(* Refinement of StickyService.                                            *)

(* What is promised has been answered before.                              *)
Answered == \A u \in Users : granted[u] # NoAddr => <<granted[u], u>> \in issued

(* The account of a connection being set up is on record, in use, and      *)
(* promised the address the connection is about to bind.                   *)
Fresh(h) ==
  /\ mem.records[conn[h].user] # NoRec /\ mem.records[conn[h].user].used = "recent"
  /\ granted[conn[h].user] = conn[h].addr

SetupsFresh == \A h \in Handlers : conn[h].pc \in Setup => Fresh(h)

ServiceInv == TypeOK /\ GrantsDurable /\ Answered /\ SetupsFresh

(* A use leaves the account on record, in use, at its address.             *)
LEMMA TouchedHas ==
  ASSUME NEW s \in Stores, NEW u \in Users, s.records[u] # NoRec
  PROVE  /\ Touched(s, u).records[u] # NoRec
         /\ Touched(s, u).records[u].used = "recent"
         /\ Touched(s, u).records[u].addr = s.records[u].addr
         /\ \A v \in Users \ {u} : Touched(s, u).records[v] = s.records[v]
<1> DEFINE new == [s.records[u] EXCEPT !.used = "recent"]
<1>1. s.records[u] \in Records /\ s.records \in [Users -> Records \cup {NoRec}]
  BY DEF Stores
<1>2. new \in Records /\ new.used = "recent" /\ new.addr = s.records[u].addr
  BY <1>1 DEF Records, Ages
<1>3. Touched(s, u).records = [s.records EXCEPT ![u] = new]
  BY DEF Touched, Stores
<1> HIDE DEF new
<1>4. QED
  BY <1>1, <1>2, <1>3, SentinelsAssumption

(* What an Allocate that Resolve calls does: the account is on record and  *)
(* in use, nobody else's record moves; if it answered, it answered what is *)
(* on record, which is what was promised before, if anything was.          *)
LEMMA AllocateEffect ==
  ASSUME StoreTypeOK, GrantsDurable, NEW u \in Users, NEW ok \in BOOLEAN,
         Allocate(Home[u], u, ok)
  PROVE  LET a == mem'.records[u].addr IN
         /\ mem'.records[u] # NoRec /\ mem'.records[u].used = "recent"
         /\ \A v \in Users \ {u} : mem'.records[v] = mem.records[v]
         /\ granted[u] # NoAddr => granted[u] = a
         /\ IF ok THEN Grant(u, a) ELSE UNCHANGED <<granted, issued>>
<1>1. mem \in Stores /\ Home[u] \in Tunnels
  BY HomeAssumption DEF StoreTypeOK
<1>2. granted[u] # NoAddr => mem.records[u] # NoRec /\ mem.records[u].addr = granted[u]
  BY DEF GrantsDurable
<1>3. CASE AllocateKnown(u, ok)
  <2>1. mem.records[u] # NoRec /\ mem' = Touched(mem, u)
    BY <1>3 DEF AllocateKnown, Save
  <2>2. IF ok THEN Grant(u, mem.records[u].addr) ELSE UNCHANGED <<granted, issued>>
    BY <1>3 DEF AllocateKnown
  <2>3. /\ mem'.records[u] # NoRec /\ mem'.records[u].used = "recent"
        /\ mem'.records[u].addr = mem.records[u].addr
        /\ \A v \in Users \ {u} : mem'.records[v] = mem.records[v]
    BY <1>1, <2>1, TouchedHas
  <2>4. QED
    BY <1>2, <2>1, <2>2, <2>3
<1>4. CASE \E k \in 0 .. Cardinality(Users) : AllocateNew(Home[u], u, k, ok)
  <2>1. PICK k \in Nat : AllocateNew(Home[u], u, k, ok)
    BY <1>4
  <2>2. mem.records[u] = NoRec /\ mem' = Allocated(mem, Home[u], u, k)
    BY <2>1 DEF AllocateNew, Save
  <2>3. /\ mem'.records[u] # NoRec /\ mem'.records[u].used = "recent"
        /\ mem'.records[u].addr = AddrAt(mem, Home[u], k)
        /\ \A v \in Users \ {u} : mem'.records[v] = mem.records[v]
    <3>1. PICK s \in Stores, t \in Tunnels : s = mem /\ t = Home[u]
      BY <1>1
    <3> DEFINE r == Allocated(s, t, u, k)
    <3>2. /\ r.records[u] # NoRec /\ r.records[u].used = "recent"
          /\ r.records[u].addr = AddrAt(s, t, k)
          /\ \A v \in Users \ {u} : r.records[v] = s.records[v]
      BY AllocatedHas
    <3> HIDE DEF r
    <3>3. mem' = r
      BY <2>2, <3>1 DEF r
    <3>4. QED
      BY <3>1, <3>2, <3>3
  <2>4. QED
    BY <1>2, <2>1, <2>2, <2>3 DEF AllocateNew
<1>5. QED
  BY <1>3, <1>4 DEF Allocate

(* A reaped account was out of use; nobody else's record or promise moves. *)
LEMMA ReapEffect ==
  ASSUME StoreTypeOK, NEW protected, NEW ok, ReapIdle(protected, ok)
  PROVE  /\ issued' = issued
         /\ \A u \in Users :
              \/ mem.records[u] # NoRec /\ mem.records[u].used = "old" /\ granted'[u] = NoAddr
              \/ mem'.records[u] = mem.records[u] /\ granted'[u] = granted[u]
<1> DEFINE gone == Expired(mem, protected)
<1>1. /\ issued' = issued /\ Revoke(gone)
      /\ (gone = {} /\ mem' = mem) \/ mem' = Without(mem, gone)
  BY DEF ReapIdle, Save
<1>2. \A u \in gone : mem.records[u] # NoRec /\ mem.records[u].used = "old"
  BY DEF Expired, Registered
<1> HIDE DEF gone
<1>3. \A u \in Users \ gone : Without(mem, gone).records[u] = mem.records[u]
  BY DEF Without, StoreTypeOK, Stores
<1>4. QED
  BY <1>1, <1>2, <1>3 DEF Revoke

(* Seeding an account moves nobody else's record.                          *)
LEMMA SeededOthers ==
  ASSUME NEW s \in Stores, NEW t \in Tunnels, NEW u \in Users, NEW a \in Addrs,
         NextAfterSeed(s, t, a.iid) \in IIDs
  PROVE  \A v \in Users \ {u} : Seeded(s, t, u, a).records[v] = s.records[v]
<1>1. t.name \in Names
  BY DEF Names
<1>2. ASSUME NEW n \in Names, NEW i \in IIDs
      PROVE  \A v \in Users \ {u} : WithRecord(s, u, n, a, i).records[v] = s.records[v]
  BY <1>2 DEF WithRecord, Stores
<1>3. QED
  BY <1>1, <1>2 DEF Seeded

(* Connections come out of Resolve with a fresh account; nothing makes an  *)
(* account stale while one of its connections is being set up.             *)
LEMMA ServiceStep ==
  ServiceInv /\ TypeOK' /\ GrantsDurable' /\ [Next]_vars => ServiceInv'
<1>0. SUFFICES ASSUME ServiceInv, TypeOK', GrantsDurable', [Next]_vars
               PROVE  Answered' /\ SetupsFresh'
  BY DEF ServiceInv
<1>1. TypeOK /\ GrantsDurable /\ Answered /\ SetupsFresh /\ StoreTypeOK
  BY <1>0 DEF ServiceInv, TypeOK
<1>2. ASSUME NEW h \in Handlers, NEW u \in Users, Resolve(h, u)
      PROVE  Answered' /\ SetupsFresh'
  <2>1. PICK ok \in BOOLEAN :
          /\ Allocate(Home[u], u, ok)
          /\ conn' = IF ok THEN [conn EXCEPT ![h] = [pc |-> "check", user |-> u,
                                                     addr |-> mem'.records[u].addr]]
                           ELSE conn
    BY <1>2 DEF Resolve, SaveOutcomes
  <2> DEFINE a == mem'.records[u].addr
  <2>2. /\ mem'.records[u] # NoRec /\ mem'.records[u].used = "recent"
        /\ \A v \in Users \ {u} : mem'.records[v] = mem.records[v]
        /\ granted[u] # NoAddr => granted[u] = a
        /\ IF ok THEN Grant(u, a) ELSE UNCHANGED <<granted, issued>>
    BY <1>1, <2>1, AllocateEffect
  <2> HIDE DEF a
  <2>3. granted \in [Users -> Addrs \cup {NoAddr}]
    BY <1>1 DEF StoreTypeOK
  <2>4. /\ \A v \in Users \ {u} : granted'[v] = granted[v]
        /\ granted[u] # NoAddr => granted'[u] = granted[u]
        /\ ok => granted'[u] = a
    BY <2>2, <2>3 DEF Grant
  <2>5. Answered'
    <3>1. CASE ok
      BY <1>1, <2>2, <2>3, <3>1 DEF Answered, Grant
    <3>2. CASE ~ok
      BY <1>1, <2>2, <3>2 DEF Answered
    <3>3. QED
      BY <3>1, <3>2
  <2>6. ASSUME NEW g \in Handlers, conn'[g].pc \in Setup PROVE Fresh(g)'
    <3>1. CASE ok /\ g = h
      <4>1. conn'[h] = [pc |-> "check", user |-> u, addr |-> a]
        BY <1>1, <2>1, <3>1 DEF TypeOK, a
      <4>2. conn'[g].user = u /\ conn'[g].addr = a
        BY <3>1, <4>1
      <4>3. QED
        BY <2>2, <2>4, <3>1, <4>2 DEF Fresh
    <3>2. CASE ~(ok /\ g = h)
      <4>1. conn'[g] = conn[g]
        BY <1>1, <2>1, <3>2 DEF TypeOK
      <4>2. Fresh(g) /\ conn[g].user \in Users /\ granted[conn[g].user] # NoAddr
        BY <1>1, <2>6, <4>1, AtWork, SentinelsAssumption DEF SetupsFresh, Fresh, Active, Setup
      <4>3. QED
        BY <2>2, <2>4, <4>1, <4>2 DEF Fresh
    <3>3. QED
      BY <3>1, <3>2
  <2>7. QED
    BY <2>5, <2>6 DEF SetupsFresh
<1>3. CASE Reap
  <2>1. PICK ok \in SaveOutcomes : ReapIdle(reaper.protected, ok)
    BY <1>3 DEF Reap
  <2>2. /\ issued' = issued
        /\ \A u \in Users :
             \/ mem.records[u] # NoRec /\ mem.records[u].used = "old" /\ granted'[u] = NoAddr
             \/ mem'.records[u] = mem.records[u] /\ granted'[u] = granted[u]
    BY <1>1, <2>1, ReapEffect
  <2>3. conn' = conn
    BY <1>3 DEF Reap
  <2>4. Answered'
    BY <1>1, <2>2 DEF Answered
  <2>5. ASSUME NEW g \in Handlers, conn[g].pc \in Setup PROVE Fresh(g)'
    <3>1. Fresh(g) /\ conn[g].user \in Users
      BY <1>1, <2>5, AtWork DEF SetupsFresh, Active, Setup
    <3>2. QED
      BY <2>2, <2>3, <3>1 DEF Fresh
  <2>6. QED
    BY <2>3, <2>4, <2>5 DEF SetupsFresh, Fresh
<1>4. ASSUME NEW h \in Handlers, Handle(h) \/ Close(h)
      PROVE  Answered' /\ SetupsFresh'
  <2>1. mem' = mem /\ granted' = granted /\ issued' = issued /\ conn[h].pc # "idle"
    BY <1>4 DEF Handle, Close, CheckEnsured, AddToIface, MarkEnsured, DialOk, DialFails, storeVars
  <2>2. conn[h] \in Active
    BY <1>1, <2>1, AtWork
  <2>3. ASSUME NEW g \in Handlers, conn'[g].pc \in Setup
        PROVE  /\ conn[g].pc \in Setup
               /\ conn'[g].user = conn[g].user /\ conn'[g].addr = conn[g].addr
    <3>1. CASE g = h
      <4>1. CASE conn[h].pc \in Setup /\ \E p \in Setup \cup {"relay"} : Goto(h, p)
        BY <1>1, <2>2, <3>1, <4>1 DEF Goto, Active, TypeOK
      <4>2. CASE Finish(h)
        BY <1>1, <2>3, <3>1, <4>2 DEF Finish, Idle, TypeOK, Setup
      <4>3. QED
        BY <1>4, <4>1, <4>2 DEF Handle, Close, CheckEnsured, AddToIface, MarkEnsured,
                                DialOk, DialFails, Setup
    <3>2. CASE g # h
      <4>1. conn'[g] = conn[g]
        BY <1>1, <1>4, <3>2 DEF Handle, Close, CheckEnsured, AddToIface, MarkEnsured,
                                DialOk, DialFails, Goto, Finish, TypeOK
      <4>2. QED
        BY <2>3, <4>1
    <3>3. QED
      BY <3>1, <3>2
  <2>4. QED
    BY <1>1, <2>1, <2>3 DEF Answered, SetupsFresh, Fresh
<1>5. CASE Crash
  <2>1. granted' = granted /\ issued' = issued /\ conn' = [h \in Handlers |-> Idle]
    BY <1>5 DEF Crash, Restart
  <2>2. \A h \in Handlers : conn'[h].pc \notin Setup
    BY <2>1 DEF Idle, Setup
  <2>3. QED
    BY <1>1, <2>1, <2>2 DEF Answered, SetupsFresh, Fresh
<1>6. CASE TimePasses
  <2>1. /\ granted' = granted /\ issued' = issued /\ conn' = conn
        /\ \A h \in Handlers : conn[h].pc \notin Setup
    BY <1>6 DEF TimePasses, TtlPasses, NobodyInSetup, egressVars
  <2>2. QED
    BY <1>1, <2>1 DEF Answered, SetupsFresh, Fresh
<1>7. ASSUME NEW u \in DOMAIN Seeds, SeedAccount(u)
      PROVE  Answered' /\ SetupsFresh'
  <2>1. /\ conn' = conn /\ granted' = granted /\ issued' = issued
        /\ \A v \in Users : mem.records[v] # NoRec => mem'.records[v] = mem.records[v]
    <3>1. CASE UNCHANGED storeVars
      BY <1>7, <3>1 DEF SeedAccount, storeVars
    <3>2. CASE \E t \in Tunnels, ok \in SaveOutcomes : Seed(t, u, Seeds[u], ok)
      <4>1. PICK t \in Tunnels, ok \in SaveOutcomes : Seed(t, u, Seeds[u], ok)
        BY <3>2
      <4>2. u \in Users /\ Seeds[u] \in Addrs /\ t.name \in Names /\ mem \in Stores
        BY <1>1, ConstantsAssumption DEF Names, StoreTypeOK
      <4>3. NextAfterSeed(mem, t, Seeds[u].iid) \in IIDs
        BY <4>2, WrapType DEF NextAfterSeed, Stores, Addrs, IIDs
      <4>4. \A v \in Users \ {u} : Seeded(mem, t, u, Seeds[u]).records[v] = mem.records[v]
        BY <4>2, <4>3, SeededOthers
      <4>5. QED
        BY <1>7, <4>1, <4>4 DEF Seed, Save, SeedAccount
    <3>3. QED
      BY <1>7, <3>1, <3>2 DEF SeedAccount
  <2>2. ASSUME NEW g \in Handlers, conn[g].pc \in Setup PROVE Fresh(g)'
    <3>1. Fresh(g) /\ conn[g].user \in Users
      BY <1>1, <2>2, AtWork DEF SetupsFresh, Active, Setup
    <3>2. QED
      BY <2>1, <3>1 DEF Fresh
  <2>3. QED
    BY <1>1, <2>1, <2>2 DEF Answered, SetupsFresh, Fresh
<1>8. CASE \/ StartServing \/ ScanEntries \/ ForgetAddr \/ LinkFlap
           \/ \E e \in iface \cup reaper.todo : DelFromIface(e)
           \/ UNCHANGED vars
  <2>1. UNCHANGED <<mem, granted, issued, conn>>
    BY <1>8 DEF StartServing, ScanEntries, DelFromIface, ForgetAddr, LinkFlap, vars, storeVars,
                egressVars
  <2>2. QED
    BY <1>1, <2>1 DEF Answered, SetupsFresh, Fresh
<1>9. QED
  BY <1>0, <1>2, <1>3, <1>4, <1>5, <1>6, <1>7, <1>8 DEF Next, ReapRound

(* What StickyService calls the open sessions.                             *)
Relayed == [h \in Handlers |-> IF conn[h].pc = "relay"
                               THEN [user |-> conn[h].user, addr |-> conn[h].addr]
                               ELSE NoRec]

LEMMA Unobserved ==
  ASSUME granted' = granted, issued' = issued, Relayed' = Relayed
  PROVE  UNCHANGED Service!serviceVars
BY DEF Service!serviceVars, Relayed

(* A handler that moves without entering or leaving relay shows nothing.   *)
LEMMA SetupIsHidden ==
  ASSUME NEW h \in Handlers, conn[h].pc # "relay",
         \A g \in Handlers \ {h} : conn'[g] = conn[g], conn'[h].pc # "relay"
  PROVE  Relayed' = Relayed
<1>1. \A g \in Handlers : \/ conn'[g] = conn[g]
                          \/ conn'[g].pc # "relay" /\ conn[g].pc # "relay"
  OBVIOUS
<1>2. QED
  BY <1>1 DEF Relayed

(* A first answer of Allocate is an Assign, a repeated one is not seen.    *)
LEMMA ResolveImplements ==
  ASSUME ServiceInv, TypeOK', OneOwner', NEW h \in Handlers, NEW u \in Users, Resolve(h, u)
  PROVE  [Service!ServiceNext]_Service!serviceVars
<1>1. PICK ok \in BOOLEAN :
        /\ Allocate(Home[u], u, ok)
        /\ conn' = IF ok THEN [conn EXCEPT ![h] = [pc |-> "check", user |-> u,
                                                   addr |-> mem'.records[u].addr]]
                         ELSE conn
  BY DEF Resolve, SaveOutcomes
<1> DEFINE a == mem'.records[u].addr
<1>2. TypeOK /\ StoreTypeOK /\ GrantsDurable /\ Answered
  BY DEF ServiceInv, TypeOK
<1>3. /\ mem'.records[u] # NoRec
      /\ granted[u] # NoAddr => granted[u] = a
      /\ IF ok THEN Grant(u, a) ELSE UNCHANGED <<granted, issued>>
  BY <1>1, <1>2, AllocateEffect
<1>4. a \in Addrs
  BY <1>3 DEF TypeOK, StoreTypeOK, Stores, Records
<1>5. Relayed' = Relayed
  <2>1. CASE ok
    <3>1. conn[h].pc = "idle" /\ conn'[h].pc = "check" /\ \A g \in Handlers \ {h} : conn'[g] = conn[g]
      BY <1>1, <1>2, <2>1 DEF Resolve, TypeOK
    <3>2. QED
      BY <3>1, SetupIsHidden
  <2>2. CASE ~ok
    BY <1>1, <2>2 DEF Relayed
  <2>3. QED
    BY <2>1, <2>2
<1> HIDE DEF a
<1>6. CASE ok /\ granted[u] = NoAddr
  <2>1. granted' = [granted EXCEPT ![u] = a] /\ issued' = issued \cup {<<a, u>>}
    BY <1>3, <1>6 DEF Grant
  <2>2. \A p \in issued : p[1] = a => p[2] = u
    BY <2>1 DEF OneOwner
  <2>3. Service!Assign(u, a)
    BY <1>5, <1>6, <2>1, <2>2 DEF Service!Assign, Relayed
  <2>4. QED
    BY <1>4, <2>3 DEF Service!ServiceNext
<1>7. CASE ok /\ granted[u] # NoAddr
  <2>1. granted[u] = a /\ granted' = [granted EXCEPT ![u] = a] /\ issued' = issued \cup {<<a, u>>}
    BY <1>3, <1>7 DEF Grant
  <2>2. granted' = granted /\ issued' = issued
    BY <1>2, <1>7, <2>1 DEF Answered, StoreTypeOK
  <2>3. QED
    BY <1>5, <2>2, Unobserved
<1>8. CASE ~ok
  BY <1>3, <1>5, <1>8, Unobserved
<1>9. QED
  BY <1>6, <1>7, <1>8

(* A dial that succeeds opens the session its account was promised.        *)
LEMMA DialImplements ==
  ASSUME ServiceInv, NEW h \in Handlers, DialOk(h)
  PROVE  [Service!ServiceNext]_Service!serviceVars
<1>1. TypeOK /\ Fresh(h) /\ conn[h] \in Active
  BY AtWork DEF ServiceInv, SetupsFresh, DialOk, Setup
<1>2. PICK u \in Users : conn[h].user = u
  BY <1>1 DEF Active
<1>3. conn[h].addr \in Addrs /\ granted[u] = conn[h].addr /\ granted[u] # NoAddr
  BY <1>2, <1>1, SentinelsAssumption DEF Fresh, Active
<1>4. conn' = [conn EXCEPT ![h] = [conn[h] EXCEPT !.pc = "relay"]]
  BY DEF DialOk, Goto
<1>5. /\ conn'[h].pc = "relay" /\ conn'[h].user = u /\ conn'[h].addr = granted[u]
      /\ \A g \in Handlers \ {h} : conn'[g] = conn[g]
  BY <1>2, <1>1, <1>3, <1>4 DEF TypeOK, Active
<1>6. Relayed[h] = NoRec /\ Relayed' = [Relayed EXCEPT ![h] = [user |-> u, addr |-> granted[u]]]
  BY <1>5 DEF Relayed, DialOk
<1>7. granted' = granted /\ issued' = issued
  BY DEF DialOk, storeVars
<1>8. Service!Open(h, u)
  BY <1>3, <1>6, <1>7 DEF Service!Open, Relayed
<1>9. QED
  BY <1>8 DEF Service!ServiceNext

(* Connections that end, one or all of them.                               *)
LEMMA EndImplements ==
  ASSUME NEW closed \in SUBSET Handlers, granted' = granted, issued' = issued,
         \A g \in closed : conn'[g].pc # "relay",
         \A g \in Handlers \ closed : conn'[g] = conn[g]
  PROVE  Service!ServiceNext
<1>1. Relayed' = [g \in Handlers |-> IF g \in closed THEN NoRec ELSE Relayed[g]]
  BY DEF Relayed
<1>2. Service!End(closed)
  BY <1>1 DEF Service!End, Relayed
<1>3. QED
  BY <1>2 DEF Service!ServiceNext

LEMMA ServiceImplemented ==
  ServiceInv /\ TypeOK' /\ OneOwner' /\ [Next]_vars => [Service!ServiceNext]_Service!serviceVars
<1>0. SUFFICES ASSUME ServiceInv, TypeOK', OneOwner', [Next]_vars
               PROVE  [Service!ServiceNext]_Service!serviceVars
  OBVIOUS
<1>1. TypeOK
  BY <1>0 DEF ServiceInv
<1>2. ASSUME NEW h \in Handlers, NEW u \in Users, Resolve(h, u)
      PROVE  [Service!ServiceNext]_Service!serviceVars
  BY <1>0, <1>2, ResolveImplements
<1>3. CASE Reap
  <2>1. PICK ok \in SaveOutcomes : ReapIdle(reaper.protected, ok)
    BY <1>3 DEF Reap
  <2> DEFINE gone == Expired(mem, reaper.protected)
  <2>2. Revoke(gone) /\ issued' = issued /\ Relayed' = Relayed
    BY <1>3, <2>1 DEF Reap, ReapIdle, Relayed
  <2>3. gone \in SUBSET Users
    BY DEF Expired, Registered
  <2> HIDE DEF gone
  <2>4. Service!Withdraw(gone)
    BY <2>2 DEF Service!Withdraw, Revoke, Relayed
  <2>5. QED
    BY <2>3, <2>4 DEF Service!ServiceNext
<1>4. ASSUME NEW h \in Handlers, DialOk(h)
      PROVE  [Service!ServiceNext]_Service!serviceVars
  BY <1>0, <1>4, DialImplements
<1>5. ASSUME NEW h \in Handlers, Close(h)
      PROVE  [Service!ServiceNext]_Service!serviceVars
  <2>1. /\ granted' = granted /\ issued' = issued /\ conn'[h].pc # "relay"
        /\ \A g \in Handlers \ {h} : conn'[g] = conn[g]
    BY <1>1, <1>5 DEF Close, Finish, Idle, storeVars, TypeOK
  <2>2. Service!ServiceNext
    <3>1. {h} \in SUBSET Handlers /\ \A g \in {h} : conn'[g].pc # "relay"
      BY <2>1
    <3>2. QED
      BY <2>1, <3>1, EndImplements
  <2>3. QED
    BY <2>2
<1>6. ASSUME NEW h \in Handlers,
             CheckEnsured(h) \/ AddToIface(h) \/ MarkEnsured(h) \/ DialFails(h)
      PROVE  [Service!ServiceNext]_Service!serviceVars
  <2>1. /\ granted' = granted /\ issued' = issued /\ conn[h].pc \in Setup
        /\ (\E p \in Setup : Goto(h, p)) \/ Finish(h)
    BY <1>6 DEF CheckEnsured, AddToIface, MarkEnsured, DialFails, storeVars, Setup
  <2>2. conn'[h].pc # "relay" /\ \A g \in Handlers \ {h} : conn'[g] = conn[g]
    <3>1. CASE \E p \in Setup : Goto(h, p)
      <4>1. conn[h] \in Active
        BY <1>1, <2>1, AtWork DEF Setup
      <4>2. QED
        BY <1>1, <3>1, <4>1 DEF Goto, Setup, Active, TypeOK
    <3>2. CASE Finish(h)
      BY <1>1, <3>2 DEF Finish, Idle, TypeOK
    <3>3. QED
      BY <2>1, <3>1, <3>2
  <2>3. Relayed' = Relayed
    BY <2>1, <2>2, SetupIsHidden DEF Setup
  <2>4. QED
    BY <2>1, <2>3, Unobserved
<1>7. CASE Crash
  <2>1. granted' = granted /\ issued' = issued /\ \A g \in Handlers : conn'[g].pc # "relay"
    BY <1>7 DEF Crash, Restart, Idle
  <2>2. QED
    BY <2>1, EndImplements
<1>8. ASSUME NEW u \in DOMAIN Seeds, SeedAccount(u)
      PROVE  [Service!ServiceNext]_Service!serviceVars
  <2>1. granted' = granted /\ issued' = issued /\ conn' = conn
    BY <1>8 DEF SeedAccount, Seed, storeVars
  <2>2. QED
    BY <2>1, Unobserved DEF Relayed
<1>9. CASE \/ StartServing \/ ScanEntries \/ ForgetAddr \/ LinkFlap \/ TimePasses
           \/ \E e \in iface \cup reaper.todo : DelFromIface(e)
           \/ UNCHANGED vars
  <2>1. granted' = granted /\ issued' = issued /\ conn' = conn
    BY <1>9 DEF StartServing, ScanEntries, DelFromIface, ForgetAddr, LinkFlap, TimePasses,
                TtlPasses, vars, storeVars, egressVars
  <2>2. QED
    BY <2>1, Unobserved DEF Relayed
<1>10. QED
  BY <1>0, <1>2, <1>3, <1>4, <1>5, <1>6, <1>7, <1>8, <1>9 DEF Next, Handle, ReapRound

LEMMA ServiceInitially == Init => ServiceInv /\ Service!ServiceInit
<1>1. SUFFICES ASSUME Init PROVE ServiceInv /\ Service!ServiceInit
  OBVIOUS
<1>2. \A h \in Handlers : conn[h].pc = "idle"
  BY <1>1 DEF Init, Idle
<1>3. granted = [u \in Users |-> NoAddr] /\ issued = {}
  BY <1>1 DEF Init, StoreInit
<1>4. TypeOK /\ GrantsDurable
  BY <1>1, EgressInitially, DurableInit DEF Init
<1>5. QED
  BY <1>2, <1>3, <1>4 DEF ServiceInv, Answered, SetupsFresh, Setup, Service!ServiceInit

LEMMA ServiceInvariant == Spec => []ServiceInv
<1>1. ServiceInv /\ [Next]_vars => ServiceInv'
  <2>1. ServiceInv /\ [Next]_vars => TypeOK' /\ GrantsDurable'
    BY EgressTypeStep, StepUsesStore, DurableStep DEF ServiceInv, TypeOK
  <2>2. QED
    BY <2>1, ServiceStep
<1>2. QED
  BY <1>1, ServiceInitially, PTL DEF Spec

-----------------------------------------------------------------------------
(* In the running proxy an address answered to one account is never        *)
(* answered to another: what is proved of the store holds under every      *)
(* interleaving of handlers, reaper and restarts.                          *)
THEOREM EgressHasOneOwner ==
  ASSUME SeedsApart, NoWrap, OneNetPerName,
         \A s \in OldFiles : NoShared(s) /\ Placed(s) /\ Homed(s) /\ Counted(s)
  PROVE  Spec => []OneOwner
<1>1. StoreSpec => []OneOwner
  BY AddressesHaveOneOwner
<1>2. QED
  BY <1>1, EgressUsesStore, PTL DEF UsesStore

(* The sticky sessions clients see are those of StickyService: an account  *)
(* is promised an address nobody else ever had, and every connection       *)
(* leaves through the address promised when it was opened.                 *)
THEOREM EgressImplementsService ==
  ASSUME SeedsApart, NoWrap, OneNetPerName,
         \A s \in OldFiles : NoShared(s) /\ Placed(s) /\ Homed(s) /\ Counted(s)
  PROVE  Spec => ImplementsService
<1>1. Spec => []TypeOK /\ []OneOwner
  BY EgressTypeCorrect, EgressHasOneOwner, PTL
<1>2. ServiceInv /\ TypeOK' /\ OneOwner' /\ [Next]_vars
        => [Service!ServiceNext]_Service!serviceVars
  BY ServiceImplemented
<1>3. QED
  BY <1>1, <1>2, ServiceInvariant, ServiceInitially, PTL DEF Spec, ImplementsService, Service!ServiceSpec

-----------------------------------------------------------------------------
(***************************************************************************)
(* What the running proxy promises beyond the store, each with the faults  *)
(* under which it holds: protected accounts are never reaped, no address   *)
(* is left on an interface, and a dial finds its source address there.     *)
(***************************************************************************)
(* A call of Allocate, seen from the records: nobody else's moves, u's own *)
(* stays where it was, and a new one comes from the counter of its tunnel. *)
LEMMA AllocateRecords ==
  ASSUME StoreTypeOK, NEW u \in Users, NEW ok \in BOOLEAN, Allocate(Home[u], u, ok)
  PROVE  /\ mem'.records[u] # NoRec
         /\ \A v \in Users \ {u} : mem'.records[v] = mem.records[v]
         /\ file' = mem' \/ file' = file
         /\ \/ /\ mem.records[u] # NoRec /\ mem' = Touched(mem, u)
            \/ /\ mem.records[u] = NoRec
               /\ \E k \in Nat : Start(mem, Home[u]) + k <= IIDBound /\ mem' = Allocated(mem, Home[u], u, k)
<1>1. mem \in Stores /\ Home[u] \in Tunnels
  BY HomeAssumption DEF StoreTypeOK
<1>2. CASE AllocateKnown(u, ok)
  <2>1. mem.records[u] # NoRec /\ mem' = Touched(mem, u) /\ (file' = mem' \/ file' = file)
    BY <1>2 DEF AllocateKnown, Save
  <2>2. QED
    BY <1>1, <2>1, TouchedHas
<1>3. CASE \E k \in 0 .. Cardinality(Users) : AllocateNew(Home[u], u, k, ok)
  <2>1. PICK k \in Nat : AllocateNew(Home[u], u, k, ok)
    BY <1>3
  <2>2. /\ mem.records[u] = NoRec /\ mem' = Allocated(mem, Home[u], u, k)
        /\ Start(mem, Home[u]) + k <= IIDBound /\ (file' = mem' \/ file' = file)
    BY <2>1 DEF AllocateNew, Save
  <2>3. PICK s \in Stores, t \in Tunnels : s = mem /\ t = Home[u]
    BY <1>1
  <2>4. Allocated(s, t, u, k).records[u] # NoRec
        /\ \A v \in Users \ {u} : Allocated(s, t, u, k).records[v] = s.records[v]
    BY AllocatedHas
  <2>5. QED
    BY <2>2, <2>3, <2>4
<1>4. QED
  BY <1>2, <1>3 DEF Allocate

-----------------------------------------------------------------------------
(* Protected accounts.                                                     *)

(* The reaper has what it needs before it reaps.                           *)
Shielded == reaper.pc = "reap" => DOMAIN Seeds \cup Entries \subseteq reaper.protected

LEMMA ReaperMoves ==
  ASSUME TypeOK, [Next]_vars, reaper'.pc = "reap"
  PROVE  reaper' = reaper \/ ScanEntries
<1>1. ASSUME Reap PROVE FALSE
  BY <1>1 DEF Reap, Asleep
<1>2. ASSUME NEW e, DelFromIface(e) PROVE FALSE
  BY <1>2 DEF DelFromIface, TypeOK, Rounds
<1>3. ASSUME ForgetAddr PROVE FALSE
  BY <1>3 DEF ForgetAddr, Asleep, TypeOK, Rounds
<1>4. ASSUME Crash PROVE FALSE
  BY <1>4 DEF Crash, Asleep
<1>5. ASSUME \/ \E u \in DOMAIN Seeds : SeedAccount(u)
             \/ StartServing \/ TimePasses \/ LinkFlap \/ UNCHANGED vars
             \/ \E h \in Handlers, u \in Users : Resolve(h, u)
             \/ \E h \in Handlers : Handle(h) \/ Close(h)
      PROVE  reaper' = reaper
  BY <1>5 DEF SeedAccount, StartServing, TimePasses, LinkFlap, vars, egressVars, Resolve, Handle,
              Close, CheckEnsured, AddToIface, MarkEnsured, DialOk, DialFails
<1>6. QED
  BY <1>1, <1>2, <1>3, <1>4, <1>5 DEF Next, ReapRound

LEMMA ShieldedStep ==
  ASSUME "scan" \notin Faults, TypeOK, Shielded, [Next]_vars
  PROVE  Shielded'
<1>1. SUFFICES ASSUME reaper'.pc = "reap"
               PROVE  DOMAIN Seeds \cup Entries \subseteq reaper'.protected
  BY DEF Shielded
<1>2. CASE reaper' = reaper
  BY <1>1, <1>2 DEF Shielded
<1>3. CASE ScanEntries
  <2>1. reaper' = [reaper EXCEPT !.pc = "reap", !.protected = DOMAIN Seeds \cup Entries]
    BY <1>3 DEF ScanEntries, Outcomes
  <2>2. QED
    BY <2>1 DEF TypeOK, Rounds
<1>4. QED
  BY <1>1, <1>2, <1>3, ReaperMoves

(* Only the reaper takes a promise back, and of no account it protects.    *)
LEMMA PromisesKept ==
  ASSUME TypeOK, GrantsDurable, Shielded, [Next]_vars,
         NEW u \in DOMAIN Seeds \cup Entries, granted[u] # NoAddr
  PROVE  granted'[u] # NoAddr
<1>1. u \in Users
  BY SeedsAreUsers, HomeAssumption
<1>2. ASSUME NEW h \in Handlers, NEW v \in Users, Resolve(h, v) PROVE granted'[u] # NoAddr
  <2>1. PICK ok \in BOOLEAN : Allocate(Home[v], v, ok)
    BY <1>2 DEF Resolve, SaveOutcomes
  <2> DEFINE a == mem'.records[v].addr
  <2>2. /\ granted[v] # NoAddr => granted[v] = a
        /\ IF ok THEN Grant(v, a) ELSE UNCHANGED <<granted, issued>>
    BY <2>1, AllocateEffect DEF TypeOK
  <2> HIDE DEF a
  <2>3. granted \in [Users -> Addrs \cup {NoAddr}]
    BY DEF TypeOK, StoreTypeOK
  <2>4. QED
    BY <1>1, <2>2, <2>3 DEF Grant
<1>3. CASE Reap
  <2>1. Revoke(Expired(mem, reaper.protected))
    BY <1>3 DEF Reap, ReapIdle
  <2>2. u \notin Expired(mem, reaper.protected)
    BY <1>3 DEF Reap, Shielded, Expired
  <2>3. QED
    BY <1>1, <2>1, <2>2 DEF Revoke
<1>4. ASSUME \/ \E v \in DOMAIN Seeds : SeedAccount(v)
             \/ StartServing \/ Crash \/ TimePasses \/ LinkFlap \/ UNCHANGED vars
             \/ \E h \in Handlers : Handle(h) \/ Close(h)
             \/ ScanEntries \/ ForgetAddr \/ \E e \in iface \cup reaper.todo : DelFromIface(e)
      PROVE  granted' = granted
  BY <1>4 DEF SeedAccount, Seed, StartServing, Crash, Restart, TimePasses, TtlPasses, LinkFlap, vars,
              storeVars, Handle, Close, CheckEnsured, AddToIface, MarkEnsured, DialOk, DialFails,
              ScanEntries, ForgetAddr, DelFromIface
<1>5. QED
  BY <1>2, <1>3, <1>4 DEF Next, ReapRound

(* As long as the sing-box files can be read, no seed and no sing-box      *)
(* entry account loses its address, however long it is idle and whenever   *)
(* the process restarts: reapLoop asks for the entries before every round. *)
THEOREM ProtectedAreKept ==
  ASSUME "scan" \notin Faults
  PROVE  Spec => ProtectedKept
<1>1. Init => Shielded
  BY DEF Init, Asleep, Shielded
<1>2. Spec => []TypeOK
  BY EgressTypeCorrect
<1>3. Spec => []GrantsDurable
  BY EgressUsesStore, GrantsAreDurable, PTL DEF UsesStore
<1>4. TypeOK /\ Shielded /\ [Next]_vars => Shielded'
  BY ShieldedStep
<1>5. TypeOK /\ GrantsDurable /\ Shielded /\ [Next]_vars
        => [\A u \in DOMAIN Seeds \cup Entries : granted[u] # NoAddr => granted'[u] # NoAddr]_vars
  BY PromisesKept
<1>6. QED
  BY <1>1, <1>2, <1>3, <1>4, <1>5, PTL DEF Spec, ProtectedKept

-----------------------------------------------------------------------------
(* Nothing left behind.                                                    *)

(* Accounts on record lie where parseAccount finds their tunnel: none was  *)
(* registered for one tunnel and is served by another.                     *)
AtHome(s) ==
  \A u \in Registered(s) : s.records[u].tun = Home[u].name /\ s.records[u].addr.net = Home[u].net

SeedsAtHome == \A u \in DOMAIN Seeds : Seeds[u].net = Home[u].net

LEMMA AtHomeWithin ==
  ASSUME NEW r, NEW s, Within(r, s), AtHome(s),
         \A u \in Registered(r) : r.records[u].tun = s.records[u].tun
  PROVE  AtHome(r)
BY DEF AtHome, Within

LEMMA AtHomeNew ==
  ASSUME NEW s \in Stores, AtHome(s), NEW u \in Users, NEW n \in Names, NEW a \in Addrs, NEW i \in IIDs,
         n = Home[u].name, a.net = Home[u].net
  PROVE  AtHome(WithRecord(s, u, n, a, i))
<1> DEFINE r == WithRecord(s, u, n, a, i)
<1>1. /\ r.records[u] = [tun |-> n, addr |-> a, used |-> "recent"]
      /\ Registered(r) = Registered(s) \cup {u}
      /\ \A v \in Users \ {u} : r.records[v] = s.records[v]
  BY WithRecordType
<1>2. r.records[u].addr = a /\ r.records[u].tun = n
  BY <1>1
<1> HIDE DEF r
<1>3. \A v \in Registered(r) : v # u => v \in Registered(s) /\ r.records[v] = s.records[v]
  BY <1>1 DEF Registered
<1>4. AtHome(r)
  BY <1>2, <1>3 DEF AtHome
<1>5. QED
  BY <1>4 DEF r

LEMMA AllocateHome ==
  ASSUME StoreTypeOK, AtHome(mem), NEW u \in Users, NEW ok \in BOOLEAN, Allocate(Home[u], u, ok)
  PROVE  AtHome(mem')
<1>1. mem \in Stores /\ Home[u] \in Tunnels
  BY HomeAssumption DEF StoreTypeOK
<1>2. CASE mem.records[u] # NoRec /\ mem' = Touched(mem, u)
  BY <1>1, <1>2, TouchedFrame, AtHomeWithin
<1>3. ASSUME NEW k \in Nat, mem' = Allocated(mem, Home[u], u, k) PROVE AtHome(mem')
  <2>1. AddrAt(mem, Home[u], k) \in Addrs /\ Home[u].name \in Names
    BY <1>1, AddrAtType DEF Names
  <2>2. Wrap(AddrAt(mem, Home[u], k).iid + 1) \in IIDs
    BY <2>1, WrapType DEF Addrs, IIDs
  <2>3. AddrAt(mem, Home[u], k).net = Home[u].net
    BY DEF AddrAt
  <2>4. AtHome(Allocated(mem, Home[u], u, k))
    BY <1>1, <2>1, <2>2, <2>3, AtHomeNew DEF Allocated
  <2>5. QED
    BY <1>3, <2>4
<1>4. QED
  BY <1>2, <1>3, AllocateRecords

(* Both the memory and the file keep accounts at home.                     *)
LEMMA HomeStep ==
  ASSUME OneNetPerName, SeedsAtHome, TypeOK, AtHome(mem), AtHome(file), [Next]_vars
  PROVE  AtHome(mem') /\ AtHome(file')
<1>1. StoreTypeOK /\ mem \in Stores /\ file \in Stores
  BY DEF TypeOK, StoreTypeOK
<1>2. ASSUME NEW u \in DOMAIN Seeds, SeedAccount(u) PROVE AtHome(mem') /\ AtHome(file')
  <2>1. CASE UNCHANGED storeVars
    BY <2>1 DEF storeVars
  <2>2. ASSUME NEW t \in Tunnels, NEW ok, t.net = Seeds[u].net, Seed(t, u, Seeds[u], ok)
        PROVE  AtHome(mem') /\ AtHome(file')
    <3>1. u \in Users /\ Seeds[u] \in Addrs /\ Home[u] \in Tunnels /\ t.name \in Names
      BY ConstantsAssumption, HomeAssumption DEF Names
    <3>2. t.name = Home[u].name /\ Seeds[u].net = Home[u].net
      BY <2>2, <3>1 DEF OneNetPerName, SeedsAtHome
    <3>3. NextAfterSeed(mem, t, Seeds[u].iid) \in IIDs
      BY <1>1, <3>1, WrapType DEF NextAfterSeed, Stores, Addrs, IIDs
    <3>4. AtHome(Seeded(mem, t, u, Seeds[u]))
      BY <1>1, <3>1, <3>2, <3>3, AtHomeNew DEF Seeded
    <3>5. QED
      BY <2>2, <3>4 DEF Seed, Save
  <2>3. QED
    BY <1>2, <2>1, <2>2 DEF SeedAccount
<1>3. ASSUME NEW h \in Handlers, NEW u \in Users, Resolve(h, u) PROVE AtHome(mem') /\ AtHome(file')
  <2>1. PICK ok \in BOOLEAN : Allocate(Home[u], u, ok)
    BY <1>3 DEF Resolve, SaveOutcomes
  <2>2. QED
    BY <1>1, <2>1, AllocateHome, AllocateRecords
<1>4. CASE Reap
  <2> DEFINE gone == Expired(mem, reaper.protected)
  <2>1. UNCHANGED <<mem, file>> \/ \E ok : Save(Without(mem, gone), ok)
    BY <1>4 DEF Reap, ReapIdle
  <2> HIDE DEF gone
  <2>2. AtHome(Without(mem, gone))
    BY <1>1, WithoutFrame, AtHomeWithin
  <2>3. QED
    BY <2>1, <2>2 DEF Save
<1>5. CASE Crash
  <2>1. AtHome(Loaded(file))
    BY <1>1, LoadedFrame, AtHomeWithin
  <2>2. QED
    BY <1>5, <2>1 DEF Crash, Restart
<1>6. CASE TimePasses
  <2>1. AtHome(Aged(mem)) /\ AtHome(Aged(file))
    BY <1>1, AgedFrame, AtHomeWithin
  <2>2. QED
    BY <1>6, <2>1 DEF TimePasses, TtlPasses
<1>7. CASE \/ StartServing \/ LinkFlap \/ UNCHANGED vars \/ ScanEntries \/ ForgetAddr
           \/ \E h \in Handlers : Handle(h) \/ Close(h)
           \/ \E e \in iface \cup reaper.todo : DelFromIface(e)
  <2>1. mem' = mem /\ file' = file
    BY <1>7 DEF StartServing, LinkFlap, vars, storeVars, Handle, Close, CheckEnsured, AddToIface,
                MarkEnsured, DialOk, DialFails, ScanEntries, ForgetAddr, DelFromIface
  <2>2. QED
    BY <2>1
<1>8. QED
  BY <1>2, <1>3, <1>4, <1>5, <1>6, <1>7 DEF Next, ReapRound

(* Every /128 was put on the interface of an account served there.         *)
OnHome == \A e \in iface : \E u \in Users : e[1] = Home[u].name /\ e[2].net = Home[u].net

(* Between rounds the reaper has nothing to clean.                         *)
RoundsApart == reaper.pc \in {"idle", "reap"} => reaper.todo = {}

(* What a handler is about to use is on record.                            *)
LEMMA KeyOnRecord ==
  ASSUME ServiceInv, NEW h \in Handlers, conn[h].pc \in Setup
  PROVE  LET u == conn[h].user IN
         /\ u \in Users /\ u \in Registered(mem)
         /\ Key(h) = <<Home[u].name, mem.records[u].addr>>
         /\ conn[h].addr = mem.records[u].addr
<1>1. TypeOK /\ Fresh(h) /\ GrantsDurable /\ conn[h] \in Active
  BY AtWork DEF ServiceInv, SetupsFresh, Setup
<1>2. PICK u \in Users : conn[h].user = u
  BY <1>1 DEF Active
<1>3. granted[u] # NoAddr /\ granted[u] = conn[h].addr
  BY <1>1, <1>2, SentinelsAssumption DEF Active, Fresh
<1>4. mem.records[u] # NoRec /\ mem.records[u].addr = conn[h].addr
  BY <1>1, <1>2, <1>3 DEF GrantsDurable
<1>5. QED
  BY <1>2, <1>4 DEF Key, Registered

(* Only AddToIface puts anything on an interface.                          *)
LEMMA IfaceGrows ==
  ASSUME [Next]_vars
  PROVE  \/ iface' \subseteq iface
         \/ \E h \in Handlers : AddToIface(h) /\ iface' \subseteq iface \cup {Key(h)}
<1>1. ASSUME NEW h \in Handlers, AddToIface(h) PROVE iface' \subseteq iface \cup {Key(h)}
  BY <1>1 DEF AddToIface
<1>2. ASSUME StartServing \/ Crash \/ LinkFlap PROVE iface' \subseteq iface
  BY <1>2 DEF StartServing, Crash, LinkFlap
<1>3. ASSUME NEW e, DelFromIface(e) PROVE iface' \subseteq iface
  BY <1>3 DEF DelFromIface
<1>4. ASSUME \/ \E u \in DOMAIN Seeds : SeedAccount(u)
             \/ \E h \in Handlers, u \in Users : Resolve(h, u)
             \/ \E h \in Handlers : CheckEnsured(h) \/ MarkEnsured(h) \/ DialOk(h) \/ DialFails(h) \/ Close(h)
             \/ ScanEntries \/ Reap \/ ForgetAddr \/ TimePasses \/ UNCHANGED vars
      PROVE  iface' = iface
  BY <1>4 DEF SeedAccount, Resolve, CheckEnsured, MarkEnsured, DialOk, DialFails, Close, ScanEntries,
              Reap, ForgetAddr, TimePasses, vars, egressVars
<1>5. QED
  BY <1>1, <1>2, <1>3, <1>4 DEF Next, Handle, ReapRound

LEMMA OnHomeStep ==
  ASSUME ServiceInv, AtHome(mem), OnHome, [Next]_vars
  PROVE  OnHome'
<1>1. CASE iface' \subseteq iface
  BY <1>1 DEF OnHome
<1>2. ASSUME NEW h \in Handlers, AddToIface(h), iface' \subseteq iface \cup {Key(h)} PROVE OnHome'
  <2>1. PICK u \in Users : u \in Registered(mem) /\ Key(h) = <<Home[u].name, mem.records[u].addr>>
    BY <1>2, KeyOnRecord DEF AddToIface, Setup
  <2>2. Key(h)[1] = Home[u].name /\ Key(h)[2].net = Home[u].net
    BY <2>1 DEF AtHome
  <2>3. QED
    BY <1>2, <2>2 DEF OnHome
<1>3. QED
  BY <1>1, <1>2, IfaceGrows

LEMMA RoundsStep ==
  ASSUME TypeOK, RoundsApart, [Next]_vars
  PROVE  RoundsApart'
<1>1. CASE ScanEntries
  <2>1. reaper'.todo = reaper.todo /\ reaper.pc = "idle"
    BY <1>1 DEF ScanEntries, TypeOK, Rounds
  <2>2. QED
    BY <2>1 DEF RoundsApart
<1>2. CASE Reap
  BY <1>2 DEF Reap, Asleep, RoundsApart
<1>3. ASSUME NEW e, DelFromIface(e) PROVE RoundsApart'
  BY <1>3 DEF DelFromIface, RoundsApart, TypeOK, Rounds
<1>4. CASE ForgetAddr
  BY <1>4 DEF ForgetAddr, RoundsApart, Asleep, TypeOK, Rounds
<1>5. CASE Crash
  BY <1>5 DEF Crash, Asleep, RoundsApart
<1>6. ASSUME \/ \E u \in DOMAIN Seeds : SeedAccount(u)
             \/ StartServing \/ TimePasses \/ LinkFlap \/ UNCHANGED vars
             \/ \E h \in Handlers, u \in Users : Resolve(h, u)
             \/ \E h \in Handlers : Handle(h) \/ Close(h)
      PROVE  reaper' = reaper
  BY <1>6 DEF SeedAccount, StartServing, TimePasses, LinkFlap, vars, egressVars, Resolve, Handle,
              Close, CheckEnsured, AddToIface, MarkEnsured, DialOk, DialFails
<1>7. QED
  BY <1>1, <1>2, <1>3, <1>4, <1>5, <1>6 DEF Next, ReapRound, RoundsApart

(* Records that stay keep their address: nothing becomes stray.            *)
LEMMA RecordsStay ==
  ASSUME Within(mem, mem')
  PROVE  AddrsIn(mem) \subseteq AddrsIn(mem')
BY DEF Within, AddrsIn

(* What the reaper removes from the store it has on its list.              *)
LEMMA ReapedListed ==
  ASSUME TypeOK, OneNetPerName, AtHome(mem), OnHome, RoundsApart, Reap,
         NEW e \in iface, e[2] \in AddrsIn(mem)
  PROVE  e[2] \in AddrsIn(mem') \/ e \in reaper'.todo
<1> DEFINE gone == Expired(mem, reaper.protected)
           left == {<<mem.records[u].tun, mem.records[u].addr>> : u \in gone}
<1>1. PICK u \in Registered(mem) : mem.records[u].addr = e[2]
  BY DEF AddrsIn
<1>2. mem \in Stores /\ gone \subseteq Registered(mem)
  BY DEF TypeOK, StoreTypeOK, Expired
<1>3. mem' = Without(mem, gone) \/ mem' = mem
  BY DEF Reap, ReapIdle, Save
<1>4. reaper' = IF left = {} THEN Asleep ELSE [Asleep EXCEPT !.pc = "clean", !.todo = left]
  BY DEF Reap
<1> HIDE DEF gone
<1>5. CASE u \notin gone
  <2>1. u \in Registered(mem') /\ mem'.records[u] = mem.records[u]
    BY <1>2, <1>3, <1>5 DEF Without, Stores, Registered
  <2>2. QED
    BY <1>1, <2>1 DEF AddrsIn
<1>6. CASE u \in gone
  <2>1. PICK v \in Users : e[1] = Home[v].name /\ e[2].net = Home[v].net
    BY DEF OnHome
  <2>2. mem.records[u].tun = Home[u].name /\ mem.records[u].addr.net = Home[u].net /\ u \in Users
    BY <1>1 DEF AtHome, Registered
  <2>3. Home[v].name = Home[u].name
    BY <1>1, <2>1, <2>2, HomeAssumption DEF OneNetPerName
  <2>4. e = <<e[1], e[2]>>
    BY DEF TypeOK, OnIface
  <2>5. e \in left
    BY <1>1, <1>6, <2>1, <2>2, <2>3, <2>4
  <2> HIDE DEF left
  <2>6. reaper'.todo = left
    BY <1>4, <2>5 DEF Asleep
  <2>7. QED
    BY <2>5, <2>6
<1>7. QED
  BY <1>5, <1>6

StrayInv == AtHome(mem) /\ AtHome(file) /\ OnHome /\ RoundsApart /\ NoStrayAddr

LEMMA NoStrayStep ==
  ASSUME "del" \notin Faults, OneNetPerName, ServiceInv, TypeOK', StrayInv, [Next]_vars
  PROVE  NoStrayAddr'
<1>1. TypeOK /\ StoreTypeOK /\ mem \in Stores
  BY DEF ServiceInv, TypeOK, StoreTypeOK
<1>2. SUFFICES ASSUME phase' = "serving", NEW e \in iface'
               PROVE  e[2] \in AddrsIn(mem') \/ e \in reaper'.todo
  BY DEF NoStrayAddr
<1>3. CASE StartServing
  BY <1>2, <1>3 DEF StartServing, Stale, storeVars
<1>4. CASE Crash \/ \E u \in DOMAIN Seeds : SeedAccount(u)
  BY <1>2, <1>4 DEF Crash, SeedAccount
<1>5. ASSUME NEW h \in Handlers, NEW u \in Users, Resolve(h, u)
      PROVE  e[2] \in AddrsIn(mem') \/ e \in reaper'.todo
  <2>1. PICK ok \in BOOLEAN : Allocate(Home[u], u, ok)
    BY <1>5 DEF Resolve, SaveOutcomes
  <2>2. /\ mem'.records[u] # NoRec /\ \A v \in Users \ {u} : mem'.records[v] = mem.records[v]
        /\ (mem.records[u] # NoRec /\ mem' = Touched(mem, u)) \/ mem.records[u] = NoRec
    BY <1>1, <2>1, AllocateRecords
  <2>3. mem.records[u] # NoRec => mem'.records[u].addr = mem.records[u].addr
    BY <1>1, <2>2, TouchedHas
  <2>4. Within(mem, mem')
    BY <2>2, <2>3 DEF Within, Registered
  <2>5. phase = "serving" /\ iface' = iface /\ reaper' = reaper
    BY <1>5 DEF Resolve
  <2>6. QED
    BY <1>2, <2>4, <2>5, RecordsStay DEF StrayInv, NoStrayAddr
<1>6. CASE Reap
  <2>1. phase = "serving" /\ iface' = iface /\ reaper.todo = {}
    BY <1>2, <1>6 DEF Reap, StrayInv, RoundsApart
  <2>2. QED
    BY <1>1, <1>2, <1>6, <2>1, ReapedListed DEF StrayInv, NoStrayAddr
<1>7. ASSUME NEW d \in iface \cup reaper.todo, DelFromIface(d)
      PROVE  e[2] \in AddrsIn(mem') \/ e \in reaper'.todo
  <2>1. iface' = iface \ {d} /\ phase' = phase /\ mem' = mem
    BY <1>7 DEF DelFromIface, Outcomes, storeVars
  <2>2. reaper' = [reaper EXCEPT !.pc = "forget", !.todo = reaper.todo \ {d}, !.cur = d]
    BY <1>7 DEF DelFromIface
  <2>3. reaper'.todo = reaper.todo \ {d}
    BY <1>1, <2>2 DEF TypeOK, Rounds
  <2>4. QED
    BY <1>2, <2>1, <2>3 DEF StrayInv, NoStrayAddr
<1>8. CASE ForgetAddr
  <2>1. iface' = iface /\ phase' = phase /\ mem' = mem
    BY <1>8 DEF ForgetAddr, storeVars
  <2>2. reaper'.todo = reaper.todo
    BY <1>1, <1>8 DEF ForgetAddr, Asleep, TypeOK, Rounds
  <2>3. QED
    BY <1>2, <2>1, <2>2 DEF StrayInv, NoStrayAddr
<1>9. CASE TimePasses
  <2>1. mem' = Aged(mem) /\ UNCHANGED egressVars
    BY <1>9 DEF TimePasses, TtlPasses
  <2>2. Within(mem, mem')
    BY <1>1, <2>1, AgedType
  <2>3. QED
    BY <1>2, <2>1, <2>2, RecordsStay DEF egressVars, StrayInv, NoStrayAddr
<1>10. ASSUME NEW h \in Handlers, AddToIface(h)
       PROVE  e[2] \in AddrsIn(mem') \/ e \in reaper'.todo
  <2>1. PICK u \in Users : u \in Registered(mem) /\ Key(h) = <<Home[u].name, mem.records[u].addr>>
    BY <1>10, KeyOnRecord DEF AddToIface, Setup
  <2>2. Key(h)[2] \in AddrsIn(mem)
    BY <2>1 DEF AddrsIn
  <2>3. mem' = mem /\ phase' = phase /\ reaper' = reaper /\ iface' \subseteq iface \cup {Key(h)}
    BY <1>10 DEF AddToIface, storeVars
  <2>4. QED
    BY <1>2, <2>2, <2>3 DEF StrayInv, NoStrayAddr
<1>11. CASE \/ LinkFlap \/ UNCHANGED vars
            \/ \E h \in Handlers : CheckEnsured(h) \/ MarkEnsured(h) \/ DialOk(h) \/ DialFails(h) \/ Close(h)
  <2>1. mem' = mem /\ phase' = phase /\ reaper' = reaper /\ iface' \subseteq iface
    BY <1>11 DEF LinkFlap, vars, egressVars, storeVars, CheckEnsured, MarkEnsured, DialOk, DialFails, Close
  <2>2. QED
    BY <1>2, <2>1 DEF StrayInv, NoStrayAddr
<1>12. CASE ScanEntries
  <2>1. mem' = mem /\ phase' = phase /\ iface' = iface /\ reaper'.todo = reaper.todo
    BY <1>1, <1>12 DEF ScanEntries, storeVars, TypeOK, Rounds
  <2>2. QED
    BY <1>2, <2>1 DEF StrayInv, NoStrayAddr
<1>13. QED
  BY <1>3, <1>4, <1>5, <1>6, <1>7, <1>8, <1>9, <1>10, <1>11, <1>12 DEF Next, Handle, ReapRound

(* If ip addr del does what it is told, every /128 on an interface of the  *)
(* serving proxy is of an account on record or on the reaper's list: none  *)
(* stays behind reaped accounts, refused connections or crashes, provided  *)
(* accounts were registered for the tunnel that serves them.               *)
THEOREM NothingStray ==
  ASSUME "del" \notin Faults, OneNetPerName, SeedsAtHome, \A s \in OldFiles : AtHome(s)
  PROVE  Spec => []NoStrayAddr
<1>1. Init => StrayInv
  <2>1. SUFFICES ASSUME Init PROVE StrayInv
    OBVIOUS
  <2>2. file \in Stores /\ AtHome(file) /\ mem = Loaded(file)
    BY <2>1, OldFilesAssumption DEF Init, StoreInit
  <2>3. AtHome(mem)
    BY <2>2, LoadedFrame, AtHomeWithin
  <2>4. QED
    BY <2>1, <2>2, <2>3 DEF Init, StrayInv, OnHome, RoundsApart, NoStrayAddr, Asleep
<1>2. ServiceInv /\ TypeOK' /\ StrayInv /\ [Next]_vars => StrayInv'
  <2>1. SUFFICES ASSUME ServiceInv, TypeOK', StrayInv, [Next]_vars PROVE StrayInv'
    OBVIOUS
  <2>2. TypeOK
    BY <2>1 DEF ServiceInv
  <2>3. AtHome(mem') /\ AtHome(file')
    BY <2>1, <2>2, HomeStep DEF StrayInv
  <2>4. OnHome' /\ RoundsApart' /\ NoStrayAddr'
    BY <2>1, <2>2, OnHomeStep, RoundsStep, NoStrayStep DEF StrayInv
  <2>5. QED
    BY <2>3, <2>4 DEF StrayInv, AtHome, Registered
<1>3. StrayInv => NoStrayAddr
  BY DEF StrayInv
<1>4. QED
  BY <1>1, <1>2, <1>3, ServiceInvariant, EgressTypeCorrect, PTL DEF Spec

-----------------------------------------------------------------------------
(* A dial finds its address.                                               *)

(* Seeds are never reaped; before the proxy serves nothing is cached and   *)
(* nobody connects.                                                        *)
SeedsShielded == reaper.pc = "reap" => DOMAIN Seeds \subseteq reaper.protected

Starting == phase = "seeding" => ensured = {} /\ \A h \in Handlers : conn[h].pc = "idle"

(* The keys the reaper still takes off the interface or out of the cache.  *)
Pending == reaper.todo \cup (IF reaper.pc = "forget" THEN {reaper.cur} ELSE {})

(* An address nobody has and nobody will get: the counters are past it.    *)
Retired(a, s) ==
  /\ a \in StickyZone /\ a \notin AddrsIn(s)
  /\ \A t \in Tunnels : t.net = a.net => s.next[t.name] > a.iid

PendingRetired == \A e \in Pending : Retired(e[2], mem)

(* What is cached is on the interface, but for what is being forgotten.    *)
Cached == ensured \subseteq iface \cup (IF reaper.pc = "forget" THEN {reaper.cur} ELSE {})

Added == \A h \in Handlers : conn[h].pc \in {"mark", "dial"} => Key(h) \in iface

BindInv == SeedsShielded /\ Starting /\ PendingRetired /\ Cached /\ Added

(* Everybody in a set-up uses an address on record, so none is pending.    *)
LEMMA NotPending ==
  ASSUME ServiceInv, PendingRetired, NEW h \in Handlers, conn[h].pc \in Setup
  PROVE  Key(h) \notin Pending
<1>1. PICK u \in Users : u \in Registered(mem) /\ Key(h) = <<Home[u].name, mem.records[u].addr>>
  BY KeyOnRecord
<1>2. Key(h)[2] \in AddrsIn(mem)
  BY <1>1 DEF AddrsIn
<1>3. QED
  BY <1>2 DEF PendingRetired, Retired

LEMMA SeedsShieldedStep ==
  ASSUME TypeOK, SeedsShielded, [Next]_vars
  PROVE  SeedsShielded'
<1>1. SUFFICES ASSUME reaper'.pc = "reap" PROVE DOMAIN Seeds \subseteq reaper'.protected
  BY DEF SeedsShielded
<1>2. CASE reaper' = reaper
  BY <1>1, <1>2 DEF SeedsShielded
<1>3. CASE ScanEntries
  <2>1. PICK guarded : /\ DOMAIN Seeds \subseteq guarded
                       /\ reaper' = [reaper EXCEPT !.pc = "reap", !.protected = guarded]
    BY <1>3 DEF ScanEntries
  <2>2. QED
    BY <2>1 DEF TypeOK, Rounds
<1>4. QED
  BY <1>1, <1>2, <1>3, ReaperMoves

LEMMA StartingStep ==
  ASSUME TypeOK, Starting, [Next]_vars
  PROVE  Starting'
<1>1. SUFFICES ASSUME phase' = "seeding" PROVE ensured' = {} /\ \A h \in Handlers : conn'[h].pc = "idle"
  BY DEF Starting
<1>2. CASE Crash
  BY <1>2 DEF Crash, Idle
<1>3. CASE StartServing
  BY <1>1, <1>3 DEF StartServing
<1>4. ASSUME NEW h \in Handlers, NEW u \in Users, Resolve(h, u) PROVE FALSE
  BY <1>1, <1>4 DEF Resolve
<1>5. ASSUME NEW h \in Handlers, Handle(h) \/ Close(h) PROVE FALSE
  <2>1. conn[h].pc # "idle" /\ phase' = phase
    BY <1>5 DEF Handle, Close, CheckEnsured, AddToIface, MarkEnsured, DialOk, DialFails
  <2>2. QED
    BY <1>1, <2>1 DEF Starting
<1>6. CASE \/ \E u \in DOMAIN Seeds : SeedAccount(u)
           \/ ReapRound \/ TimePasses \/ LinkFlap \/ UNCHANGED vars
  <2>1. phase' = phase /\ conn' = conn /\ ensured' \subseteq ensured
    BY <1>6 DEF SeedAccount, ReapRound, ScanEntries, Reap, DelFromIface, ForgetAddr, TimePasses, LinkFlap,
                vars, egressVars
  <2>2. QED
    BY <1>1, <2>1 DEF Starting
<1>7. QED
  BY <1>2, <1>3, <1>4, <1>5, <1>6 DEF Next

(* Pending keys: none comes but by reaping.                                *)
LEMMA PendingMoves ==
  ASSUME TypeOK, [Next]_vars
  PROVE  Pending' \subseteq Pending \/ Reap
<1>1. ASSUME NEW e \in iface \cup reaper.todo, DelFromIface(e) PROVE Pending' \subseteq Pending
  <2>1. reaper' = [reaper EXCEPT !.pc = "forget", !.todo = reaper.todo \ {e}, !.cur = e] /\ e \in reaper.todo
    BY <1>1 DEF DelFromIface
  <2>2. reaper'.todo = reaper.todo \ {e} /\ reaper'.cur = e
    BY <2>1 DEF TypeOK, Rounds
  <2>3. QED
    BY <2>1, <2>2 DEF Pending
<1>2. ASSUME ForgetAddr PROVE Pending' \subseteq Pending
  <2>1. CASE reaper.todo = {}
    BY <1>2, <2>1 DEF ForgetAddr, Asleep, Pending
  <2>2. CASE reaper.todo # {}
    <3>1. reaper' = [reaper EXCEPT !.pc = "clean", !.cur = <<>>]
      BY <1>2, <2>2 DEF ForgetAddr
    <3>2. reaper'.todo = reaper.todo /\ reaper'.pc = "clean"
      BY <3>1 DEF TypeOK, Rounds
    <3>3. QED
      BY <3>2 DEF Pending
  <2>3. QED
    BY <2>1, <2>2
<1>3. ASSUME Crash PROVE Pending' \subseteq Pending
  BY <1>3 DEF Crash, Asleep, Pending
<1>4. ASSUME ScanEntries PROVE Pending' \subseteq Pending
  <2>1. reaper'.todo = reaper.todo /\ reaper'.pc = "reap"
    BY <1>4 DEF ScanEntries, TypeOK, Rounds
  <2>2. QED
    BY <2>1 DEF Pending
<1>5. ASSUME \/ \E u \in DOMAIN Seeds : SeedAccount(u)
             \/ StartServing \/ TimePasses \/ LinkFlap \/ UNCHANGED vars
             \/ \E h \in Handlers, u \in Users : Resolve(h, u)
             \/ \E h \in Handlers : Handle(h) \/ Close(h)
      PROVE  reaper' = reaper
  BY <1>5 DEF SeedAccount, StartServing, TimePasses, LinkFlap, vars, egressVars, Resolve, Handle,
              Close, CheckEnsured, AddToIface, MarkEnsured, DialOk, DialFails
<1>6. QED
  BY <1>1, <1>2, <1>3, <1>4, <1>5 DEF Next, ReapRound, Pending

(* A store that adds no retired address and takes no counter back.         *)
LEMMA RetiredStays ==
  ASSUME NEW s \in Stores, NEW r \in Stores, NEW a, Retired(a, s), a \notin AddrsIn(r),
         \A n \in Names : r.next[n] >= s.next[n]
  PROVE  Retired(a, r)
<1>1. a.iid \in Nat
  BY DEF Retired, StickyZone, Addrs, IIDs
<1>2. \A n \in Names : s.next[n] \in Nat /\ r.next[n] \in Nat
  BY DEF Stores, IIDs
<1>3. QED
  BY <1>1, <1>2 DEF Retired, Names

LEMMA RetiredWithin ==
  ASSUME NEW s \in Stores, NEW r \in Stores, NEW a, Retired(a, s), Within(r, s), r.next = s.next
  PROVE  Retired(a, r)
BY DEF Retired, Within, AddrsIn

(* A new record at an address that is not a's own.                         *)
LEMMA RetiredNew ==
  ASSUME NEW s \in Stores, NEW a, Retired(a, s), NEW u \in Users, NEW n \in Names,
         NEW b \in Addrs, b # a, NEW i \in IIDs, i >= s.next[n]
  PROVE  Retired(a, WithRecord(s, u, n, b, i))
<1> DEFINE r == WithRecord(s, u, n, b, i)
<1>1. /\ r \in Stores /\ r.records[u] = [tun |-> n, addr |-> b, used |-> "recent"]
      /\ Registered(r) = Registered(s) \cup {u}
      /\ \A v \in Users \ {u} : r.records[v] = s.records[v]
  BY WithRecordType
<1>2. r.records[u].addr = b
  BY <1>1
<1>3. r.next = [s.next EXCEPT ![n] = i] /\ s.next \in [Names -> IIDs]
  BY DEF WithRecord, Stores
<1>4. \A m \in Names : r.next[m] >= s.next[m]
  BY <1>3 DEF IIDs
<1> HIDE DEF r
<1>5. a \notin AddrsIn(r)
  BY <1>1, <1>2 DEF Retired, AddrsIn, Registered
<1>6. Retired(a, r)
  BY <1>1, <1>4, <1>5, RetiredStays
<1>7. QED
  BY <1>6 DEF r

LEMMA RetiredAllocate ==
  ASSUME NoWrap, StoreTypeOK, NEW u \in Users, NEW ok \in BOOLEAN, Allocate(Home[u], u, ok),
         NEW a, Retired(a, mem)
  PROVE  Retired(a, mem')
<1>1. mem \in Stores /\ Home[u] \in Tunnels /\ Home[u].name \in Names
  BY HomeAssumption DEF StoreTypeOK, Names
<1>2. CASE mem.records[u] # NoRec /\ mem' = Touched(mem, u)
  BY <1>1, <1>2, TouchedType, TouchedFrame, RetiredWithin
<1>3. ASSUME NEW k \in Nat, Start(mem, Home[u]) + k <= IIDBound, mem' = Allocated(mem, Home[u], u, k)
      PROVE  Retired(a, mem')
  <2> DEFINE b == AddrAt(mem, Home[u], k)
             n == Home[u].name
  <2>1. b \in Addrs /\ b.net = Home[u].net /\ b.iid = Start(mem, Home[u]) + k /\ Wrap(b.iid + 1) = b.iid + 1
    BY <1>1, <1>3, AddrAtType, NoWrapAddr
  <2>2. Wrap(b.iid + 1) \in IIDs
    BY <2>1, WrapType DEF Addrs, IIDs
  <2>3. /\ mem.next[n] \in Nat /\ Start(mem, Home[u]) \in Nat
        /\ Start(mem, Home[u]) >= mem.next[n]
    <3>1. mem.next[n] \in Nat /\ Home[u].sticky \in Nat
      BY <1>1, ConstantsAssumption DEF Stores, IIDs
    <3>2. QED
      BY <3>1 DEF Start
  <2> HIDE DEF b
  <2>4. b # a
    <3>1. SUFFICES ASSUME b = a PROVE FALSE
      OBVIOUS
    <3>2. mem.next[n] > b.iid
      BY <1>1, <2>1, <3>1 DEF Retired
    <3>3. QED
      BY <2>1, <2>3, <3>2
  <2>5. Wrap(b.iid + 1) >= mem.next[n]
    BY <2>1, <2>3
  <2> HIDE DEF n
  <2>6. n \in Names
    BY <1>1 DEF n
  <2>7. Retired(a, WithRecord(mem, u, n, b, Wrap(b.iid + 1)))
    BY <1>1, <2>1, <2>2, <2>4, <2>5, <2>6, RetiredNew
  <2>8. QED
    BY <1>3, <2>7 DEF Allocated, b, n
<1>4. QED
  BY <1>2, <1>3, AllocateRecords

LEMMA RetiredSeed ==
  ASSUME SeedsApart, NoWrap, StoreTypeOK, NEW u \in DOMAIN Seeds, NEW t \in Tunnels, NEW ok,
         t.net = Seeds[u].net, Seed(t, u, Seeds[u], ok), NEW a, Retired(a, mem)
  PROVE  Retired(a, mem')
<1>1. mem \in Stores /\ u \in Users /\ Seeds[u] \in Addrs /\ t.name \in Names
  BY ConstantsAssumption DEF StoreTypeOK, Names
<1>2. Seeds[u] \notin StickyZone /\ a \in StickyZone
  BY DEF SeedsApart, Retired
<1>3. Seeds[u].iid < t.sticky
  BY <1>1, <1>2, ConstantsAssumption DEF StickyZone, Addrs, IIDs
<1>4. NextAfterSeed(mem, t, Seeds[u].iid) = mem.next[t.name] /\ mem.next[t.name] \in IIDs
  BY <1>1, <1>3, ConstantsAssumption DEF NextAfterSeed, Stores, Addrs, IIDs
<1>5. mem.next[t.name] >= mem.next[t.name]
  BY <1>4 DEF IIDs
<1>6. Retired(a, Seeded(mem, t, u, Seeds[u]))
  BY <1>1, <1>2, <1>4, <1>5, RetiredNew DEF Seeded
<1>7. QED
  BY <1>6 DEF Seed, Save

(* What ReapIdle removes is retired: not a seed, not shared, counted.      *)
LEMMA ReapRetires ==
  ASSUME TypeOK, OwnerInv, SeedsShielded, PendingRetired, Reap
  PROVE  PendingRetired'
<1> DEFINE gone == Expired(mem, reaper.protected)
           left == {<<mem.records[u].tun, mem.records[u].addr>> : u \in gone}
<1>1. mem \in Stores /\ Orderly(mem) /\ gone \subseteq Registered(mem) \ reaper.protected
  BY DEF TypeOK, StoreTypeOK, OwnerInv, Expired
<1>2. DOMAIN Seeds \subseteq reaper.protected
  BY DEF Reap, SeedsShielded
<1>3. mem' = Without(mem, gone) \/ (mem' = mem /\ gone = {})
  BY DEF Reap, ReapIdle, Save
<1>4. reaper' = IF left = {} THEN Asleep ELSE [Asleep EXCEPT !.pc = "clean", !.todo = left]
  BY DEF Reap
<1>5. Pending' \subseteq left
  BY <1>4 DEF Asleep, Pending
<1> HIDE DEF gone
<1>6. ASSUME NEW u \in gone PROVE Retired(mem.records[u].addr, mem')
  <2>1. mem' = Without(mem, gone) /\ u \in Registered(mem)
    BY <1>1, <1>3, <1>6
  <2>2. mem.records[u].addr \in StickyZone
    BY <1>1, <1>2, <1>6 DEF Orderly, Sound, Placed
  <2>3. \A t \in Tunnels : t.net = mem.records[u].addr.net => mem.next[t.name] > mem.records[u].addr.iid
    BY <1>1, <2>1, <2>2 DEF Orderly, Counted
  <2>4. mem'.next = mem.next /\ Within(mem', mem)
    BY <1>1, <2>1, WithoutFrame
  <2>5. u \notin Registered(mem')
    BY <1>1, <1>6, <2>1 DEF Without, Stores, Registered
  <2>6. mem.records[u].addr \notin AddrsIn(mem')
    BY <1>1, <2>1, <2>4, <2>5 DEF AddrsIn, Within, Orderly, Sound, NoShared
  <2>7. QED
    BY <2>2, <2>3, <2>4, <2>6 DEF Retired
<1>7. QED
  BY <1>5, <1>6 DEF PendingRetired

LEMMA RetiredStep ==
  ASSUME SeedsApart, NoWrap, TypeOK, OwnerInv, SeedsShielded, PendingRetired, [Next]_vars
  PROVE  PendingRetired'
<1>1. StoreTypeOK /\ mem \in Stores
  BY DEF TypeOK, StoreTypeOK
<1>2. CASE Reap
  BY <1>2, ReapRetires
<1>3. CASE Crash
  <2>1. Pending' = {}
    BY <1>3 DEF Crash, Asleep, Pending
  <2>2. QED
    BY <2>1 DEF PendingRetired
<1>4. ASSUME Pending' \subseteq Pending, \A e \in Pending : Retired(e[2], mem')
      PROVE  PendingRetired'
  BY <1>4 DEF PendingRetired, Retired
<1>5. ASSUME NEW e \in Pending, ~Reap, ~Crash PROVE Retired(e[2], mem')
  <2>1. Retired(e[2], mem)
    BY <1>5 DEF PendingRetired
  <2>2. ASSUME NEW u \in DOMAIN Seeds, SeedAccount(u) PROVE Retired(e[2], mem')
    BY <1>1, <2>1, <2>2, RetiredSeed DEF SeedAccount, storeVars
  <2>3. ASSUME NEW h \in Handlers, NEW u \in Users, Resolve(h, u) PROVE Retired(e[2], mem')
    <3>1. PICK ok \in BOOLEAN : Allocate(Home[u], u, ok)
      BY <2>3 DEF Resolve, SaveOutcomes
    <3>2. QED
      BY <1>1, <2>1, <3>1, RetiredAllocate
  <2>4. CASE TimePasses
    <3>1. mem' = Aged(mem)
      BY <2>4 DEF TimePasses, TtlPasses
    <3>2. QED
      BY <1>1, <2>1, <3>1, AgedType, AgedFrame, RetiredWithin
  <2>5. CASE \/ StartServing \/ LinkFlap \/ UNCHANGED vars \/ ScanEntries \/ ForgetAddr
             \/ \E h \in Handlers : Handle(h) \/ Close(h)
             \/ \E d \in iface \cup reaper.todo : DelFromIface(d)
    <3>1. mem' = mem
      BY <2>5 DEF StartServing, LinkFlap, vars, storeVars, Handle, Close, CheckEnsured, AddToIface,
                  MarkEnsured, DialOk, DialFails, ScanEntries, ForgetAddr, DelFromIface
    <3>2. QED
      BY <2>1, <3>1
  <2>6. QED
    BY <1>5, <2>2, <2>3, <2>4, <2>5 DEF Next, ReapRound
<1>6. QED
  BY <1>2, <1>3, <1>4, <1>5, PendingMoves

(* The cache and the interface, step by step.                              *)
LEMMA CachedStep ==
  ASSUME "flap" \notin Faults, ServiceInv, BindInv, [Next]_vars
  PROVE  Cached'
<1>1. TypeOK
  BY DEF ServiceInv
<1>2. ASSUME NEW h \in Handlers, MarkEnsured(h) PROVE Cached'
  <2>1. Key(h) \in iface
    BY <1>2 DEF MarkEnsured, BindInv, Added
  <2>2. ensured' = ensured \cup {Key(h)} /\ iface' = iface /\ reaper' = reaper
    BY <1>2 DEF MarkEnsured
  <2>3. QED
    BY <2>1, <2>2 DEF BindInv, Cached
<1>3. ASSUME NEW e \in iface \cup reaper.todo, DelFromIface(e) PROVE Cached'
  <2>1. /\ reaper.pc = "clean" /\ ensured' = ensured /\ iface \ {e} \subseteq iface'
        /\ reaper' = [reaper EXCEPT !.pc = "forget", !.todo = reaper.todo \ {e}, !.cur = e]
    BY <1>3 DEF DelFromIface
  <2>2. reaper'.pc = "forget" /\ reaper'.cur = e
    BY <1>1, <2>1 DEF TypeOK, Rounds
  <2>3. ensured \subseteq iface
    BY <2>1 DEF BindInv, Cached
  <2>4. QED
    BY <2>1, <2>2, <2>3 DEF Cached
<1>4. CASE ForgetAddr
  BY <1>4 DEF ForgetAddr, BindInv, Cached
<1>5. CASE StartServing \/ Crash
  <2>1. ensured' = {}
    BY <1>5 DEF StartServing, Crash, BindInv, Starting
  <2>2. QED
    BY <2>1 DEF Cached
<1>6. CASE ScanEntries \/ Reap
  <2>1. ensured' = ensured /\ iface' = iface /\ reaper.pc # "forget"
    BY <1>6 DEF ScanEntries, Reap
  <2>2. QED
    BY <2>1 DEF BindInv, Cached
<1>7. CASE \/ \E u \in DOMAIN Seeds : SeedAccount(u)
           \/ \E h \in Handlers, u \in Users : Resolve(h, u)
           \/ \E h \in Handlers : CheckEnsured(h) \/ AddToIface(h) \/ DialOk(h) \/ DialFails(h) \/ Close(h)
           \/ TimePasses \/ UNCHANGED vars
  <2>1. ensured' = ensured /\ iface \subseteq iface' /\ reaper' = reaper
    BY <1>7 DEF SeedAccount, Resolve, CheckEnsured, AddToIface, DialOk, DialFails, Close, TimePasses, vars,
                egressVars
  <2>2. QED
    BY <2>1 DEF BindInv, Cached
<1>8. QED
  BY <1>2, <1>3, <1>4, <1>5, <1>6, <1>7 DEF Next, Handle, ReapRound, LinkFlap

(* Nobody in a set-up sees its address go from the interface.              *)
LEMMA InSetupStays ==
  ASSUME "flap" \notin Faults, ServiceInv, BindInv, [Next]_vars,
         NEW h \in Handlers, conn[h].pc \in Setup, conn'[h].pc \in Setup, Key(h) \in iface
  PROVE  Key(h) \in iface'
<1>1. CASE Crash
  BY <1>1 DEF Crash, Idle, Setup
<1>2. CASE StartServing
  <2>1. PICK u \in Users : u \in Registered(mem) /\ Key(h) = <<Home[u].name, mem.records[u].addr>>
    BY KeyOnRecord
  <2>2. Key(h) \notin Stale
    BY <2>1 DEF Stale, AddrsIn
  <2>3. QED
    BY <1>2, <2>2 DEF StartServing
<1>3. ASSUME NEW e \in iface \cup reaper.todo, DelFromIface(e) PROVE Key(h) \in iface'
  <2>1. e \in reaper.todo /\ iface \ {e} \subseteq iface'
    BY <1>3 DEF DelFromIface
  <2>2. Key(h) # e
    BY <2>1, NotPending DEF BindInv, Pending
  <2>3. QED
    BY <2>1, <2>2
<1>4. CASE \/ \E u \in DOMAIN Seeds : SeedAccount(u)
           \/ \E g \in Handlers, u \in Users : Resolve(g, u)
           \/ \E g \in Handlers : Handle(g) \/ Close(g)
           \/ ScanEntries \/ Reap \/ ForgetAddr \/ TimePasses \/ UNCHANGED vars
  BY <1>4 DEF SeedAccount, Resolve, Handle, CheckEnsured, AddToIface, MarkEnsured, DialOk, DialFails, Close,
              ScanEntries, Reap, ForgetAddr, TimePasses, vars, egressVars
<1>5. QED
  BY <1>1, <1>2, <1>3, <1>4 DEF Next, ReapRound, LinkFlap

(* A handler moves by a step of its own.                                   *)
LEMMA OthersStay ==
  ASSUME TypeOK, NEW h \in Handlers, NEW g \in Handlers, g # h, Handle(h) \/ Close(h)
  PROVE  conn'[g] = conn[g]
BY DEF Handle, Close, CheckEnsured, AddToIface, MarkEnsured, DialOk, DialFails, Goto, Finish, TypeOK

LEMMA AddedStep ==
  ASSUME "flap" \notin Faults, ServiceInv, BindInv, [Next]_vars
  PROVE  Added'
<1>1. TypeOK
  BY DEF ServiceInv
<1>2. SUFFICES ASSUME NEW h \in Handlers, conn'[h].pc \in {"mark", "dial"} PROVE Key(h)' \in iface'
  BY DEF Added
<1>3. CASE conn'[h] = conn[h]
  <2>1. Key(h)' = Key(h) /\ conn[h].pc \in Setup /\ conn'[h].pc \in Setup
    BY <1>2, <1>3 DEF Key, Setup
  <2>2. Key(h) \in iface
    BY <1>2, <1>3 DEF BindInv, Added
  <2>3. QED
    BY <1>3, <2>1, <2>2, InSetupStays
<1>4. ASSUME NEW p \in Setup \cup {"relay"}, Goto(h, p), conn[h].pc # "idle"
      PROVE  Key(h)' = Key(h) /\ conn'[h].pc = p
  <2>1. conn[h] \in Active
    BY <1>1, <1>4, AtWork
  <2>2. conn'[h] = [conn[h] EXCEPT !.pc = p]
    BY <1>1, <1>4 DEF Goto, TypeOK
  <2>3. QED
    BY <2>1, <2>2 DEF Key, Active
<1>5. CASE CheckEnsured(h)
  <2>1. Key(h) \in ensured /\ Key(h)' = Key(h) /\ iface' = iface
    <3>1. CASE Key(h) \in ensured
      BY <1>4, <1>5, <3>1 DEF CheckEnsured, Setup
    <3>2. CASE Key(h) \notin ensured
      <4>1. conn'[h].pc = "add"
        BY <1>4, <1>5, <3>2 DEF CheckEnsured, Setup
      <4>2. QED
        BY <1>2, <4>1
    <3>3. QED
      BY <3>1, <3>2
  <2>2. Key(h) \notin Pending
    BY <1>5, NotPending DEF BindInv, CheckEnsured, Setup
  <2>3. QED
    BY <2>1, <2>2 DEF BindInv, Cached, Pending
<1>6. CASE AddToIface(h)
  <2>1. CASE iface' = iface \cup {Key(h)} /\ Goto(h, "mark")
    <3>1. Key(h)' = Key(h)
      BY <1>4, <1>6, <2>1 DEF AddToIface, Setup
    <3>2. QED
      BY <2>1, <3>1
  <2>2. CASE Finish(h)
    BY <1>1, <1>2, <2>2 DEF Finish, Idle, TypeOK
  <2>3. QED
    BY <1>6, <2>1, <2>2 DEF AddToIface
<1>7. CASE MarkEnsured(h)
  <2>1. Key(h)' = Key(h) /\ iface' = iface
    BY <1>4, <1>7 DEF MarkEnsured, Setup
  <2>2. Key(h) \in iface
    BY <1>7 DEF MarkEnsured, BindInv, Added
  <2>3. QED
    BY <2>1, <2>2
<1>8. CASE DialOk(h) \/ DialFails(h) \/ Close(h)
  <2>1. conn'[h].pc \in {"relay", "idle"}
    <3>1. CASE DialOk(h)
      BY <1>4, <3>1 DEF DialOk, Setup
    <3>2. CASE DialFails(h) \/ Close(h)
      BY <1>1, <3>2 DEF DialFails, Close, Finish, Idle, TypeOK
    <3>3. QED
      BY <1>8, <3>1, <3>2
  <2>2. QED
    BY <1>2, <2>1
<1>9. ASSUME NEW g \in Handlers, NEW u \in Users, Resolve(g, u) PROVE Key(h)' \in iface'
  <2>1. conn'[h] = conn[h] \/ conn'[h].pc = "check"
    BY <1>1, <1>9 DEF Resolve, TypeOK
  <2>2. QED
    BY <1>2, <1>3, <2>1
<1>10. CASE Crash
  BY <1>2, <1>10 DEF Crash, Idle
<1>11. CASE \/ \E u \in DOMAIN Seeds : SeedAccount(u)
            \/ StartServing \/ ReapRound \/ TimePasses \/ LinkFlap \/ UNCHANGED vars
  <2>1. conn' = conn
    BY <1>11 DEF SeedAccount, StartServing, ReapRound, ScanEntries, Reap, DelFromIface, ForgetAddr,
                 TimePasses, LinkFlap, vars, egressVars
  <2>2. QED
    BY <1>3, <2>1
<1>12. ASSUME NEW g \in Handlers, g # h, Handle(g) \/ Close(g) PROVE Key(h)' \in iface'
  BY <1>1, <1>3, <1>12, OthersStay
<1>13. QED
  BY <1>5, <1>6, <1>7, <1>8, <1>9, <1>10, <1>11, <1>12 DEF Next, Handle

(* As long as the interface is not restarted behind the proxy's back, a    *)
(* handler that reaches dialTcp finds its source address on the interface, *)
(* for every number of handlers and whatever the reaper removes meanwhile: *)
(* what the reaper deletes is nobody's any more, and never will be.        *)
THEOREM DialsFindTheirAddress ==
  ASSUME "flap" \notin Faults, SeedsApart, NoWrap, OneNetPerName,
         \A s \in OldFiles : NoShared(s) /\ Placed(s) /\ Homed(s) /\ Counted(s)
  PROVE  Spec => []BindSucceeds
<1>1. Init => BindInv
  <2>1. SUFFICES ASSUME Init PROVE BindInv
    OBVIOUS
  <2>2. ensured = {} /\ reaper = Asleep /\ \A h \in Handlers : conn[h].pc = "idle"
    BY <2>1 DEF Init, Idle
  <2>3. QED
    BY <2>2 DEF BindInv, SeedsShielded, Starting, PendingRetired, Pending, Cached, Added, Asleep
<1>2. ServiceInv /\ OwnerInv /\ BindInv /\ [Next]_vars => BindInv'
  <2>1. SUFFICES ASSUME ServiceInv, OwnerInv, BindInv, [Next]_vars PROVE BindInv'
    OBVIOUS
  <2>2. TypeOK
    BY <2>1 DEF ServiceInv
  <2>3. SeedsShielded' /\ Starting'
    BY <2>1, <2>2, SeedsShieldedStep, StartingStep DEF BindInv
  <2>4. PendingRetired'
    BY <2>1, <2>2, RetiredStep DEF BindInv
  <2>5. Cached' /\ Added'
    BY <2>1, CachedStep, AddedStep
  <2>6. QED
    BY <2>3, <2>4, <2>5 DEF BindInv
<1>3. Spec => []OwnerInv
  <2>1. StoreSpec => []OwnerInv
    BY OwnerInvariant
  <2>2. QED
    BY <2>1, EgressUsesStore, PTL DEF UsesStore
<1>4. BindInv => BindSucceeds
  BY DEF BindInv, Added, BindSucceeds
<1>5. QED
  BY <1>1, <1>2, <1>3, <1>4, ServiceInvariant, PTL DEF Spec

=============================================================================
