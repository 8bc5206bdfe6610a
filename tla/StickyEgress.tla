---------------------------- MODULE StickyEgress ----------------------------
(***************************************************************************)
(* How sticky connections leave the machine: startup (main.go), the        *)
(* connection handlers of socks5.go, which bind an address of the store    *)
(* after putting it on the tunnel's interface, the reaper of main.go,      *)
(* which takes addresses off again, and crashes of the process or of the   *)
(* machine.  They share the store, the interface and the ensured cache,    *)
(* and no lock is held from one of their steps to the next.                *)
(***************************************************************************)
EXTENDS AccountStore

CONSTANTS
  Handlers,  (* goroutines of handle(): as many as max_conns lets in      *)
  Home,      (* user -> the tunnel parseAccount finds for it              *)
  Entries    (* users of the ps-* outbounds that sing-box enters through  *)

(* More Faults: "scan", entryAccounts cannot read the sing-box files;      *)
(* "add", ip addr replace fails; "del", ip addr del fails; "crash";        *)
(* "flap", wg-quick restarts the interface.                                *)

VARIABLES
  phase,    (* "seeding": main before Listen; "serving"                    *)
  toSeed,   (* seed accounts main has not gone through yet                 *)
  iface,    (* <<tunnel, address>>: the /128s on the interfaces, base apart*)
  ensured,  (* Server.ensured: <<tunnel, address>> believed on iface       *)
  conn,     (* handler -> [pc, user, addr]                                 *)
  reaper    (* [pc, protected, todo, cur]: the reapLoop goroutine          *)

egressVars == <<phase, toSeed, iface, ensured, conn, reaper>>
vars == <<storeVars, egressVars>>

ASSUME HomeAssumption == Home \in [Users -> Tunnels] /\ Entries \subseteq Users

Idle   == [pc |-> "idle", user |-> NoRec, addr |-> NoAddr]
Asleep == [pc |-> "idle", protected |-> {}, todo |-> {}, cur |-> <<>>]

Setup == {"check", "add", "mark", "dial"}
Key(h) == <<Home[conn[h].user].name, conn[h].addr>>

Outcomes(fault) == IF fault \in Faults THEN BOOLEAN ELSE {TRUE}

-----------------------------------------------------------------------------
(* Startup.                                                                *)

Init ==
  /\ StoreInit
  /\ phase = "seeding" /\ toSeed = DOMAIN Seeds
  /\ iface = {} /\ ensured = {}
  /\ conn = [h \in Handlers |-> Idle]
  /\ reaper = Asleep

(* seedAccount finds the tunnel by its /64; an account on record stays as  *)
(* it is, and a failed save is only logged.                                *)
SeedAccount(u) ==
  /\ phase = "seeding" /\ u \in toSeed
  /\ \/ mem.records[u] # NoRec /\ UNCHANGED storeVars
     \/ \E t \in Tunnels, ok \in SaveOutcomes :
           t.net = Seeds[u].net /\ Seed(t, u, Seeds[u], ok)
  /\ toSeed' = toSeed \ {u}
  /\ UNCHANGED <<phase, iface, ensured, conn, reaper>>

Stale == {e \in iface : e[2] \notin AddrsIn(mem)}

(* Mutant: startup does not prune.                                         *)
StartServingUnpruned ==
  /\ phase = "seeding" /\ toSeed = {}
  /\ phase' = "serving"
  /\ UNCHANGED <<storeVars, toSeed, iface, ensured, conn, reaper>>

(* PruneStaleAddrs, then NewServer, the loops and Listen.                  *)
StartServing ==
  /\ phase = "seeding" /\ toSeed = {}
  /\ iface' \in IF "del" \in Faults
                THEN {iface \ gone : gone \in SUBSET Stale}
                ELSE {iface \ Stale}
  /\ phase' = "serving"
  /\ UNCHANGED <<storeVars, toSeed, ensured, conn, reaper>>

(* The process dies at any point, or the machine does and the interface    *)
(* comes back with its base address only.                                  *)
Crash ==
  /\ "crash" \in Faults
  /\ Restart
  /\ phase' = "seeding" /\ toSeed' = DOMAIN Seeds
  /\ iface' \in {iface, {}}
  /\ ensured' = {}
  /\ conn' = [h \in Handlers |-> Idle]
  /\ reaper' = Asleep

-----------------------------------------------------------------------------
(* A connection of a sticky account: proxy, resolve, ensureAddr, dialTcp.  *)

Goto(h, pc) == conn' = [conn EXCEPT ![h].pc = pc]
Finish(h)   == conn' = [conn EXCEPT ![h] = Idle]

(* Mutant: an account on record is read without Allocate.                  *)
ResolveCached(h, u) ==
  /\ phase = "serving" /\ conn[h].pc = "idle"
  /\ mem.records[u] # NoRec \/ u \in Entries
  /\ IF mem.records[u] # NoRec
       THEN /\ Grant(u, mem.records[u].addr)
            /\ UNCHANGED <<mem, file>>
       ELSE Allocate(Home[u], u, TRUE)
  /\ conn' = [conn EXCEPT ![h] = [pc |-> "check", user |-> u, addr |-> mem'.records[u].addr]]
  /\ UNCHANGED <<phase, toSeed, iface, ensured, reaper>>

(* resolve calls Allocate; without an address the client is refused.       *)
Resolve(h, u) ==
  /\ phase = "serving" /\ conn[h].pc = "idle"
  /\ \E ok \in SaveOutcomes :
       /\ Allocate(Home[u], u, ok)
       /\ conn' = IF ok THEN [conn EXCEPT ![h] = [pc   |-> "check", user |-> u,
                                                  addr |-> mem'.records[u].addr]]
                        ELSE conn
  /\ UNCHANGED <<phase, toSeed, iface, ensured, reaper>>

(* Mutant: the address is remembered before it is added.                   *)
CheckEnsuredEarly(h) ==
  /\ conn[h].pc = "check"
  /\ Goto(h, IF Key(h) \in ensured THEN "dial" ELSE "add")
  /\ ensured' = ensured \cup {Key(h)}
  /\ UNCHANGED <<storeVars, phase, toSeed, iface, reaper>>

(* ensureAddr looks its address up in the cache under ensuredMu ...        *)
CheckEnsured(h) ==
  /\ conn[h].pc = "check"
  /\ Goto(h, IF Key(h) \in ensured THEN "dial" ELSE "add")
  /\ UNCHANGED <<storeVars, phase, toSeed, iface, ensured, reaper>>

(* Mutant: a failing ip addr replace is retried instead of reported.       *)
AddToIfaceRetrying(h) ==
  /\ conn[h].pc = "add"
  /\ \E ok \in Outcomes("add") :
       IF ok THEN iface' = iface \cup {Key(h)} /\ Goto(h, "mark")
             ELSE iface' = iface /\ Goto(h, "check")
  /\ UNCHANGED <<storeVars, phase, toSeed, ensured, reaper>>

(* ... runs ip addr replace without the lock ...                           *)
AddToIface(h) ==
  /\ conn[h].pc = "add"
  /\ \E ok \in Outcomes("add") :
       IF ok THEN iface' = iface \cup {Key(h)} /\ Goto(h, "mark")
             ELSE iface' = iface /\ Finish(h)
  /\ UNCHANGED <<storeVars, phase, toSeed, ensured, reaper>>

(* ... and takes it again to remember the address.                         *)
MarkEnsured(h) ==
  /\ conn[h].pc = "mark"
  /\ ensured' = ensured \cup {Key(h)}
  /\ Goto(h, "dial")
  /\ UNCHANGED <<storeVars, phase, toSeed, iface, reaper>>

(* dialTcp binds the address, which must be on the interface.              *)
DialOk(h) ==
  /\ conn[h].pc = "dial"
  /\ Key(h) \in iface
  /\ Goto(h, "relay")
  /\ UNCHANGED <<storeVars, phase, toSeed, iface, ensured, reaper>>

(* The bind or the destination refuses, or connect_timeout elapses.        *)
DialFails(h) ==
  /\ conn[h].pc = "dial"
  /\ Finish(h)
  /\ UNCHANGED <<storeVars, phase, toSeed, iface, ensured, reaper>>

Close(h) ==
  /\ conn[h].pc = "relay"
  /\ Finish(h)
  /\ UNCHANGED <<storeVars, phase, toSeed, iface, ensured, reaper>>

-----------------------------------------------------------------------------
(* reapLoop: one round per tick.                                           *)

(* Mutant: only the seed accounts are protected.                           *)
ScanSeedsOnly ==
  /\ phase = "serving" /\ reaper.pc = "idle"
  /\ reaper' = [reaper EXCEPT !.pc = "reap", !.protected = DOMAIN Seeds]
  /\ UNCHANGED <<storeVars, phase, toSeed, iface, ensured, conn>>

(* entryAccounts: the entry users, or nothing when the files do not load.  *)
ScanEntries ==
  /\ phase = "serving" /\ reaper.pc = "idle"
  /\ \E ok \in Outcomes("scan") :
       reaper' = [reaper EXCEPT !.pc = "reap",
                                !.protected = DOMAIN Seeds \cup IF ok THEN Entries ELSE {}]
  /\ UNCHANGED <<storeVars, phase, toSeed, iface, ensured, conn>>

Reap ==
  /\ reaper.pc = "reap"
  /\ \E ok \in SaveOutcomes : ReapIdle(reaper.protected, ok)
  /\ LET gone == Expired(mem, reaper.protected)
         todo == {<<mem.records[u].tun, mem.records[u].addr>> : u \in gone}
     IN  reaper' = IF todo = {} THEN Asleep
                   ELSE [Asleep EXCEPT !.pc = "clean", !.todo = todo]
  /\ UNCHANGED <<phase, toSeed, iface, ensured, conn>>

(* Mutant: the address is only forgotten, never deleted.                   *)
DelFromIfaceSkipped(e) ==
  /\ reaper.pc = "clean" /\ e \in reaper.todo
  /\ reaper' = [reaper EXCEPT !.pc = "forget", !.todo = @ \ {e}, !.cur = e]
  /\ UNCHANGED <<storeVars, phase, toSeed, iface, ensured, conn>>

(* ip addr del, its outcome ignored ...                                    *)
DelFromIface(e) ==
  /\ reaper.pc = "clean" /\ e \in reaper.todo
  /\ \E ok \in Outcomes("del") : iface' = IF ok THEN iface \ {e} ELSE iface
  /\ reaper' = [reaper EXCEPT !.pc = "forget", !.todo = @ \ {e}, !.cur = e]
  /\ UNCHANGED <<storeVars, phase, toSeed, ensured, conn>>

(* Mutant: the goroutine returns where it should continue.                 *)
ForgetAddrReturns ==
  /\ reaper.pc = "forget"
  /\ ensured' = ensured \ {reaper.cur}
  /\ reaper' = [reaper EXCEPT !.pc = "gone"]
  /\ UNCHANGED <<storeVars, phase, toSeed, iface, conn>>

(* ... then ForgetAddr.                                                    *)
ForgetAddr ==
  /\ reaper.pc = "forget"
  /\ ensured' = ensured \ {reaper.cur}
  /\ reaper' = IF reaper.todo = {} THEN Asleep
               ELSE [reaper EXCEPT !.pc = "clean", !.cur = <<>>]
  /\ UNCHANGED <<storeVars, phase, toSeed, iface, conn>>

NobodyInSetup == \A h \in Handlers : conn[h].pc \notin Setup

(* A connection is set up in seconds, account_idle_ttl is hours or days:   *)
(* the TTL does not elapse while one is being set up.                      *)
TimePasses ==
  /\ NobodyInSetup
  /\ TtlPasses
  /\ UNCHANGED egressVars

(* The interface is restarted under the running process and comes back     *)
(* with its base address only; nothing in the process notices.  A flap in  *)
(* the middle of a set-up is left out: that dial is lost anyway.           *)
LinkFlap ==
  /\ "flap" \in Faults /\ phase = "serving" /\ NobodyInSetup
  /\ iface' = {}
  /\ UNCHANGED <<storeVars, phase, toSeed, ensured, conn, reaper>>

-----------------------------------------------------------------------------
Handle(h) == CheckEnsured(h) \/ AddToIface(h) \/ MarkEnsured(h) \/ DialOk(h) \/ DialFails(h)
ReapRound == ScanEntries \/ Reap \/ (\E e \in iface \cup reaper.todo : DelFromIface(e)) \/ ForgetAddr

Next ==
  \/ \E u \in DOMAIN Seeds : SeedAccount(u)
  \/ StartServing
  \/ Crash
  \/ \E h \in Handlers, u \in Users : Resolve(h, u)
  \/ \E h \in Handlers : Handle(h) \/ Close(h)
  \/ ReapRound
  \/ TimePasses
  \/ LinkFlap

Spec == Init /\ [][Next]_vars

(* The Go scheduler runs every goroutine that can run, and the ticker of   *)
(* reapLoop fires; clients need not connect, close, nor machines crash.    *)
Fairness ==
  /\ \A u \in DOMAIN Seeds : WF_vars(SeedAccount(u))
  /\ WF_vars(StartServing)
  /\ \A h \in Handlers : WF_vars(Handle(h))
  /\ WF_vars(ReapRound)

FairSpec == Spec /\ Fairness

-----------------------------------------------------------------------------
(* Properties.                                                             *)

OnIface  == Names \X Addrs
Sessions == {Idle} \cup [pc : Setup \cup {"relay"}, user : Users, addr : Addrs]
Rounds   == [pc : {"idle", "reap", "clean", "forget"}, protected : SUBSET Users,
             todo : SUBSET OnIface, cur : OnIface \cup {<<>>}]

(* Program counters, cache, interface and pending work are well formed.    *)
TypeOK ==
  /\ StoreTypeOK
  /\ phase \in {"seeding", "serving"} /\ toSeed \subseteq DOMAIN Seeds
  /\ iface \subseteq OnIface /\ ensured \subseteq OnIface
  /\ conn \in [Handlers -> Sessions]
  /\ reaper \in Rounds

(* A handler that reaches dialTcp finds its source address on the          *)
(* interface: neither a stale cache entry nor the reaper, working on the   *)
(* addresses it removed from the store, takes it away in between.          *)
BindSucceeds == \A h \in Handlers : conn[h].pc = "dial" => Key(h) \in iface

(* While serving, every /128 on an interface is of an account on record or *)
(* about to be deleted: nothing is left behind by reaping, by failed       *)
(* connections or by earlier lives of the process.                         *)
NoStrayAddr ==
  phase = "serving" =>
     \A e \in iface : e[2] \in AddrsIn(mem) \/ e \in reaper.todo

(* Seed accounts and sing-box entry accounts never lose their address.     *)
ProtectedKept ==
  [][\A u \in DOMAIN Seeds \cup Entries : granted[u] # NoAddr => granted'[u] # NoAddr]_vars

(* An account with an open connection is in use: it stays on record.       *)
UsedNotReaped ==
  \A h \in Handlers : conn[h].pc = "relay" => mem.records[conn[h].user] # NoRec

(* The egress only ever uses the store the way AccountStore describes, so  *)
(* what is proved of AccountStore holds here.                              *)
UsesStore == StoreSpec

(* Refinement: promises are the granted addresses, sessions the relays.    *)
Service == INSTANCE StickyService
  WITH Sessions <- Handlers, NoSession <- NoRec, promise <- granted, past <- issued,
       session <- [h \in Handlers |-> IF conn[h].pc = "relay"
                                      THEN [user |-> conn[h].user, addr |-> conn[h].addr]
                                      ELSE NoRec]

(* The sticky sessions clients see are those of StickyService: every step  *)
(* of handlers, reaper, crashes and startup is one of its steps.           *)
ImplementsService == Service!ServiceSpec

(* Every connection attempt is carried through or refused.                 *)
SetupEnds == \A h \in Handlers : conn[h].pc \in Setup ~> conn[h].pc \notin Setup

(* An account idle beyond the TTL, and not protected, is reaped unless it  *)
(* is used again or the process restarts.                                  *)
IdleReaped ==
  \A u \in Users \ (DOMAIN Seeds \cup Entries) :
     (phase = "serving" /\ u \in Registered(mem) /\ mem.records[u].used = "old")
       ~> (phase # "serving" \/ u \notin Registered(mem) \/ mem.records[u].used = "recent")

(* What was reaped leaves the interface, unless the process restarts.      *)
ReapedLeavesIface ==
  \A e \in OnIface : e \in reaper.todo ~> (e \notin iface \/ phase # "serving")

(* ReapIdle removed u, and saving that failed.                             *)
UnsavedReap(u) == u \in Registered(file) \ Registered(mem)

(* ReapIdle's comment: a removal that could not be saved is retried by the *)
(* next scan (or a restart or a new connection brings the account back).   *)
ReapRetried ==
  \A u \in Users : (phase = "serving" /\ UnsavedReap(u)) ~> (phase # "serving" \/ ~UnsavedReap(u))
=============================================================================
