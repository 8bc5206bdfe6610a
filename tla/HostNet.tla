------------------------------- MODULE HostNet -------------------------------
(***************************************************************************)
(* The program on its host.  main loads the configuration, writes the nft  *)
(* files, brings the interfaces up, takes the tables of the old set-up     *)
(* away, adds an ip rule and loads a table per tunnel, and then serves;    *)
(* whatever fails ends it, and systemd starts it again.  While it serves,  *)
(* the handlers of TunnelConfig take interfaces down, ensureRuleLoop puts  *)
(* back rules that the host's network manager flushed, and systemd may     *)
(* restart an interface with the wg-quick file found in /etc/wireguard.    *)
(***************************************************************************)
EXTENDS TunnelConfig, SequencesExt

CONSTANTS
  NftName,   (* name -> name of its nft table and file, '-' turned into '_' *)
  SeedMarks, (* name -> marks of seed_marks with an address in its /64      *)
  Adopted,   (* tunnels the old set-up had up, with its tables and files    *)
  ManageWG,  (* manage_wg: the program may bring interfaces up              *)
  Events,    (* from outside: "flush" of rules, "flap", an interface        *)
             (* restarted, "fail" of a program main runs, "error" in a      *)
             (* handler, "kill", "reboot"; "write": the last three may come *)
             (* between writeYAMLDoc's truncating and filling the file      *)
  Failing,   (* bound: which commands of one Tunnel.Down fail together      *)
  MaxMishaps (* bound: events other than flushes                            *)

ASSUME HostAssumption ==
  /\ MaxMishaps \in Nat /\ Failing \subseteq SUBSET Commands /\ ManageWG \in BOOLEAN /\ Adopted \subseteq Names
  /\ DOMAIN NftName = Names /\ DOMAIN SeedMarks = Names
  /\ \A n \in Names : SeedMarks[n] \subseteq Nat /\ IsFiniteSet(SeedMarks[n])
  /\ \A f \in Files : Adopted \subseteq NamesIn(f)

VARIABLES
  phase,    (* of main: "off", "write", "up", "takeover", "rules", "nft",   *)
            (* "serve"                                                      *)
  step,     (* the tunnel main's loop is at                                 *)
  rules,    (* ip rules of the program: [mark, table], ordered by table     *)
  tables,   (* nft table -> its rules in order, none if it is not loaded    *)
  runtime,  (* runtime/<table>.nft: the same, none if never written         *)
  etc,      (* name -> table and mark of /etc/wireguard/<name>.conf         *)
  legacy,   (* tunnels whose route64_random table is loaded                 *)
  left,     (* history: name -> what its last Down failed to remove, "wg"   *)
            (* or "nft", until main or the machine brings it up afresh      *)
  mishaps

hostVars == <<rules, tables, runtime, etc, legacy, left>>
allVars  == <<vars, phase, step, hostVars, mishaps>>

NoConf  == [by |-> "none", table |-> NoLink, mark |-> 0]

Tun(i)  == cfg.tunnels[i]
Rule(t) == [mark |-> t.mark, table |-> t.table]
Conf(t) == [by |-> "program", table |-> t.table, mark |-> t.mark]

-----------------------------------------------------------------------------
(* nft.                                                                    *)

(* BuildNFT: seed marks go to their address, sources other than the base   *)
(* address stay, the base address is spread over the pool.                 *)
BuildNFT(t) ==
  LET NftRule(mark, src, do) == [mark |-> mark, src |-> src, do |-> <<do, t.name>>] IN
  SetToSeq({NftRule(m, "any", "seed") : m \in SeedMarks[t.name]})
    \o <<NftRule(t.mark, "notBase", "accept"), NftRule(t.mark, "any", "pool")>>

(* The table of the old set-up gives every source an address of its own.   *)
LegacyNFT(n) == <<[mark |-> etc[n].mark, src |-> "any", do |-> <<"legacy", n>>]>>

(* The first rule of a chain that a packet matches.                        *)
Verdict(chain, mark, src) ==
  LET hits == {i \in DOMAIN chain : chain[i].mark = mark /\ (chain[i].src = "any" \/ src # "base")} IN
  IF hits = {} THEN <<"none", NoName>> ELSE chain[Min(hits)].do

(* What the tables, all on the same hook, may make of a packet's source.   *)
Rewrites(mark, src) ==
  {d \in {Verdict(tables[x], mark, src) : x \in DOMAIN tables}
      \cup {Verdict(LegacyNFT(n), mark, src) : n \in legacy} : d[1] \notin {"none", "accept"}}

-----------------------------------------------------------------------------
(* The kernel after an external program ran.                               *)

(* wg-quick up with a file of the program's or of the old set-up: routes   *)
(* go to the file's table, PostUp loads the nft table and adds the rule.   *)
WgUp(n, conf) ==
  /\ links' = [links EXCEPT ![n] = conf.table]
  /\ IF conf.by = "old"
       THEN legacy' = legacy \cup {n} /\ UNCHANGED <<tables, rules>>
       ELSE /\ tables' = [tables EXCEPT ![NftName[n]] = @ \o runtime[NftName[n]]]
            /\ rules' = rules \cup {Rule(conf)}
            /\ UNCHANGED legacy

(* Mutant: the nft table stays.                                            *)
DownNoNFT(n, done) ==
  LET t == CHOOSE x \in ToSet(cfg.tunnels) : x.name = n
      rest == rules \ (IF {"wg", "rule"} \subseteq done /\ links[n] # NoLink THEN {Rule(etc[n])} ELSE {})
      same == {r \in rest : r.table = t.table} IN
  /\ IF same = {} \/ "rule" \notin done THEN rules' = rest ELSE \E r \in same : rules' = rest \ {r}
  /\ left' = [left EXCEPT ![n] = {"wg", "nft"} \ done]
  /\ UNCHANGED <<tables, runtime, etc, legacy>>

(* Tunnel.Down of a tunnel in memory: wg-quick down, whose PostDown        *)
(* deletes the rule of the file, then the nft table, and one rule with the *)
(* tunnel's preference, which stands for its table.  Commands not in done  *)
(* fail, PostDown's with them, and are ignored.                            *)
Down(n, done) ==
  LET t == CHOOSE x \in ToSet(cfg.tunnels) : x.name = n
      rest == rules \ (IF {"wg", "rule"} \subseteq done /\ links[n] # NoLink THEN {Rule(etc[n])} ELSE {})
      same == {r \in rest : r.table = t.table} IN
  /\ IF same = {} \/ "rule" \notin done THEN rules' = rest ELSE \E r \in same : rules' = rest \ {r}
  /\ tables' = IF "nft" \in done THEN [tables EXCEPT ![NftName[n]] = <<>>] ELSE tables
  /\ left' = [left EXCEPT ![n] = {"wg", "nft"} \ done]
  /\ UNCHANGED <<runtime, etc, legacy>>

-----------------------------------------------------------------------------
(* main.                                                                   *)

Init ==
  /\ ConfigInit
  /\ etc = [n \in Names |-> IF n \in Adopted
              THEN LET t == CHOOSE x \in ToSet(cfg.tunnels) : x.name = n IN
                   [by |-> "old", table |-> t.table, mark |-> t.mark]
              ELSE NoConf]
  /\ links = [n \in Names |-> etc[n].table]
  /\ legacy = Adopted /\ rules = {} /\ left = [n \in Names |-> {}]
  /\ tables = [x \in Range(NftName) |-> <<>>] /\ runtime = tables
  /\ phase = "off" /\ step = 1 /\ mishaps = 0

(* LoadConfig and parseTunnel, on the files as they are.                   *)
Boot ==
  /\ phase = "off" /\ LoadConfig
  /\ phase' = "write" /\ step' = 1
  /\ UNCHANGED <<links, hostVars, mishaps>>

(* The loop's next round, or the phase after it.                           *)
Step(next) ==
  IF step < Len(cfg.tunnels) THEN step' = step + 1 /\ UNCHANGED phase
                             ELSE step' = 1 /\ phase' = next

(* WriteNFT of one tunnel after the other.                                 *)
WriteNFT ==
  /\ phase = "write"
  /\ runtime' = [runtime EXCEPT ![NftName[Tun(step).name]] = BuildNFT(Tun(step))]
  /\ Step("up")
  /\ UNCHANGED <<vars, rules, tables, etc, legacy, left, mishaps>>

(* The routes of tunnel t have a place: wg-quick gives every interface a   *)
(* default route, of which a table holds one.                              *)
Vacant(t) == \A n \in Names : links[n] # t.table

(* Mutant: a file of the old set-up stays if the interface is up.          *)
EnsureUpLater ==
  LET t == Tun(step) IN
  /\ phase = "up" /\ (links[t.name] # NoLink \/ Vacant(t))
  /\ IF links[t.name] # NoLink THEN UNCHANGED <<etc, links, rules, tables, legacy>>
     ELSE ManageWG /\ etc' = [etc EXCEPT ![t.name] = Conf(t)] /\ WgUp(t.name, Conf(t))
  /\ left' = [left EXCEPT ![t.name] = {}]
  /\ Step("takeover")
  /\ UNCHANGED <<file, wgs, cfg, up, pending, req, cut, runtime, mishaps>>

(* EnsureUp: GenerateRuntimeConf replaces the file in /etc/wireguard even  *)
(* if the interface is up, so that its next restart loads the program's.   *)
EnsureUp ==
  LET t == Tun(step) IN
  /\ phase = "up" /\ (links[t.name] # NoLink \/ Vacant(t))
  /\ etc' = [etc EXCEPT ![t.name] = Conf(t)]
  /\ IF links[t.name] # NoLink THEN UNCHANGED <<links, rules, tables, legacy>>
                               ELSE ManageWG /\ WgUp(t.name, Conf(t))
  /\ left' = [left EXCEPT ![t.name] = {}]
  /\ Step("takeover")
  /\ UNCHANGED <<file, wgs, cfg, up, pending, req, cut, runtime, mishaps>>

(* wg-quick up fails for the routes of an interface that is still there:   *)
(* Fatalf, however often systemd starts the program again.                 *)
UpRefused ==
  LET t == Tun(step) IN
  /\ phase = "up" /\ links[t.name] = NoLink /\ ~Vacant(t)
  /\ etc' = [etc EXCEPT ![t.name] = Conf(t)]
  /\ phase' = "off"
  /\ UNCHANGED <<vars, step, rules, tables, runtime, legacy, left, mishaps>>

(* TakeoverLegacy: one table of the old set-up after the other is backed   *)
(* up and deleted.                                                         *)
TakeoverLegacy(n) ==
  /\ phase = "takeover" /\ n \in legacy
  /\ legacy' = legacy \ {n}
  /\ UNCHANGED <<vars, phase, step, rules, tables, runtime, etc, left, mishaps>>

LegacyDone ==
  /\ phase = "takeover" /\ legacy = {}
  /\ phase' = "rules" /\ step' = 1
  /\ UNCHANGED <<vars, hostVars, mishaps>>

(* EnsureRule of a tunnel ...                                              *)
EnsureRule ==
  /\ phase = "rules"
  /\ rules' = rules \cup {Rule(Tun(step))}
  /\ phase' = "nft"
  /\ UNCHANGED <<vars, step, tables, runtime, etc, legacy, left, mishaps>>

(* ... and LoadNFT; after the last tunnel the program serves.              *)
LoadNFT ==
  LET t == Tun(step) IN
  /\ phase = "nft"
  /\ tables' = [tables EXCEPT ![NftName[t.name]] = BuildNFT(t)]
  /\ runtime' = [runtime EXCEPT ![NftName[t.name]] = BuildNFT(t)]
  /\ IF step < Len(cfg.tunnels)
       THEN step' = step + 1 /\ phase' = "rules" /\ UNCHANGED vars
       ELSE step' = 1 /\ phase' = "serve" /\ up' = TRUE /\ UNCHANGED <<file, wgs, links, cfg, pending, req, cut>>
  /\ UNCHANGED <<rules, etc, legacy, left, mishaps>>

Startup ==
  \/ Boot \/ WriteNFT \/ EnsureUp \/ UpRefused \/ LegacyDone \/ EnsureRule \/ LoadNFT
  \/ \E n \in Names : TakeoverLegacy(n)

-----------------------------------------------------------------------------
(* While it serves.                                                        *)

(* Mutant: the loop looks at the rules of startup only.                    *)
TickNever(i) == FALSE /\ UNCHANGED allVars

(* ensureRuleLoop, once a minute for every tunnel in memory.               *)
Tick(i) ==
  /\ phase = "serve" /\ i \in DOMAIN cfg.tunnels
  /\ Rule(Tun(i)) \notin rules
  /\ rules' = rules \cup {Rule(Tun(i))}
  /\ UNCHANGED <<vars, phase, step, tables, runtime, etc, legacy, left, mishaps>>

(* The handlers of the admin panel.                                        *)
Handle ==
  /\ \/ \E r \in Requests, n \in Names : AddTunnel(r, n) \/ PutSocks(r, n)
     \/ \E r \in Requests : AddEdit(r) \/ Truncate(r) \/ Finish(r)
  /\ UNCHANGED <<phase, step, hostVars, mishaps>>

HandleDown ==
  /\ \E r \in Requests, n \in Names :
       (DelTunnel(r, n, Commands) \/ PutTunnel(r, n, Commands)) /\ Down(n, Commands)
  /\ UNCHANGED <<phase, step, mishaps>>

(* systemctl restart.                                                      *)
Restart ==
  /\ pending /\ ("turns" \in Habits => Resting)
  /\ Stop /\ phase' = "off"
  /\ UNCHANGED <<links, step, hostVars, mishaps>>

-----------------------------------------------------------------------------
(* The world outside.                                                      *)

Mishap(event) == event \in Events /\ mishaps < MaxMishaps /\ mishaps' = mishaps + 1

(* An external program fails: Fatalf.  EnsureUp has replaced the file in   *)
(* /etc/wireguard by then, LoadNFT has deleted the table.                  *)
Fails ==
  /\ Mishap("fail") /\ phase \in {"up", "takeover", "rules", "nft"}
  /\ etc' = IF phase = "up" THEN [etc EXCEPT ![Tun(step).name] = Conf(Tun(step))] ELSE etc
  /\ tables' = IF phase = "nft" THEN [tables EXCEPT ![NftName[Tun(step).name]] = <<>>] ELSE tables
  /\ phase' = "off"
  /\ UNCHANGED <<vars, step, rules, runtime, legacy, left>>

(* Nothing comes in the moment between truncating and filling the file.    *)
Whole == "write" \in Events \/ \A r \in Requests : req[r].pc # "write"

(* A handler fails: what Tunnel.Down runs, config.yaml, or sing-box's      *)
(* configuration.                                                          *)
HandleFails ==
  /\ Mishap("error")
  /\ \/ /\ \E r \in Requests : (Whole /\ WriteFails(r)) \/ SyncFails(r)
        /\ UNCHANGED hostVars
     \/ \E r \in Requests, n \in Names, lost \in Failing :
          (DelTunnel(r, n, Commands \ lost) \/ PutTunnel(r, n, Commands \ lost)) /\ Down(n, Commands \ lost)
  /\ UNCHANGED <<phase, step>>

Kill ==
  /\ Mishap("kill") /\ Whole /\ phase # "off"
  /\ Stop /\ phase' = "off"
  /\ UNCHANGED <<links, step, hostVars>>

(* The machine restarts; nothing the kernel knew is left.                  *)
Reboot ==
  /\ Mishap("reboot") /\ Whole
  /\ Stop /\ phase' = "off"
  /\ links' = [n \in Names |-> NoLink]
  /\ rules' = {} /\ legacy' = {} /\ tables' = [x \in DOMAIN tables |-> <<>>]
  /\ left' = [n \in Names |-> {}]
  /\ UNCHANGED <<step, runtime, etc>>

(* The host's network manager flushes the rules.                           *)
Flush ==
  /\ "flush" \in Events /\ rules # {}
  /\ rules' = {}
  /\ UNCHANGED <<vars, phase, step, tables, runtime, etc, legacy, left, mishaps>>

(* systemd restarts an interface with the file it finds: PostDown deletes  *)
(* the table, PostUp loads it.                                             *)
Flap(n) ==
  /\ Mishap("flap") /\ links[n] # NoLink
  /\ links' = [links EXCEPT ![n] = etc[n].table]
  /\ IF etc[n].by = "old"
       THEN legacy' = legacy \cup {n} /\ UNCHANGED <<tables, rules>>
       ELSE /\ tables' = [tables EXCEPT ![NftName[n]] = runtime[NftName[n]]]
            /\ rules' = rules \cup {Rule(etc[n])}
            /\ UNCHANGED legacy
  /\ UNCHANGED <<file, wgs, cfg, up, pending, req, cut, phase, step, runtime, etc, left>>

Outside == Fails \/ HandleFails \/ Kill \/ Reboot \/ Flush \/ \E n \in Names : Flap(n)

Next == Startup \/ (\E i \in 1..MaxTunnels : Tick(i)) \/ Handle \/ HandleDown \/ Restart \/ Outside

(* The program runs on, the ticker fires, and systemd starts the program   *)
(* again when it ended.                                                    *)
Spec ==
  /\ Init /\ [][Next]_allVars
  /\ WF_allVars(Startup)
  /\ \A i \in 1..MaxTunnels : WF_allVars(Tick(i))

-----------------------------------------------------------------------------
(* Properties.                                                             *)

(* Phases and the loop's place in them, the kernel's state by names, and   *)
(* the process up exactly when it serves.                                  *)
TypeOK ==
  /\ ConfigTypeOK
  /\ phase \in {"off", "write", "up", "takeover", "rules", "nft", "serve"}
  /\ up <=> phase = "serve"
  /\ step \in DOMAIN cfg.tunnels /\ legacy \subseteq Names /\ left \in [Names -> SUBSET {"wg", "nft"}]

(* The tables whose rule a packet with mark m matches, as the kernel tries *)
(* them, and that have a route: the first of them takes the packet.        *)
Tried(m) == {r.table : r \in {x \in rules : x.mark % MarkSpace = m % MarkSpace /\ \E n \in Names : links[n] = x.table}}

(* While the proxy serves, a connection it marks for a tunnel that is up   *)
(* and has its rule goes out by that tunnel: the rule's table holds its    *)
(* routes, no other's, and no rule left over from before comes first.      *)
EgressRouted ==
  up => \A i \in DOMAIN cfg.tunnels :
    LET t == Tun(i) IN
    (links[t.name] # NoLink /\ Rule(t) \in rules) =>
       /\ links[t.name] = t.table /\ \A n \in Names \ {t.name} : links[n] # t.table
       /\ t.table = Min(Tried(t.mark))

(* Tunnel.Down took n away, all of it or the table only.                   *)
TakenDown(n) == links[n] = NoLink \/ ("wg" \in left[n] /\ tables[NftName[n]] = <<>>)

(* nft.go's promise: while the proxy serves, until a handler takes the     *)
(* tunnel down, a sticky account's address is left alone by all tables,    *)
(* the base address is spread over its own pool and nothing else, and the  *)
(* marks of seed accounts go to their address.  Only a table that stayed   *)
(* behind when its tunnel was deleted may do otherwise.                    *)
StickyUntouched ==
  up => \A i \in DOMAIN cfg.tunnels :
    LET t == Tun(i)
        Done(m, src) == {d \in Rewrites(m, src) : d[2] \in NamesIn(cfg) \/ left[d[2]] = {}} IN
    ~TakenDown(t.name) =>
      /\ Done(t.mark, "sticky") = {}
      /\ Done(t.mark, "base") = {<<"pool", t.name>>}
      /\ \A m \in SeedMarks[t.name] : Done(m, "sticky") = {<<"seed", t.name>>}

(* Once the proxy serves and no restart is due, interfaces and nft tables  *)
(* are those of its tunnels.  A deleted tunnel leaves what its Down failed *)
(* to remove, until the machine restarts, and nothing else, whatever was   *)
(* restarted or killed since.                                              *)
NothingLeft ==
  up /\ Resting /\ ~pending =>
    /\ \A n \in Names \ NamesIn(cfg) : links[n] # NoLink => "wg" \in left[n]
    /\ \A x \in DOMAIN tables : tables[x] # <<>> =>
         \E n \in Names : NftName[n] = x /\ (n \in NamesIn(cfg) \/ left[n] # {})

(* ensureRuleLoop's promise: a rule that was flushed comes back.           *)
RulesReturn ==
  \A n \in Names :
    (up /\ n \in NamesIn(cfg)) ~> (~up \/ \E i \in DOMAIN cfg.tunnels : Tun(i).name = n /\ Rule(Tun(i)) \in rules)

(* Whatever failed, was killed or restarted, the proxy serves again, but   *)
(* for an interface that a deletion failed to take down and that holds the *)
(* routing table since given to another tunnel.                            *)
InTheWay(n) == n \notin NamesIn(file) /\ "wg" \in left[n] /\ \E t \in ToSet(Load(file).tunnels) : t.table = links[n]
ServesAgain == ~up ~> (up \/ \E n \in Names : InTheWay(n))

(* Without that exception: what Down's ignored failures rule out.          *)
ServesAlways == ~up ~> up
=============================================================================
