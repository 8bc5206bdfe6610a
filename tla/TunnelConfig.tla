---------------------------- MODULE TunnelConfig ----------------------------
(***************************************************************************)
(* The tunnels of config.yaml under the admin panel.  The handlers of      *)
(* admin.go check a request against the configuration the process was      *)
(* started with, but change the file: they load it, edit it, and write it  *)
(* back in place, without a lock, then ask for a restart, after which the  *)
(* process runs with what LoadConfig makes of the file.  HostNet composes  *)
(* these handlers with the program's startup and the kernel.               *)
(***************************************************************************)
EXTENDS Integers, Sequences, FiniteSetsExt, SeqPick

CONSTANTS
  Requests,  (* goroutines of the admin server                              *)
  Names,     (* tunnel names an operator uses                               *)
  Files,     (* configurations the program may start with                   *)
  Changes,   (* requests made: "add", "put", "delete", "default"            *)
  Habits,    (* of the operator: "turns", one request at a time; "restarts",*)
             (* a request only when no restart is pending; "careful", with  *)
             (* the file in view: no tunnel it has is added, its default    *)
             (* is not deleted, none it lacks is made the default           *)
  MaxTunnels,(* bound: tunnels in the file                                  *)
  MaxNumber,(* bound: a table or mark given to a tunnel                     *)
  NoName     (* default_tunnel left out                                     *)

(* A tunnel has 0 for a number left out.                                   *)
Tuns == [name : Names, table : Nat, mark : Nat]
Docs == [tunnels : Seq(Tuns), default : Names \cup {NoName}, seeds : SUBSET Names]

ASSUME FilesAssumption ==
  MaxTunnels \in Nat /\ MaxNumber \in Nat /\ NoName \notin Names /\ Files \subseteq Docs

TableBase == 64
MarkBase  == 64    (* 0x40 *)
MarkSpace == 256   (* ip rule compares the low 8 bits of a mark *)

VARIABLES
  file,     (* config.yaml: [tunnels, default, seeds], the last of them the *)
            (* tunnels whose /64 holds a seed account's address             *)
  wgs,      (* names with a wg/<name>.conf                                  *)
  links,    (* name -> the routing table its interface was brought up with  *)
  cfg,      (* the configuration in memory                                  *)
  up,       (* the process runs                                             *)
  pending,  (* restartProxySticky was called                                *)
  req,      (* request -> [pc, name, doc, tun]                              *)
  cut       (* history: tunnels a deletion that failed took down, and       *)
            (* NoName if a failing handler left config.yaml changed, since  *)
            (* the process started                                          *)

vars == <<file, wgs, links, cfg, up, pending, req, cut>>

NoLink == 0      (* no interface *)

(* The commands of Tunnel.Down: wg-quick down, nft delete, ip rule del.    *)
Commands == {"wg", "nft", "rule"}

Free   == [pc |-> "idle", name |-> NoName, doc |-> <<>>, tun |-> <<>>]
Broken == [tunnels |-> <<>>, default |-> NoName, seeds |-> {}]   (* truncated *)

NamesIn(f) == {f.tunnels[i].name : i \in DOMAIN f.tunnels}

-----------------------------------------------------------------------------
(* LoadConfig.                                                             *)

(* Numbers left out depend on the tunnel's place in the file.              *)
Number(n, base, i) == IF n = 0 THEN base + i - 1 ELSE n

Load(f) ==
  [f EXCEPT !.tunnels = [i \in DOMAIN f.tunnels |->
                           [f.tunnels[i] EXCEPT !.table = Number(@, TableBase, i),
                                                !.mark  = Number(@, MarkBase, i)]],
            !.default = IF @ = NoName /\ f.tunnels # <<>> THEN f.tunnels[1].name ELSE @]

(* validate.                                                               *)
Valid(f) ==
  /\ f.tunnels # <<>>
  /\ \A i, j \in DOMAIN f.tunnels : f.tunnels[i].name = f.tunnels[j].name => i = j
  /\ Load(f).default \in NamesIn(f)

(* main also needs every tunnel's wg file.                                 *)
Starts(f, w) == Valid(f) /\ NamesIn(f) \subseteq w

(* Mutant: the count of tunnels is taken for the highest number in use.    *)
NextAfterCount(ts, field) ==
  (IF field = "table" THEN TableBase ELSE MarkBase) + Len(ts)

(* nextTableMark: one above the highest in use.                            *)
NextNumber(ts, field) ==
  1 + Max({(IF field = "table" THEN TableBase ELSE MarkBase) - 1} \cup {ts[i][field] : i \in DOMAIN ts})

Without(f, n) ==
  [f EXCEPT !.tunnels = Pick(@, {i \in DOMAIN @ : @[i].name # n}), !.seeds = @ \ {n}]

(* Request r, past its checks, is a delTunnel.                             *)
Deletes(r) == req[r].name # NoName /\ req[r].tun = <<>>

(* The interface of n after Tunnel.Down, of whose commands those in done   *)
(* succeeded.                                                              *)
LinksAfter(n, done) == IF "wg" \in done THEN [links EXCEPT ![n] = NoLink] ELSE links

-----------------------------------------------------------------------------
ConfigInit ==
  /\ file \in Files
  /\ cfg = Load(file) /\ wgs = NamesIn(file) /\ up = FALSE /\ pending = FALSE
  /\ req = [r \in Requests |-> Free] /\ cut = {}

MayStart(r) ==
  /\ up /\ req[r].pc = "idle"
  /\ "turns" \in Habits => \A q \in Requests : req[q].pc = "idle"
  /\ "restarts" \in Habits => ~pending

(* Mutant: an interface of that name is not looked for.                    *)
AddTunnelBlind(r, n) ==
  /\ "add" \in Changes /\ MayStart(r)
  /\ "careful" \in Habits => n \notin NamesIn(file)
  /\ n \notin NamesIn(cfg)
  /\ Len(file.tunnels) < MaxTunnels
  /\ LET ts == IF Valid(file) THEN Load(file).tunnels ELSE cfg.tunnels IN
       /\ NextNumber(ts, "table") <= MaxNumber /\ NextNumber(ts, "mark") <= MaxNumber
       /\ req' = [req EXCEPT ![r] = [Free EXCEPT !.pc = "addLoad", !.name = n,
                    !.tun = <<[name |-> n, table |-> NextNumber(ts, "table"),
                               mark |-> NextNumber(ts, "mark")]>>]]
  /\ wgs' = wgs \cup {n}
  /\ UNCHANGED <<file, links, cfg, up, pending, cut>>

(* addTunnel: checked against memory and the interfaces, the numbers taken *)
(* from the file, or from memory if the file does not load.                *)
AddTunnel(r, n) ==
  /\ "add" \in Changes /\ MayStart(r)
  /\ "careful" \in Habits => n \notin NamesIn(file)
  /\ n \notin NamesIn(cfg) /\ links[n] = NoLink
  /\ Len(file.tunnels) < MaxTunnels
  /\ LET ts == IF Valid(file) THEN Load(file).tunnels ELSE cfg.tunnels IN
       /\ NextNumber(ts, "table") <= MaxNumber /\ NextNumber(ts, "mark") <= MaxNumber
       /\ req' = [req EXCEPT ![r] = [Free EXCEPT !.pc = "addLoad", !.name = n,
                    !.tun = <<[name |-> n, table |-> NextNumber(ts, "table"),
                               mark |-> NextNumber(ts, "mark")]>>]]
  /\ wgs' = wgs \cup {n}
  /\ UNCHANGED <<file, links, cfg, up, pending, cut>>

(* loadYAMLDoc and yamlAppendTunnel; an empty file cannot be edited, and   *)
(* encoding it fails after it was opened for writing.                      *)
AddEdit(r) ==
  /\ req[r].pc = "addLoad"
  /\ req' = [req EXCEPT ![r].pc = "open",
               ![r].doc = IF file = Broken THEN Broken
                          ELSE [file EXCEPT !.tunnels = @ \o req[r].tun]]
  /\ UNCHANGED <<file, wgs, links, cfg, up, pending, cut>>

(* Mutant: the tunnel stays in the file.                                   *)
DelTunnelKept(r, n, done) ==
  /\ "delete" \in Changes /\ MayStart(r)
  /\ n \in NamesIn(cfg) \ {cfg.default} /\ Len(cfg.tunnels) > 1
  /\ links' = LinksAfter(n, done)
  /\ req' = [req EXCEPT ![r] = [Free EXCEPT !.pc = "open", !.name = n, !.doc = file]]
  /\ UNCHANGED <<file, wgs, cfg, up, pending, cut>>

(* delTunnel: checked against memory; the interface goes down first, what  *)
(* fails of that being ignored, then the file is loaded, and the tunnel    *)
(* must be there and not the last.                                         *)
DelTunnel(r, n, done) ==
  /\ "delete" \in Changes /\ MayStart(r)
  /\ "careful" \in Habits => n # Load(file).default
  /\ n \in NamesIn(cfg) \ {cfg.default} /\ Len(cfg.tunnels) > 1
  /\ links' = LinksAfter(n, done)
  /\ IF n \in NamesIn(file) /\ NamesIn(file) # {n}
       THEN /\ req' = [req EXCEPT ![r] = [Free EXCEPT !.pc = "open", !.name = n, !.doc = Without(file, n)]]
            /\ UNCHANGED cut
       ELSE UNCHANGED req /\ cut' = cut \cup {n}
  /\ UNCHANGED <<file, wgs, cfg, up, pending>>

(* putTunnel: new keys in the wg file, the interface down.                 *)
PutTunnel(r, n, done) ==
  /\ "put" \in Changes /\ MayStart(r)
  /\ n \in NamesIn(cfg)
  /\ wgs' = wgs \cup {n} /\ links' = LinksAfter(n, done) /\ pending' = TRUE
  /\ UNCHANGED <<file, cfg, up, req, cut>>

(* putSocks with default_tunnel.                                           *)
PutSocks(r, n) ==
  /\ "default" \in Changes /\ MayStart(r)
  /\ "careful" \in Habits => n \in NamesIn(file)
  /\ n \in NamesIn(cfg)
  /\ req' = [req EXCEPT ![r] = [Free EXCEPT !.pc = "open",
               !.doc = IF file = Broken THEN Broken ELSE [file EXCEPT !.default = n]]]
  /\ UNCHANGED <<file, wgs, links, cfg, up, pending, cut>>

(* writeYAMLDoc truncates the file ...                                     *)
Truncate(r) ==
  /\ req[r].pc = "open"
  /\ file' = Broken
  /\ req' = [req EXCEPT ![r].pc = "write"]
  /\ UNCHANGED <<wgs, links, cfg, up, pending, cut>>

(* Mutant: the handler answers without asking for a restart.               *)
FinishQuietly(r) ==
  /\ req[r].pc = "write"
  /\ file' = req[r].doc
  /\ wgs' = IF Deletes(r) THEN wgs \ {req[r].name} ELSE wgs
  /\ req' = [req EXCEPT ![r] = Free]
  /\ UNCHANGED <<links, cfg, up, pending, cut>>

(* ... and fills it; delTunnel then moves the wg file away, and every      *)
(* handler asks for a restart.                                             *)
Finish(r) ==
  /\ req[r].pc = "write"
  /\ file' = req[r].doc
  /\ wgs' = IF Deletes(r) THEN wgs \ {req[r].name} ELSE wgs
  /\ pending' = TRUE
  /\ req' = [req EXCEPT ![r] = Free]
  /\ UNCHANGED <<links, cfg, up, cut>>

(* config.yaml cannot be loaded, opened or, once truncated, filled: the    *)
(* handler answers with the error and asks for no restart, although        *)
(* delTunnel has taken the interface down and addTunnel written a wg file. *)
WriteFails(r) ==
  /\ req[r].pc \in {"addLoad", "open", "write"}
  /\ req' = [req EXCEPT ![r] = Free]
  /\ cut' = cut \cup (IF Deletes(r) THEN {req[r].name} ELSE {})
                \cup (IF req[r].pc = "write" THEN {NoName} ELSE {})
  /\ UNCHANGED <<file, wgs, links, cfg, up, pending>>

(* putSocks, asked for a listen address too, has written the file when     *)
(* syncEntryOutbounds fails: an error again, and no restart.               *)
SyncFails(r) ==
  /\ req[r].pc = "write" /\ req[r].name = NoName
  /\ file' = req[r].doc
  /\ req' = [req EXCEPT ![r] = Free]
  /\ cut' = cut \cup {NoName}
  /\ UNCHANGED <<wgs, links, cfg, up, pending>>

(* The process ends, and requests in flight with it.                       *)
Stop ==
  /\ up' = FALSE /\ pending' = FALSE /\ cut' = {}
  /\ req' = [r \in Requests |-> Free]
  /\ UNCHANGED <<file, wgs, cfg>>

(* main loads the configuration, or gives up.                              *)
LoadConfig ==
  /\ Starts(file, wgs)
  /\ cfg' = Load(file)
  /\ UNCHANGED <<file, wgs, up, pending, req, cut>>

-----------------------------------------------------------------------------
(* Properties.                                                             *)

Resting == \A r \in Requests : req[r].pc = "idle"

(* Tunnels are well formed, those in memory with their numbers filled in   *)
(* by LoadConfig, and requests are in a known step of their handler.       *)
ConfigTypeOK ==
  /\ \A i \in DOMAIN cfg.tunnels : cfg.tunnels[i].table > 0 /\ cfg.tunnels[i].mark > 0
  /\ cfg.default \in NamesIn(cfg)
  /\ \A f \in {file, cfg} :
       /\ \A i \in DOMAIN f.tunnels : f.tunnels[i].table \in Nat /\ f.tunnels[i].mark \in Nat
       /\ NamesIn(f) \cup f.seeds \subseteq Names /\ f.default \in Names \cup {NoName}
  /\ wgs \subseteq Names /\ links \in [Names -> Nat] /\ cut \subseteq Names \cup {NoName}
  /\ \A r \in Requests : req[r].pc \in {"idle", "addLoad", "open", "write"}

(* Whenever no handler is writing, the proxy would start with what is on   *)
(* disk: validate accepts the file and every tunnel has its wg file.       *)
StartsAgain == Resting => Starts(file, wgs)

(* Every tunnel has a routing table and a mark of its own, marks differing *)
(* in the 8 bits ip rule looks at, none of them matching unmarked traffic. *)
TunnelsApart ==
  Resting =>
    LET ts == Load(file).tunnels IN
    \A i \in DOMAIN ts :
      /\ ts[i].mark % MarkSpace # 0
      /\ \A j \in DOMAIN ts \ {i} :
           ts[i].table # ts[j].table /\ ts[i].mark % MarkSpace # ts[j].mark % MarkSpace

(* Unless a handler is at work or a restart on its way, the process runs   *)
(* with the tunnels of the file, and with its default unless putSocks      *)
(* failed after it had written it; their interfaces are there, but for     *)
(* those a deletion took down and then failed.                             *)
MemoryIsFile ==
  up /\ Resting /\ ~pending =>
    /\ cfg.tunnels = Load(file).tunnels
    /\ NoName \notin cut => cfg = Load(file)
    /\ \A n \in NamesIn(cfg) \ cut : links[n] # NoLink
=============================================================================
