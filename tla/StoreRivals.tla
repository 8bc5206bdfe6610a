----------------------------- MODULE StoreRivals ----------------------------
(***************************************************************************)
(* The store next to its rivals: the running proxy keeps one Store in      *)
(* memory, while deleting a tunnel in the admin panel (admin.go) and       *)
(* --unregister on the command line (main.go) each load a Store of their   *)
(* own from the same file, change it and save all of it.  Around them the  *)
(* tunnels of config.yaml change, which the proxy sees when it restarts.   *)
(***************************************************************************)
EXTENDS AccountStore

CONSTANTS
  Wanted,    (* user -> tunnel named in <default_account>.<tunnel>.<id>, or NoTunnel *)
  NoTunnel,
  Configs,   (* configurations: [tunnels, default], one tunnel per name     *)
  Changes,   (* what the operator does: "default", "prefix", "delete",      *)
             (* "unregister"                                                *)
  Quiet      (* TRUE: one rival at a time, and no client connects from the  *)
             (* moment it starts until it is done and the proxy restarted   *)

VARIABLES
  disk,     (* config.yaml and the wg files                                *)
  conf,     (* the configuration the proxy was started with                *)
  pending,  (* restartProxySticky has been called                          *)
  del,      (* delTunnel: [pc, name, copy]                                 *)
  cli,      (* --unregister: [pc, user, copy]                              *)
  last,     (* the last address answered and the tunnel it was asked for   *)
  astray    (* history: "moved", a default or /64 was replaced; "cut", a   *)
            (* deletion stopped or could not save before accounts were gone*)

rivalVars == <<disk, conf, pending, del, cli, last, astray>>
vars == <<storeVars, rivalVars>>

NamesIn(c) == {t.name : t \in c.tunnels}
TunnelIn(c, n) == CHOOSE t \in c.tunnels : t.name = n

(* parseAccount: the tunnel named, if it is configured, else the default.  *)
HomeIn(c, u) == TunnelIn(c, IF Wanted[u] \in NamesIn(c) THEN Wanted[u] ELSE c.default)

(* A configuration loadConfig accepts: the default is one of the tunnels.  *)
WellFormed(c) ==
  /\ c \in [tunnels : SUBSET Tunnels, default : Names]
  /\ c.default \in NamesIn(c)
  /\ \A s, t \in c.tunnels : s.name = t.name => s = t

ASSUME ConfigsAssumption == \A c \in Configs : WellFormed(c)

Resting == [pc |-> "idle", name |-> NoTunnel, copy |-> EmptyStore]
NoCli   == [pc |-> "idle", user |-> NoRec, copy |-> EmptyStore]

Init ==
  /\ StoreInit
  /\ disk \in Configs /\ conf = disk
  /\ pending = FALSE /\ del = Resting /\ cli = NoCli
  /\ last = NoRec /\ astray = {}

-----------------------------------------------------------------------------
(* The proxy.                                                              *)

Connect(u) ==
  /\ Quiet => del.pc = "idle" /\ cli.pc = "idle" /\ ~pending
  /\ \E ok \in SaveOutcomes :
       /\ Allocate(HomeIn(conf, u), u, ok)
       /\ last' = IF ok THEN [tun |-> HomeIn(conf, u), addr |-> mem'.records[u].addr] ELSE last
  /\ UNCHANGED <<disk, conf, pending, del, cli, astray>>

Reload ==
  /\ Restart
  /\ conf' = disk /\ pending' = FALSE /\ last' = NoRec
  /\ UNCHANGED <<disk, cli>>

(* systemctl restart, a moment after the handler answered.                 *)
RestartProxy == pending /\ del.pc = "idle" /\ Reload /\ UNCHANGED <<del, astray>>

(* The proxy dies by itself, and delTunnel with it.                        *)
Crash ==
  /\ "crash" \in Faults
  /\ Reload /\ del' = Resting
  /\ astray' = IF del.pc \in {"load", "drop"} THEN astray \cup {"cut"} ELSE astray

-----------------------------------------------------------------------------
(* The admin panel; the operator waits for a restart to happen.            *)

AdminFree ==
  /\ del.pc = "idle" /\ ~pending
  /\ Quiet => cli.pc = "idle"

(* putSocks with default_tunnel.                                           *)
PutSocks(n) ==
  /\ "default" \in Changes /\ AdminFree
  /\ n \in NamesIn(conf)
  /\ disk' = [disk EXCEPT !.default = n]
  /\ pending' = TRUE
  /\ astray' = astray \cup {"moved"}
  /\ UNCHANGED <<storeVars, conf, del, cli, last>>

(* putTunnel replaces the wg file, and with it the /64.                    *)
PutTunnel(t) ==
  /\ "prefix" \in Changes /\ AdminFree
  /\ t.name \in NamesIn(conf)
  /\ disk' = [disk EXCEPT !.tunnels = {x \in @ : x.name # t.name} \cup {t}]
  /\ pending' = TRUE
  /\ astray' = astray \cup {"moved"}
  /\ UNCHANGED <<storeVars, conf, del, cli, last>>

(* delTunnel: the checks, and the tunnel out of config.yaml ...            *)
DelTunnel(n) ==
  /\ "delete" \in Changes /\ AdminFree
  /\ n \in NamesIn(conf) \ {conf.default} /\ Cardinality(conf.tunnels) > 1
  /\ disk' = [disk EXCEPT !.tunnels = {x \in @ : x.name # n}]
  /\ del' = [del EXCEPT !.pc = "load", !.name = n]
  /\ UNCHANGED <<storeVars, conf, pending, cli, last, astray>>

(* ... LoadStore ...                                                       *)
DelLoad ==
  /\ del.pc = "load"
  /\ del' = [del EXCEPT !.pc = "drop", !.copy = Loaded(file)]
  /\ UNCHANGED <<storeVars, disk, conf, pending, cli, last, astray>>

(* Mutant: what was dropped is not saved.                                  *)
DelDropUnsaved ==
  /\ del.pc = "drop"
  /\ Revoke(OfTunnel(del.copy, del.name))
  /\ del' = [del EXCEPT !.pc = "strip"]
  /\ UNCHANGED <<mem, file, issued, disk, conf, pending, cli, last, astray>>

(* ... DropTunnel on that Store, which saves if it removed anything ...    *)
DelDrop ==
  LET gone == OfTunnel(del.copy, del.name) IN
    /\ del.pc = "drop"
    /\ \E ok \in SaveOutcomes :
         /\ file' = IF gone # {} /\ ok THEN Dropped(del.copy, del.name) ELSE file
         /\ astray' = IF ok THEN astray ELSE astray \cup {"cut"}
    /\ Revoke(gone)
    /\ del' = [del EXCEPT !.pc = "strip"]
    /\ UNCHANGED <<mem, issued, disk, conf, pending, cli, last>>

(* ... the sing-box files, seconds of checking and restarting sing-box,    *)
(* and the restart is scheduled.                                           *)
DelDone ==
  /\ del.pc = "strip"
  /\ del' = Resting /\ pending' = TRUE
  /\ UNCHANGED <<storeVars, disk, conf, cli, last, astray>>

-----------------------------------------------------------------------------
(* The command line, a second process.  It goes through seed_accounts too, *)
(* and takes the address off the interface: neither concerns the runs here *)
(* (no seeds, no interfaces), which are about the file.                    *)

CliLoad(u) ==
  /\ "unregister" \in Changes /\ cli.pc = "idle"
  /\ Quiet => del.pc = "idle"
  /\ file.records[u] # NoRec
  /\ cli' = [pc |-> "save", user |-> u, copy |-> Loaded(file)]
  /\ UNCHANGED <<storeVars, disk, conf, pending, del, last, astray>>

CliSave ==
  /\ cli.pc = "save"
  /\ \E ok \in SaveOutcomes : file' = IF ok THEN Without(cli.copy, {cli.user}) ELSE file
  /\ Revoke({cli.user})
  /\ cli' = NoCli
  /\ UNCHANGED <<mem, issued, disk, conf, pending, del, last, astray>>

Next ==
  \/ \E u \in Users : Connect(u)
  \/ RestartProxy
  \/ Crash
  \/ \E n \in Names : PutSocks(n) \/ DelTunnel(n)
  \/ \E t \in Tunnels : PutTunnel(t)
  \/ DelLoad \/ DelDrop \/ DelDone
  \/ \E u \in Users : CliLoad(u)
  \/ CliSave

Spec == Init /\ [][Next]_vars

-----------------------------------------------------------------------------
(* What the theorems assume of the file an earlier run left.               *)

(* The account of u, if s has one, is of its home under c and in its /64.  *)
AtHome(s, c) ==
  \A u \in Registered(s) :
     /\ s.records[u].tun = HomeIn(c, u).name
     /\ s.records[u].addr.net = HomeIn(c, u).net

(* The proxy first starts where it last stopped: on a file whose accounts  *)
(* are of the configuration on disk.                                       *)
Settled == \A s \in OldFiles, c \in Configs : AtHome(s, c)

-----------------------------------------------------------------------------
(* Properties.                                                             *)

(* The rivals only ever load and save whole stores, and every change of    *)
(* the configuration leaves one tunnel per name and a default among them.  *)
TypeOK ==
  /\ StoreTypeOK
  /\ WellFormed(disk) /\ WellFormed(conf)
  /\ del \in [pc : {"idle", "load", "drop", "strip"}, name : Names \cup {NoTunnel},
              copy : Stores]
  /\ cli \in [pc : {"idle", "save"}, user : Users \cup {NoRec}, copy : Stores]

(* The proxy never has on record an account of a tunnel it does not have:  *)
(* deleting a tunnel, if carried through, deletes its accounts for good.   *)
NoGhosts ==
  "cut" \notin astray => \A u \in Registered(mem) : mem.records[u].tun \in NamesIn(conf)

(* The address a connection is answered lies in the /64 of the tunnel it   *)
(* is then dialled through.                                                *)
EgressAlways == last # NoRec => last.addr.net = last.tun.net

(* So it is as long as no default and no /64 was replaced, and no deletion *)
(* cut short.                                                              *)
EgressInTunnel == astray = {} => EgressAlways

(* What clients were answered is on disk, so that a restart keeps it.      *)
AnswersOnDisk ==
  \A u \in Users : granted[u] # NoAddr =>
     file.records[u] # NoRec /\ file.records[u].addr = granted[u]
=============================================================================
