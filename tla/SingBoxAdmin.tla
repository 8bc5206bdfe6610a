---------------------------- MODULE SingBoxAdmin ----------------------------
(***************************************************************************)
(* The admin panel's handlers at work on sing-box's configuration.  Each   *)
(* edits it in applySingBox: under sbMu it loads inbounds.json,            *)
(* outbounds.json and route.json, changes them, has a copy checked, writes *)
(* the three files one after the other and restarts sing-box.  What a      *)
(* handler reads before (the list of disabled inbounds, the tunnel of an   *)
(* entry, the entries to synchronise) and writes after (that list again)   *)
(* lies outside the lock.                                                  *)
(***************************************************************************)
EXTENDS SingBoxConf

CONSTANTS
  Requests,  (* goroutines of the admin server                              *)
  Tags,      (* inbounds                                                    *)
  Tunnels,   (* names of tunnels                                            *)
  Users,     (* short ids of generated users, never drawn twice             *)
  Ports,     (* ports of the proxy's listen address                         *)
  StartPort, (* the one it has at the start                                 *)
  Starts,    (* configurations of sing-box to start with                    *)
  DefaultTunnel,
  Changes,   (* requests made                                               *)
  Habits,    (* of the operator: "turns", one request at a time; "restarts",*)
             (* none while the proxy is about to restart                    *)
  Faults,    (* sing-box's: "check" rejects a configuration, "restart";     *)
             (* "write" of a file fails; "kill", the process ends            *)
  MaxInbounds,(* bound: inbounds in both lists                              *)
  NoReq      (* nobody holds the lock                                       *)

(* What the three files may hold.                                          *)
ObTags == {Ps(t) : t \in Tags} \cup {Psu(t, id) : t \in Tags, id \in Users} \cup {Wg(n) : n \in Tunnels}
Outs   == [tun : Tunnels, port : Ports]
Rules  == [inb : Tags, user : Users \cup {NoUser}, ob : ObTags]

IsConf(c) ==
  /\ c = [inb |-> c.inb, obs |-> c.obs, rules |-> c.rules]
  /\ c.inb \in Seq(Tags) /\ c.rules \in Seq(Rules)
  /\ DOMAIN c.obs \subseteq ObTags /\ c.obs \in [DOMAIN c.obs -> Outs]

ASSUME ConstantsAssumption ==
  /\ DefaultTunnel \in Tunnels /\ NoTun \notin Tunnels /\ NoTag \notin Tags
  /\ NoUser \notin Users /\ NoReq \notin Requests
  /\ IsFiniteSet(Users) /\ StartPort \in Ports /\ \A c \in Starts : IsConf(c)

(* The plain rule of an inbound comes after those of its users.            *)
UsersBefore(rules) ==
  \A i, j \in DOMAIN rules :
    (rules[i].inb = rules[j].inb /\ rules[j].user # NoUser /\ i < j) => rules[i].user # NoUser

Socks(obs) == {o \in DOMAIN obs : IsSocks(o)}

(* A rule leads to the outbound of its user, or to the one its inbound has *)
(* for nobody in particular; every outbound of the proxy has its rule.     *)
Linked(c) ==
  /\ \A x \in ToSet(c.rules) :
       /\ x.ob \in DOMAIN c.obs
       /\ IF x.user # NoUser THEN x.ob = Psu(x.inb, x.user)
          ELSE x.ob \in {Ps(x.inb)} \cup {Wg(n) : n \in Tunnels}
  /\ \A o \in Socks(c.obs) : \E x \in ToSet(c.rules) : x.ob = o
  /\ \A x, y \in ToSet(c.rules) : x.inb = y.inb /\ x.user = NoUser /\ y.user = NoUser => x.ob = y.ob

(* Users are on the tunnel of their inbound's shared outbound.             *)
Follow(obs) == \A o \in Socks(obs) : Ps(o[2]) \in DOMAIN obs => obs[o].tun = obs[Ps(o[2])].tun

(* The inbound of every outbound of the proxy is in one of the lists.      *)
Owned(c, dis) == \A o \in Socks(c.obs) : o[2] \in ToSet(c.inb) \cup ToSet(dis)

(* What there is at the start is of the program's own making.              *)
ASSUME StartsAssumption ==
  \A c \in Starts :
    /\ UsersBefore(c.rules) /\ Linked(c) /\ Follow(c.obs) /\ Owned(c, <<>>)
    /\ \A o \in Socks(c.obs) : c.obs[o].port = StartPort

VARIABLES
  conf,      (* the three files                                             *)
  disabled,  (* state/inbounds-disabled.json: a sequence of tags            *)
  tuns,      (* tunnels in memory                                           *)
  live,      (* tunnels of config.yaml                                      *)
  listen,    (* the port of listen, in config.yaml and in memory            *)
  lock,      (* who holds sbMu                                              *)
  pending,   (* restartProxySticky was called                               *)
  req,       (* request -> its handler and what it holds                    *)
  torn       (* history: inbounds whose handler ended between its first and *)
             (* its last file                                                *)

vars == <<conf, disabled, tuns, live, listen, lock, pending, req, torn>>

(* ids: of a batch; dis: its copy of the disabled list; jobs: of a sync;   *)
(* new: the configuration it is writing.                                   *)
Free == [pc |-> "idle", kind |-> "none", tag |-> NoTag, tun |-> NoTun,
         ids |-> {}, dis |-> <<>>, jobs |-> {}, new |-> <<>>]

Init ==
  /\ conf \in Starts /\ disabled = <<>>
  /\ tuns = {conf.obs[o].tun : o \in DOMAIN conf.obs} \cup {DefaultTunnel}
  /\ live = tuns /\ listen = StartPort
  /\ lock = NoReq /\ pending = FALSE /\ req = [r \in Requests |-> Free] /\ torn = {}

-----------------------------------------------------------------------------
(* What a handler does before applySingBox.                                *)

MayAsk(r, kind) ==
  /\ kind \in Changes /\ req[r].pc = "idle"
  /\ "turns" \in Habits => \A q \in Requests : req[q].pc = "idle"
  /\ "restarts" \in Habits => ~pending

MayGrow == Len(conf.inb) + Len(disabled) < MaxInbounds

Ask(r, kind, t, n, ids, jobs) ==
  req' = [req EXCEPT ![r] = [Free EXCEPT !.pc = "apply", !.kind = kind, !.tag = t, !.tun = n,
                                          !.ids = ids, !.jobs = jobs, !.dis = disabled]]

(* putInbound and delInbound load the disabled list.                       *)
PutInbound(r, kind, t) ==
  /\ MayAsk(r, kind) /\ kind \in {"disable", "enable", "unbind", "delete"}
  /\ Ask(r, kind, t, NoTun, {}, {})
  /\ UNCHANGED <<conf, disabled, tuns, live, listen, lock, pending, torn>>

Rebind(r, t, n) ==
  /\ MayAsk(r, "bind") /\ Ask(r, "bind", t, n, {}, {})
  /\ UNCHANGED <<conf, disabled, tuns, live, listen, lock, pending, torn>>

(* addInbound, bound to a tunnel in memory or to none.                     *)
AddInbound(r, t, n) ==
  /\ MayAsk(r, "add") /\ n \in tuns \cup {NoTun} /\ MayGrow
  /\ Ask(r, "add", t, n, {}, {})
  /\ UNCHANGED <<conf, disabled, tuns, live, listen, lock, pending, torn>>

(* addTunnel, once config.yaml has the tunnel: cloneVLESSForTunnel.        *)
AddTunnel(r, t, n) ==
  /\ MayAsk(r, "clone") /\ n \notin live \cup tuns /\ MayGrow
  /\ live' = live \cup {n}
  /\ IF conf.inb = <<>> THEN pending' = TRUE /\ UNCHANGED req
     ELSE Ask(r, "clone", t, n, {}, {}) /\ UNCHANGED pending
  /\ UNCHANGED <<conf, disabled, tuns, listen, lock, torn>>

(* delTunnel, once config.yaml has lost the tunnel.                        *)
DelTunnel(r, n) ==
  /\ MayAsk(r, "strip") /\ n \in (tuns \cap live) \ {DefaultTunnel}
  /\ live' = live \ {n}
  /\ Ask(r, "strip", NoTag, n, {}, {})
  /\ UNCHANGED <<conf, disabled, tuns, listen, lock, pending, torn>>

(* generateUsers looks up the entry's tunnel without the lock.             *)
BatchUsers(r, t, ids) ==
  /\ MayAsk(r, "batch") /\ t \in ToSet(conf.inb)
  /\ ids \cap {o[3] : o \in DOMAIN conf.obs} = {} /\ \A q \in Requests : ids \cap req[q].ids = {}
  /\ LET n == OutboundTunnel(conf.obs, tuns, OutboundOf(conf.rules, t)) IN
       n # NoTun /\ Ask(r, "batch", t, n, ids, {})
  /\ UNCHANGED <<conf, disabled, tuns, live, listen, lock, pending, torn>>

(* putSocks with a listen address, then syncEntryOutbounds.                *)
PutSocks(r, p) ==
  /\ MayAsk(r, "sync")
  /\ listen' = p
  /\ LET jobs == Jobs(conf, disabled, tuns, p) IN
       IF jobs = {} THEN pending' = TRUE /\ UNCHANGED req
       ELSE Ask(r, "sync", NoTag, NoTun, {}, jobs) /\ UNCHANGED pending
  /\ UNCHANGED <<conf, disabled, tuns, live, lock, torn>>

-----------------------------------------------------------------------------
(* applySingBox.                                                           *)

(* The handler finds what it is about.                                     *)
Accepts(q) ==
  LET on == q.tag \in ToSet(conf.inb)
      off == q.tag \in ToSet(q.dis)
  IN
  \/ q.kind \in {"disable", "unbind", "batch"} /\ on
  \/ q.kind = "bind" /\ on /\ q.tun \in tuns
  \/ q.kind = "enable" /\ off
  \/ q.kind = "delete" /\ (on \/ off)
  \/ q.kind \in {"add", "clone"} /\ ~on
  \/ q.kind \in {"strip", "sync"}

(* What it makes of the configuration it loaded; that of a sync begins     *)
(* here and goes on in SyncEntry.                                          *)
Changed(q) ==
  LET t == q.tag
      Added == [conf EXCEPT !.inb = Append(@, t)]
      Less  == [conf EXCEPT !.inb = Taken(@, t)]
  IN
  CASE q.kind = "disable" -> Less
    [] q.kind = "enable"  -> Added
    [] q.kind = "bind"    -> Attach(conf, t, q.tun, listen)
    [] q.kind = "unbind"  -> Detach(conf, t)
    [] q.kind = "delete"  -> Detach(IF t \in ToSet(conf.inb) THEN Less ELSE conf, t)
    [] q.kind \in {"add", "clone"} -> IF q.tun = NoTun THEN Added ELSE Attach(Added, t, q.tun, listen)
    [] q.kind = "strip"   -> Strip(conf, tuns, q.tun)
    [] q.kind = "batch"   -> AttachUsers(conf, t, q.tun, q.ids, listen)
    [] q.kind = "sync"    -> conf

(* And of its copy of the disabled list.                                   *)
ChangedDisabled(q) ==
  CASE q.kind = "disable" -> Append(q.dis, q.tag)
    [] q.kind = "enable" \/ (q.kind = "delete" /\ q.tag \notin ToSet(conf.inb)) -> Taken(q.dis, q.tag)
    [] q.kind = "strip"   -> q.dis \o Moved(conf, tuns, q.tun)
    [] OTHER -> q.dis

(* The handler is over; those of tunnels restart the proxy whatever        *)
(* happened to sing-box, putSocks only if all went well.                   *)
Answer(r, ok) ==
  /\ req' = [req EXCEPT ![r] = Free]
  /\ pending' = (pending \/ req[r].kind \in {"clone", "strip"} \/ (ok /\ req[r].kind = "sync"))

(* Load, change, check.                                                    *)
Apply(r) ==
  /\ req[r].pc = "apply" /\ lock = NoReq /\ Accepts(req[r])
  /\ lock' = r
  /\ req' = [req EXCEPT ![r].pc = IF req[r].kind = "sync" THEN "jobs" ELSE "inbounds",
                        ![r].new = Changed(req[r]), ![r].dis = ChangedDisabled(req[r])]
  /\ UNCHANGED <<conf, disabled, tuns, live, listen, pending, torn>>

(* One round of syncEntryOutbounds' loop over its jobs.                    *)
SyncEntry(r) ==
  /\ req[r].pc = "jobs"
  /\ \E j \in req[r].jobs :
       req' = [req EXCEPT ![r].pc = IF req[r].jobs = {j} THEN "inbounds" ELSE "jobs",
                          ![r].new = Attach(@, j.tag, j.tun, listen), ![r].jobs = @ \ {j}]
  /\ UNCHANGED <<conf, disabled, tuns, live, listen, lock, pending, torn>>

(* The change is refused, by the handler or by sing-box check.             *)
Refuse(r) ==
  /\ req[r].pc = "apply" /\ lock = NoReq
  /\ ~Accepts(req[r]) \/ "check" \in Faults
  /\ Answer(r, FALSE)
  /\ UNCHANGED <<conf, disabled, tuns, live, listen, lock, torn>>

(* writeSB: one file after the other.                                      *)
WriteFile(r, pc, field, next) ==
  /\ req[r].pc = pc
  /\ conf' = [conf EXCEPT ![field] = req[r].new[field]]
  /\ req' = [req EXCEPT ![r].pc = next]
  /\ UNCHANGED <<disabled, tuns, live, listen, lock, pending, torn>>

WriteSB(r) ==
  \/ WriteFile(r, "inbounds", "inb", "outbounds")
  \/ WriteFile(r, "outbounds", "obs", "route")
  \/ WriteFile(r, "route", "rules", "restart")

(* Mutant: delTunnel leaves the list in memory.                            *)
SavesNotStrip == {"disable", "enable", "bind", "unbind", "delete"}

(* Handlers that write the disabled list back.                             *)
Saves == {"disable", "enable", "bind", "unbind", "delete", "strip"}

(* Mutant: sbMu stays locked when the handler has a list to save.          *)
RestartSingBoxLocked(r) ==
  /\ req[r].pc = "restart"
  /\ IF req[r].kind \in Saves
       THEN req' = [req EXCEPT ![r].pc = "save"] /\ UNCHANGED <<pending, lock>>
       ELSE lock' = NoReq /\ Answer(r, TRUE)
  /\ UNCHANGED <<conf, disabled, tuns, live, listen, torn>>

(* restartSingBox, the last of applySingBox.                               *)
RestartSingBox(r) ==
  /\ req[r].pc = "restart" /\ lock' = NoReq
  /\ IF req[r].kind \in Saves
       THEN req' = [req EXCEPT ![r].pc = "save"] /\ UNCHANGED pending
       ELSE Answer(r, TRUE)
  /\ UNCHANGED <<conf, disabled, tuns, live, listen, torn>>

(* Its failure is the failure of applySingBox.                             *)
RestartFails(r) ==
  /\ "restart" \in Faults /\ req[r].pc = "restart" /\ lock' = NoReq
  /\ Answer(r, FALSE)
  /\ UNCHANGED <<conf, disabled, tuns, live, listen, torn>>

(* saveDisabled: the copy, as the handler changed it.                      *)
SaveDisabled(r) ==
  /\ req[r].pc = "save"
  /\ disabled' = req[r].dis
  /\ Answer(r, TRUE)
  /\ UNCHANGED <<conf, tuns, live, listen, lock, torn>>

(* The inbounds a handler is about.                                        *)
About(q) == IF q.kind \in {"strip", "sync"} THEN Tags ELSE {q.tag}

HalfWritten(r) == req[r].pc \in {"outbounds", "route"}

(* One of the files cannot be written: applySingBox fails, and the files   *)
(* before it are new already.  saveDisabled's error is ignored.            *)
WriteFails(r) ==
  /\ "write" \in Faults
  /\ \/ /\ req[r].pc \in {"inbounds", "outbounds", "route"}
        /\ lock' = NoReq /\ Answer(r, FALSE)
        /\ torn' = IF HalfWritten(r) THEN torn \cup About(req[r]) ELSE torn
     \/ /\ req[r].pc = "save"
        /\ Answer(r, TRUE) /\ UNCHANGED <<lock, torn>>
  /\ UNCHANGED <<conf, disabled, tuns, live, listen>>

(* The process ends, handlers in flight die, and systemd starts it again.  *)
ProxyEnds ==
  /\ pending' = FALSE /\ tuns' = live
  /\ lock' = NoReq /\ req' = [r \in Requests |-> Free]
  /\ torn' = torn \cup UNION {About(req[r]) : r \in {q \in Requests : HalfWritten(q)}}
  /\ UNCHANGED <<conf, disabled, live, listen>>

RestartProxy ==
  /\ pending /\ ("turns" \in Habits => \A r \in Requests : req[r].pc = "idle")
  /\ ProxyEnds

Kill == "kill" \in Faults /\ ProxyEnds

Next ==
  \/ \E r \in Requests :
       \/ \E t \in Tags :
            \/ \E kind \in Changes : PutInbound(r, kind, t)
            \/ \E n \in Tunnels : Rebind(r, t, n) \/ AddTunnel(r, t, n)
            \/ \E n \in Tunnels \cup {NoTun} : AddInbound(r, t, n)
            \/ \E ids \in SUBSET Users \ {{}} : BatchUsers(r, t, ids)
       \/ \E n \in Tunnels : DelTunnel(r, n)
       \/ \E p \in Ports : PutSocks(r, p)
       \/ Apply(r) \/ SyncEntry(r) \/ Refuse(r) \/ WriteSB(r) \/ RestartSingBox(r) \/ RestartFails(r) \/ SaveDisabled(r)
       \/ WriteFails(r)
  \/ RestartProxy \/ Kill

Spec == Init /\ [][Next]_vars

-----------------------------------------------------------------------------
(* Properties.                                                             *)

Resting == \A r \in Requests : req[r].pc = "idle"

SocksObs == Socks(conf.obs)

(* The lists hold inbounds, outbounds belong to tunnels, and sbMu is held  *)
(* by the one handler between its check and its restart of sing-box.       *)
TypeOK ==
  /\ IsConf(conf) /\ disabled \in Seq(Tags)
  /\ tuns \cup live \subseteq Tunnels /\ listen \in Ports
  /\ \A r \in Requests : req[r].pc \in {"jobs", "inbounds", "outbounds", "route", "restart"} <=> lock = r

(* insertPlainRoute's promise: no plain rule of an inbound stands before   *)
(* the rule of one of its users, which sing-box would then never reach.    *)
UsersFirst == UsersBefore(conf.rules)

(* Between requests every rule leads to an outbound that exists, and every *)
(* outbound of the proxy belongs to an inbound of one of the lists, but    *)
(* for the inbounds whose own handler did not write all three files.       *)
NoDangling ==
  Resting =>
    /\ \A x \in ToSet(conf.rules) : x.inb \in torn \/ x.ob \in DOMAIN conf.obs
    /\ \A o \in SocksObs : o[2] \in torn \/ o[2] \in ToSet(conf.inb) \cup ToSet(disabled)

(* README: when an entry gets another exit, its nodes move along: the      *)
(* outbounds of its users are on the tunnel of its shared outbound.        *)
UsersFollow == Resting => Follow(conf.obs)

(* putSocks' promise: outbounds of known tunnels lead to the address the   *)
(* proxy listens on.                                                       *)
OutboundsFresh == Resting => \A o \in SocksObs : conf.obs[o].tun \in tuns => conf.obs[o].port = listen

(* The accounts of the outbounds are those the idle reaper passes over.    *)
Protected ==
  {o \in SocksObs : conf.obs[o].tun \in tuns} \subseteq EntryAccounts(conf, disabled, tuns)

(* entryAccounts' promise: between requests no account of an entry,        *)
(* enabled or not, is left to the idle reaper.                             *)
EntriesProtected == Resting => Protected

(* The same at any moment, as the reaper may look while a handler is       *)
(* between inbounds.json and the list of disabled inbounds.                *)
AlwaysProtected == Protected

(* Inbounds enabled, disabled, or in a handler's hands between the two.    *)
Kept == ToSet(conf.inb) \cup ToSet(disabled) \cup
        UNION {ToSet(req[r].new.inb) \cup ToSet(req[r].dis) :
                 r \in {q \in Requests : req[q].new # <<>>}}

(* An inbound is gone only when the operator deleted it: disabling it, or  *)
(* deleting the tunnel it is bound to, moves it between the two lists.     *)
NeverLost == [][\A t \in Kept \ Kept' : \E r \in Requests : req[r].kind = "delete" /\ req[r].tag = t]_vars
=============================================================================
