----------------------------- MODULE SingBoxConf -----------------------------
(***************************************************************************)
(* What singbox.go makes of sing-box's configuration: inbounds, the        *)
(* outbounds that lead back to the proxy, and the ordered route rules that *)
(* tie one to the other.  A configuration is a record                      *)
(*   inb    the sequence of enabled inbounds, each its tag                 *)
(*   obs    tag of an outbound -> [tun, port], the tunnel its account (or  *)
(*          bind_interface) names and the SOCKS5 port it points at         *)
(*   rules  the sequence of rules [inb, user, ob]                          *)
(***************************************************************************)
EXTENDS Integers, Sequences, FiniteSets, SequencesExt, SeqPick

CONSTANTS
  NoTag,    (* no inbound                                                   *)
  NoTun,    (* no tunnel                                                    *)
  NoUser    (* a rule without auth_user, the outbound of no single user     *)

(* Tags of outbounds: direct, ps-<inbound>, psu-<inbound>-<id> and         *)
(* wg-<tunnel>, the "direct + bind_interface" of older versions.           *)
Direct      == <<"direct", NoTag, NoUser>>
Ps(t)       == <<"ps", t, NoUser>>
Psu(t, id)  == <<"psu", t, id>>
Wg(n)       == <<"wg", n, NoUser>>
IsSocks(o)  == o[1] \in {"ps", "psu"}

(* psUserID: the outbounds of the users of inbound t.                      *)
UserObs(obs, t) == {o \in DOMAIN obs : o[1] = "psu" /\ o[2] = t}

(* outboundTunnel: an account is read back only if its tunnel is one of    *)
(* tuns, the tunnels in memory.                                            *)
OutboundTunnel(obs, tuns, o) ==
  IF o \notin DOMAIN obs \/ (IsSocks(o) /\ obs[o].tun \notin tuns) THEN NoTun ELSE obs[o].tun

(* The rules of inbound t, of its users, and of none of them.              *)
Of(rules, t)      == {i \in DOMAIN rules : rules[i].inb = t}
OfUsers(rules, t) == {i \in Of(rules, t) : rules[i].user # NoUser}
OfNone(rules, t)  == {i \in Of(rules, t) : rules[i].user = NoUser}

PlainRule(t, o)    == [inb |-> t, user |-> NoUser, ob |-> o]
UserRule(t, id, o) == [inb |-> t, user |-> id, ob |-> o]

(* outboundOf: the first rule of the inbound, of a user or not.            *)
OutboundOf(rules, t) == IF Of(rules, t) = {} THEN Direct ELSE rules[Min(Of(rules, t))].ob

Without(rules, t)      == Pick(rules, DOMAIN rules \ Of(rules, t))
WithoutPlain(rules, t) == Pick(rules, DOMAIN rules \ OfNone(rules, t))

(* Mutant: the plain rule comes first.                                     *)
InsertPlainFirst(rules, t, o) == <<PlainRule(t, o)>> \o rules

(* insertPlainRoute: right after the last rule of one of t's users.        *)
InsertPlain(rules, t, o) ==
  LET last == IF OfUsers(rules, t) = {} THEN 0 ELSE Max(OfUsers(rules, t))
  IN InsertAt(rules, last + 1, PlainRule(t, o))

(* findInbound, and the list without the inbound it finds.                 *)
Find(list, t)  == Min({i \in DOMAIN list : list[i] = t})
Taken(list, t) == Pick(list, DOMAIN list \ {Find(list, t)})

Drop(obs, S) == [o \in DOMAIN obs \ S |-> obs[o]]

(* pruneTunnelOutbounds: outbounds of older versions no rule uses.         *)
Prune(obs, rules) == Drop(obs, {o \in DOMAIN obs : o[1] = "wg" /\ \A i \in DOMAIN rules : rules[i].ob # o})

(* Mutant: the outbounds of users are left where they are.                 *)
AttachShared(c, t, n, port) ==
  LET rules == InsertPlain(WithoutPlain(c.rules, t), t, Ps(t))
      obs   == [o \in DOMAIN c.obs \cup {Ps(t)} |-> IF o = Ps(t) THEN [tun |-> n, port |-> port] ELSE c.obs[o]]
  IN [c EXCEPT !.rules = rules, !.obs = Prune(obs, rules)]

(* attachTunnelOutbound: the shared outbound of t and those of its users   *)
(* go to tunnel n; only t's plain rule is rewritten.                       *)
Attach(c, t, n, port) ==
  LET moved == UserObs(c.obs, t) \cup {Ps(t)}
      rules == InsertPlain(WithoutPlain(c.rules, t), t, Ps(t))
      obs   == [o \in DOMAIN c.obs \cup moved |-> IF o \in moved THEN [tun |-> n, port |-> port] ELSE c.obs[o]]
  IN [c EXCEPT !.rules = rules, !.obs = Prune(obs, rules)]

(* attachUserOutbound, for the users ids of t: ids are new.                *)
AttachUsers(c, t, n, ids, port) ==
  LET new == {Psu(t, id) : id \in ids} IN
  [c EXCEPT !.obs   = [o \in DOMAIN @ \cup new |-> IF o \in new THEN [tun |-> n, port |-> port] ELSE @[o]],
            !.rules = SetToSeq({UserRule(t, id, Psu(t, id)) : id \in ids}) \o @]

(* Mutant: only t's plain rule is removed.                                 *)
DetachPlain(c, t) ==
  [c EXCEPT !.rules = WithoutPlain(@, t), !.obs = Drop(@, UserObs(@, t) \cup {Ps(t)})]

(* removeRoutesForInbound and dropPSOutbound.                              *)
Detach(c, t) ==
  [c EXCEPT !.rules = Without(@, t), !.obs = Drop(@, UserObs(@, t) \cup {Ps(t)})]

(* stripTunnelFromSB: the outbounds of tunnel n, their rules, and the      *)
(* inbounds that used them, which are to be disabled.                      *)
Stripped(c, tuns, n) == {o \in DOMAIN c.obs : OutboundTunnel(c.obs, tuns, o) = n}

Strip(c, tuns, n) ==
  LET gone == Stripped(c, tuns, n) IN
  [inb   |-> Pick(c.inb, {i \in DOMAIN c.inb : OutboundOf(c.rules, c.inb[i]) \notin gone}),
   obs   |-> Drop(c.obs, gone),
   rules |-> Pick(c.rules, {i \in DOMAIN c.rules : c.rules[i].ob \notin gone})]

Moved(c, tuns, n) ==
  Pick(c.inb, {i \in DOMAIN c.inb : OutboundOf(c.rules, c.inb[i]) \in Stripped(c, tuns, n)})

(* entryTunnel: of the shared outbound, else of a user's (the first in the *)
(* file: any), else of the rule.                                           *)
EntryTunnel(c, tuns, t) ==
  LET ofUsers == {OutboundTunnel(c.obs, tuns, o) : o \in UserObs(c.obs, t)} \ {NoTun} IN
  IF OutboundTunnel(c.obs, tuns, Ps(t)) # NoTun THEN OutboundTunnel(c.obs, tuns, Ps(t))
  ELSE IF ofUsers # {} THEN CHOOSE n \in ofUsers : TRUE
  ELSE OutboundTunnel(c.obs, tuns, OutboundOf(c.rules, t))

(* entryOutboundsStale.                                                    *)
EntryStale(c, tuns, t, port) ==
  \/ Ps(t) \notin DOMAIN c.obs
  \/ \E o \in UserObs(c.obs, t) \cup {Ps(t)} : c.obs[o].port # port
  \/ \E o \in UserObs(c.obs, t) : c.obs[o].tun \notin tuns

(* Mutant: disabled inbounds are not looked at.                            *)
JobsEnabled(c, dis, tuns, port) ==
  {[tag |-> t, tun |-> EntryTunnel(c, tuns, t)] :
     t \in {u \in ToSet(c.inb) : EntryTunnel(c, tuns, u) \in tuns /\ EntryStale(c, tuns, u, port)}}

(* The jobs of syncEntryOutbounds: entries of both lists that go by a      *)
(* known tunnel and whose outbounds are stale.                             *)
Jobs(c, dis, tuns, port) ==
  {[tag |-> t, tun |-> EntryTunnel(c, tuns, t)] :
     t \in {u \in ToSet(c.inb) \cup ToSet(dis) :
              EntryTunnel(c, tuns, u) \in tuns /\ EntryStale(c, tuns, u, port)}}

(* Mutant: the disabled inbounds are forgotten.                            *)
EntryAccountsEnabled(c, dis, tuns) ==
  {o \in DOMAIN c.obs :
     /\ IsSocks(o) /\ c.obs[o].tun \in tuns
     /\ o[2] \in ToSet(c.inb) /\ OutboundOf(c.rules, o[2]) # Direct}

(* entryAccounts: the accounts (named by their outbounds) that the idle    *)
(* reaper must leave alone.                                                *)
EntryAccounts(c, dis, tuns) ==
  {o \in DOMAIN c.obs :
     /\ IsSocks(o) /\ c.obs[o].tun \in tuns
     /\ o[2] \in ToSet(c.inb) \cup ToSet(dis) /\ OutboundOf(c.rules, o[2]) # Direct}
=============================================================================
