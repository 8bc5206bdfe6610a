------------------------------ MODULE ShareLinks ------------------------------
(***************************************************************************)
(* The share links of url.txt.  Each line is a link somebody was given: it *)
(* names the port of a sing-box entry and the credentials of one of its    *)
(* users.  Handlers of the admin panel edit the lines inside applySingBox, *)
(* under its lock but before sing-box has checked the new configuration;   *)
(* delInbound removes lines after it, without the lock.                    *)
(*                                                                         *)
(* An entry here is enabled or not; how the list of disabled entries is    *)
(* kept, and outbounds and rules, are the matter of SingBoxAdmin.          *)
(***************************************************************************)
EXTENDS Integers, Sequences, FiniteSets, SequencesExt, SeqPick

CONSTANTS
  Requests,  (* goroutines of the admin server                              *)
  Tags,      (* of entries                                                  *)
  Ports,     (* listen ports an operator uses                               *)
  MaxCreds,  (* bound: credentials drawn                                    *)
  Starts,    (* entries and lines to start with: [ents, url]                *)
  Changes,   (* requests made: "socks", "clone", "batch", "port", "delete", *)
             (* "toggle"                                                    *)
  Habits,    (* of the operator: "apart", requests at one time are about    *)
             (* different entries, a deletion is alone; "fresh", an added   *)
             (* name and an asked port are of no entry, enabled or not, and *)
             (* of no other request; "own", a port change only of an entry  *)
             (* that is no socks entry and whose own line is its first;     *)
             (* "wary", none at all once a failure left lines and entries   *)
             (* at odds                                                     *)
  Faults,    (* "check": sing-box refuses a configuration; "restart": it    *)
             (* does not restart                                            *)
  NoTag,     (* no entry asked for                                          *)
  NoReq      (* nobody holds the lock                                       *)

ASSUME LinksAssumption ==
  Ports \subseteq Nat /\ MaxCreds \in Nat /\ 0 \notin Ports /\ NoTag \notin Tags /\ NoReq \notin Requests

(* Entries and lines whose credentials are the first n drawn.              *)
Entries(n) == [tag : Tags, kind : {"vless", "socks"}, port : Ports,
               users : Seq(1 .. n) \ {<<>>}, on : BOOLEAN]
Links(n)   == [port : Ports, cred : 1 .. n, whole : BOOLEAN]

CredsOf(es) == UNION {ToSet(e.users) : e \in es}

ASSUME StartsAssumption ==
  \A s \in Starts :
     LET n == Cardinality(CredsOf(s.ents)) IN
     n \in 0 .. MaxCreds /\ s \in [ents : SUBSET Entries(n), url : Seq(Links(n))]

VARIABLES
  ents,    (* entries: [tag, kind, port, users, on], users in order, by     *)
           (* their credentials                                             *)
  url,     (* lines of url.txt: [port, cred, whole]; one of a socks entry   *)
           (* that lost its user name is not whole                          *)
  lock,    (* holder of sbMu                                                *)
  req,     (* request -> [pc, op, tag, port, src, new, node, lines]         *)
  drawn,   (* credentials drawn so far: 1 .. drawn                          *)
  issued,  (* history: nodes a batch has answered                           *)
  cut      (* history: lines were edited for a configuration that was       *)
           (* refused, or not edited for a deletion that was done           *)

vars == <<ents, url, lock, req, drawn, issued, cut>>

Asked(pc, op, tag, port, src) ==
  [pc |-> pc, op |-> op, tag |-> tag, port |-> port, src |-> src,
   new |-> {}, node |-> 0, lines |-> <<>>]

Free == Asked("idle", "none", NoTag, 0, {})

Link(port, cred) == [port |-> port, cred |-> cred, whole |-> TRUE]

Named(es, tag)     == {e \in es : e.tag = tag}
Enabled(es)        == {e \in es : e.on}
Swapped(es, e, f)  == (es \ {e}) \cup {f}
LinesAt(port)      == {i \in DOMAIN url : url[i].port = port}

-----------------------------------------------------------------------------
(* Lines of url.txt.                                                       *)

(* inboundCreds in a link: of a socks user only the password is taken.     *)
OwnLink(port, e) == [port |-> port, cred |-> e.users[1], whole |-> e.kind # "socks"]

(* Mutant: only the first line follows.                                    *)
UpsertFirstOnly(lines, old, port, e) ==
  LET hits == {i \in DOMAIN lines : lines[i].port = old} IN
  IF old = port THEN lines
  ELSE [i \in DOMAIN lines |->
          IF i \in hits /\ \A j \in hits : i <= j THEN OwnLink(port, e) ELSE lines[i]]

(* upsertShareURL: all lines of the old port get the new one, the first    *)
(* of them the entry's credentials.  With equal ports, as when an entry is *)
(* cloned, it returns before it would add a line.                          *)
UpsertShareURL(lines, old, port, e) ==
  LET hits == {i \in DOMAIN lines : lines[i].port = old} IN
  IF old = port THEN lines
  ELSE [i \in DOMAIN lines |->
          IF i \notin hits THEN lines[i]
          ELSE IF \A j \in hits : i <= j THEN OwnLink(port, e)
          ELSE [lines[i] EXCEPT !.port = port]]

(* Mutant: nothing is removed.                                             *)
RemoveNothing(lines, port) == lines

RemoveShareURL(lines, port) == Pick(lines, {i \in DOMAIN lines : lines[i].port # port})

-----------------------------------------------------------------------------
Init ==
  /\ \E s \in Starts : ents = s.ents /\ url = s.url /\ drawn = Cardinality(CredsOf(s.ents))
  /\ lock = NoReq /\ req = [r \in Requests |-> Free] /\ issued = {} /\ cut = FALSE

(* What an operator may ask for next to the other requests.                *)
MayAsk(r, op, tag) ==
  /\ op \in Changes /\ req[r].pc = "idle"
  /\ "wary" \in Habits => ~cut
  /\ "apart" \in Habits =>
       \A q \in Requests \ {r} : req[q].pc # "idle" =>
          req[q].tag # tag /\ op # "delete" /\ req[q].op # "delete"

GoodPort(r, port) ==
  "fresh" \in Habits =>
    /\ \A e \in ents : e.port # port
    /\ \A q \in Requests \ {r} : req[q].port # port

Ask(r, op, tag, port, src) ==
  /\ req' = [req EXCEPT ![r] = Asked("apply", op, tag, port, src)]
  /\ UNCHANGED <<ents, url, lock, drawn, issued, cut>>

(* addInbound and cloneVLESSForTunnel: the entry to clone is read before   *)
(* the lock is taken; a socks entry may be made from nothing.              *)
AddInbound(r, tag, port) ==
  /\ GoodPort(r, port)
  /\ "fresh" \in Habits => Named(ents, tag) = {}
  /\ \/ MayAsk(r, "socks", tag) /\ Ask(r, "add", tag, port, {})
     \/ MayAsk(r, "clone", tag) /\ \E e \in Enabled(ents) : Ask(r, "add", tag, port, {e})

(* generateUsers: so are the port and the template, which any line with a  *)
(* host gives.                                                             *)
BatchUsers(r, tag) ==
  /\ MayAsk(r, "batch", tag) /\ url # <<>>
  /\ \E e \in Named(Enabled(ents), tag) : Ask(r, "batch", tag, e.port, {})

(* putInbound with a port.                                                 *)
PutPort(r, tag, port) ==
  /\ MayAsk(r, "port", tag) /\ GoodPort(r, port)
  /\ "own" \in Habits =>
       \A e \in Named(ents, tag) :
          /\ e.kind # "socks"
          /\ LinesAt(e.port) # {} => \E i \in LinesAt(e.port) :
                url[i] = Link(e.port, e.users[1]) /\ \A j \in LinesAt(e.port) : i <= j
  /\ Ask(r, "port", tag, port, {})

(* putInbound with enabled, and delInbound.                                *)
PutEnabled(r, tag) == MayAsk(r, "toggle", tag) /\ Ask(r, "toggle", tag, 0, {})
DelInbound(r, tag) == MayAsk(r, "delete", tag) /\ Ask(r, "delete", tag, 0, {})

-----------------------------------------------------------------------------
(* applySingBox.                                                           *)

(* Mutant: there is no lock.                                               *)
MayEnterAlways(r) == req[r].pc = "apply"

MayEnter(r) == req[r].pc = "apply" /\ lock = NoReq

(* The lock is taken, the files are loaded and changed in memory; the      *)
(* lines of url.txt already on disk.                                       *)
Change(r, new, lines, port, node) ==
  /\ lock' = r /\ url' = lines
  /\ req' = [req EXCEPT ![r].pc = "check", ![r].new = new, ![r].port = port, ![r].node = node]
  /\ drawn' = IF node = 0 THEN drawn ELSE node
  /\ UNCHANGED <<ents, issued, cut>>

ApplyAdd(r) ==
  LET q == req[r]
      cred  == drawn + 1
      socks == \A e \in q.src : e.kind = "socks"
      users == IF socks THEN <<cred>> ELSE [i \in DOMAIN (CHOOSE e \in q.src : TRUE).users |-> cred]
      e     == [tag |-> q.tag, kind |-> IF socks THEN "socks" ELSE "vless", port |-> q.port,
                users |-> users, on |-> TRUE] IN
  /\ MayEnter(r) /\ q.op = "add" /\ cred <= MaxCreds
  /\ \A f \in Enabled(ents) : f.tag # q.tag /\ f.port # q.port
  /\ Change(r, ents \cup {e},
            IF socks /\ url # <<>> THEN Append(url, Link(q.port, cred))
                                   ELSE UpsertShareURL(url, q.port, q.port, e),
            q.port, cred)

(* One user is added, its line with the port read before.                  *)
ApplyBatch(r) ==
  LET q == req[r]  cred == drawn + 1 IN
  /\ MayEnter(r) /\ q.op = "batch" /\ cred <= MaxCreds
  /\ \E e \in Named(Enabled(ents), q.tag) :
       Change(r, Swapped(ents, e, [e EXCEPT !.users = Append(@, cred)]),
              Append(url, Link(q.port, cred)), q.port, cred)

(* The new port is compared with no other entry's.                         *)
ApplyPort(r) ==
  LET q == req[r] IN
  /\ MayEnter(r) /\ q.op = "port"
  /\ \E e \in Named(Enabled(ents), q.tag) :
       Change(r, Swapped(ents, e, [e EXCEPT !.port = q.port]),
              UpsertShareURL(url, e.port, q.port, e), q.port, 0)

ApplyToggle(r) ==
  /\ MayEnter(r) /\ req[r].op = "toggle"
  /\ \E e \in Named(ents, req[r].tag) : Change(r, Swapped(ents, e, [e EXCEPT !.on = ~@]), url, 0, 0)

(* An enabled entry of that name goes before a disabled one.               *)
ApplyDelete(r) ==
  /\ MayEnter(r) /\ req[r].op = "delete"
  /\ \E e \in Named(ents, req[r].tag) :
       /\ e.on \/ Named(Enabled(ents), req[r].tag) = {}
       /\ Change(r, ents \ {e}, url, e.port, 0)

(* The change does not apply: no such entry, or name or port taken.        *)
Refuse(r) ==
  LET q == req[r] IN
  /\ MayEnter(r)
  /\ CASE q.op = "add"   -> \E f \in Enabled(ents) : f.tag = q.tag \/ f.port = q.port
       [] q.op \in {"batch", "port"} -> Named(Enabled(ents), q.tag) = {}
       [] OTHER          -> Named(ents, q.tag) = {}
  /\ req' = [req EXCEPT ![r] = Free]
  /\ UNCHANGED <<ents, url, lock, drawn, issued, cut>>

(* Mutant: a way out that keeps the lock.                                  *)
LeaveLocked(r, next) ==
  /\ lock' = lock
  /\ req' = [req EXCEPT ![r] = next]

Leave(r, next) ==
  /\ lock' = NoReq
  /\ req' = [req EXCEPT ![r] = next]

(* sing-box check refuses the configuration; the lines stay as they are.   *)
CheckFails(r) ==
  /\ "check" \in Faults /\ req[r].pc = "check"
  /\ Leave(r, Free)
  /\ cut' = (cut \/ req[r].op \in {"add", "batch", "port"})
  /\ UNCHANGED <<ents, url, drawn, issued>>

WriteSB(r) ==
  /\ req[r].pc = "check"
  /\ ents' = req[r].new
  /\ req' = [req EXCEPT ![r].pc = "restart"]
  /\ UNCHANGED <<url, lock, drawn, issued, cut>>

(* The handler answers, with the node a batch made; a deletion goes on to  *)
(* the lines, without the lock.                                            *)
RestartSB(r) ==
  /\ req[r].pc = "restart"
  /\ Leave(r, IF req[r].op = "delete" THEN [req[r] EXCEPT !.pc = "load", !.new = {}] ELSE Free)
  /\ issued' = IF req[r].op = "batch" THEN issued \cup {req[r].node} ELSE issued
  /\ UNCHANGED <<ents, url, drawn, cut>>

RestartFails(r) ==
  /\ "restart" \in Faults /\ req[r].pc = "restart"
  /\ Leave(r, Free)
  /\ cut' = (cut \/ req[r].op = "delete")
  /\ UNCHANGED <<ents, url, drawn, issued>>

(* removeShareURL reads the lines ...                                      *)
LoadLines(r) ==
  /\ req[r].pc = "load"
  /\ req' = [req EXCEPT ![r].pc = "save", ![r].lines = url]
  /\ UNCHANGED <<ents, url, lock, drawn, issued, cut>>

(* ... and writes those that stay.                                         *)
SaveLines(r) ==
  /\ req[r].pc = "save"
  /\ url' = RemoveShareURL(req[r].lines, req[r].port)
  /\ req' = [req EXCEPT ![r] = Free]
  /\ UNCHANGED <<ents, lock, drawn, issued, cut>>

Next ==
  \E r \in Requests :
    \/ \E tag \in Tags :
         \/ \E port \in Ports : AddInbound(r, tag, port) \/ PutPort(r, tag, port)
         \/ BatchUsers(r, tag) \/ PutEnabled(r, tag) \/ DelInbound(r, tag)
    \/ ApplyAdd(r) \/ ApplyBatch(r) \/ ApplyPort(r) \/ ApplyToggle(r) \/ ApplyDelete(r)
    \/ Refuse(r) \/ CheckFails(r) \/ WriteSB(r) \/ RestartSB(r) \/ RestartFails(r)
    \/ LoadLines(r) \/ SaveLines(r)

Spec == Init /\ [][Next]_vars

-----------------------------------------------------------------------------
(* What the theorems assume of the operator, and of the files at the start.*)

Careful == {"apart", "fresh", "own"} \subseteq Habits

(* Entries differ in name and in port, and every line opens one of them.   *)
Consistent(es, lines) ==
  /\ \A e, f \in es : e.tag = f.tag \/ e.port = f.port => e = f
  /\ \A i \in DOMAIN lines : \E e \in es : e.port = lines[i].port
  /\ \A e \in es, i \in DOMAIN lines :
        lines[i].port = e.port => lines[i].whole /\ lines[i].cred \in ToSet(e.users)

StartsConsistent == \A s \in Starts : Consistent(s.ents, s.url)

-----------------------------------------------------------------------------
(* Properties.                                                             *)

Reqs(n) == [pc : {"idle", "apply", "check", "restart", "load", "save"},
            op : {"none", "add", "batch", "port", "toggle", "delete"},
            tag : Tags \cup {NoTag}, port : Ports \cup {0}, src : SUBSET Entries(n),
            new : SUBSET Entries(n), node : 0 .. n, lines : Seq(Links(n))]

(* Entries have users, lines name ports and credentials that were drawn,   *)
(* and the lock is held exactly by the request between its change and its  *)
(* answer: every way out of applySingBox gives it back.                    *)
TypeOK ==
  /\ drawn \in 0 .. MaxCreds /\ issued \subseteq 1 .. drawn
  /\ ents \subseteq Entries(drawn) /\ url \in Seq(Links(drawn))
  /\ req \in [Requests -> Reqs(drawn)] /\ lock \in Requests \cup {NoReq} /\ cut \in BOOLEAN
  /\ \A r \in Requests : lock = r <=> req[r].pc \in {"check", "restart"}

Resting == \A r \in Requests : req[r].pc = "idle"

(* README.md: changing a port takes along all lines of it, those of nodes  *)
(* included, and keeps their credentials.  A node that was handed out and  *)
(* is still a user of an entry has its line with the entry's port.         *)
NodesLinked ==
  Resting /\ ~cut =>
    \A e \in ents : \A n \in issued \cap ToSet(e.users) : Link(e.port, n) \in ToSet(url)

NoOrphansEver == Resting => \A i \in DOMAIN url : \E e \in ents : e.port = url[i].port

(* Every line is of an entry, unless sing-box failed in the middle: none   *)
(* outlives it, to be taken for the link or the template of a later entry  *)
(* on its port.                                                            *)
NoOrphanLinks == ~cut => NoOrphansEver

(* Every line with an entry's port opens it: it carries, whole, what one   *)
(* of the entry's users logs in with.                                      *)
LinksOpen ==
  Resting /\ ~cut =>
    \A e \in ents : \A i \in LinesAt(e.port) : url[i].whole /\ url[i].cred \in ToSet(e.users)
=============================================================================
