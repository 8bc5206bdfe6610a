--------------------------- MODULE ShareLinksProofs ---------------------------
(***************************************************************************)
(* The lines of url.txt and the entries of sing-box stay in step, for      *)
(* every set of requests, names, ports and starts, when the operator has   *)
(* the Habits of the run and nothing was cut.                              *)
(***************************************************************************)
EXTENDS ShareLinks, SeqPickProofs

Busy(r)    == req[r].pc # "idle"
Waiting(r) == req[r].pc = "apply"
Midway(r)  == req[r].pc \in {"check", "restart"}
Cleaning(r) == req[r].pc \in {"load", "save"}

(* The request that holds the lock has an answer to give; one that waits   *)
(* for it knows what it asks for.                                          *)
AsksRight(q) ==
  /\ q.pc # "idle" => q.op # "none"
  /\ q.pc = "apply" /\ q.op \in {"add", "batch", "port"} => q.tag \in Tags /\ q.port \in Ports
  /\ \A e, f \in q.src : e = f
  /\ q.pc \in {"check", "restart"} /\ q.op = "batch" => q.node # 0
  /\ q.pc \in {"load", "save"} => q.op = "delete"

TypeInv == TypeOK /\ \A r \in Requests : AsksRight(req[r])

(* Requests at one time are about different entries; a deletion is alone.  *)
Apart ==
  \A r, q \in Requests : r # q /\ Busy(r) /\ Busy(q) =>
     req[r].tag # req[q].tag /\ req[r].op # "delete"

(* The entries there are, and those there will be when the request that    *)
(* holds the lock has written them.                                        *)
Present == IF lock = NoReq THEN ents ELSE ents \cup req[lock].new

(* The first of the lines of an entry is the one upsertShareURL writes.    *)
FirstIsOwn(e) ==
  /\ e.kind # "socks"
  /\ LinesAt(e.port) # {} => \E i \in LinesAt(e.port) :
        url[i] = Link(e.port, e.users[1]) /\ \A j \in LinesAt(e.port) : i <= j

FreshPort(r) ==
  /\ \A e \in Present : e.port # req[r].port
  /\ \A q \in Requests \ {r} : req[q].port # req[r].port

(* What a request found before it took the lock is still so when it does.  *)
StillTrue(r) ==
  Waiting(r) =>
    /\ req[r].op \in {"add", "port"} => FreshPort(r)
    /\ req[r].op = "add"   => Named(Present, req[r].tag) = {}
    /\ req[r].op = "port"  => \A e \in Named(Present, req[r].tag) : FirstIsOwn(e)
    /\ req[r].op = "batch" => \A e \in Named(Present, req[r].tag) : e.port = req[r].port

(* The change under way is to the entry asked for, and to no other.        *)
OneEntryChanges ==
  lock # NoReq =>
    LET q == req[lock] IN
    /\ \A e \in q.new \cup ents : e.tag # q.tag => e \in q.new /\ e \in ents
    /\ \A e \in q.new : e.port = q.port \/ \E f \in ents : f.port = e.port
    /\ q.pc = "restart" => ents = q.new
    /\ q.op = "delete" => \A e \in q.new : e.port # q.port
    /\ q.op = "delete" /\ q.pc = "check" => \E e \in ents : e.port = q.port

(* Nothing happens to the lines, or to the port, of an entry just deleted. *)
CleansUp(r) ==
  Cleaning(r) =>
    /\ \A e \in ents : e.port # req[r].port
    /\ req[r].pc = "save" => req[r].lines = url

(* The ports whose lines are on their way out, and the nodes answered or   *)
(* about to be.                                                            *)
Removes(r)   == req[r].op = "delete" /\ (Midway(r) \/ Cleaning(r))
Doomed(port) == \E r \in Requests : Removes(r) /\ req[r].port = port
Answered     == IF lock # NoReq /\ req[lock].op = "batch" THEN issued \cup {req[lock].node} ELSE issued

(* The lines are those of the entries es.                                  *)
Differ(es) == \A e, f \in es : e.tag = f.tag \/ e.port = f.port => e = f

EachLineHasEntry(es) ==
  \A i \in DOMAIN url : Doomed(url[i].port) \/ \E e \in es : e.port = url[i].port

EachLineOpens(es) ==
  \A e \in es : \A i \in LinesAt(e.port) : url[i].whole /\ url[i].cred \in ToSet(e.users)

EachNodeHasLine(es) ==
  \A e \in es : \A n \in Answered \cap ToSet(e.users) : Link(e.port, n) \in ToSet(url)

Agrees(es) == Differ(es) /\ EachLineHasEntry(es) /\ EachLineOpens(es) /\ EachNodeHasLine(es)

(* They are those of the entries on disk, unless a change under way has    *)
(* edited them already, and of the entries it will leave.                  *)
LinesAgree ==
  /\ lock = NoReq \/ req[lock].op \in {"toggle", "delete"} => Agrees(ents)
  /\ lock # NoReq => Agrees(req[lock].new)

InStep ==
  /\ \A r \in Requests : StillTrue(r) /\ CleansUp(r)
  /\ OneEntryChanges /\ LinesAgree

LinkInv == TypeInv /\ Apart /\ (~cut => InStep)

-----------------------------------------------------------------------------
(* Types.                                                                  *)

LEMMA TypesGrow ==
  ASSUME NEW m \in Nat, NEW n \in Nat, m <= n
  PROVE  /\ Entries(m) \subseteq Entries(n) /\ Seq(Links(m)) \subseteq Seq(Links(n))
         /\ Reqs(m) \subseteq Reqs(n)
  <1>1. 1 .. m \subseteq 1 .. n /\ 0 .. m \subseteq 0 .. n
    OBVIOUS
  <1>2. Seq(1 .. m) \subseteq Seq(1 .. n)
    BY <1>1, SeqMonotonic
  <1>3. Entries(m) \subseteq Entries(n)
    BY <1>2 DEF Entries
  <1>4. Links(m) \subseteq Links(n)
    BY <1>1 DEF Links
  <1>5. Seq(Links(m)) \subseteq Seq(Links(n))
    BY <1>4, SeqMonotonic
  <1>6. Reqs(m) \subseteq Reqs(n)
    BY <1>1, <1>3, <1>5 DEF Reqs
  <1> QED BY <1>3, <1>5, <1>6

LEMMA TypeFacts ==
  ASSUME TypeInv
  PROVE  /\ drawn \in Nat /\ MaxCreds \in Nat /\ drawn <= MaxCreds
         /\ \A r \in Requests : req[r] \in Reqs(drawn) /\ AsksRight(req[r])
         /\ DOMAIN req = Requests
  BY LinksAssumption DEF TypeInv, TypeOK

(* A step of one request.                                                  *)
LEMMA OneReqType ==
  ASSUME TypeInv, NEW r \in Requests, NEW x \in Reqs(drawn'), AsksRight(x),
         req' = [req EXCEPT ![r] = x],
         drawn' \in drawn .. MaxCreds, ents' \subseteq Entries(drawn'), url' \in Seq(Links(drawn')),
         issued' \subseteq 1 .. drawn', cut' \in BOOLEAN, lock' \in Requests \cup {NoReq},
         lock' = r <=> x.pc \in {"check", "restart"},
         \A q \in Requests \ {r} : lock' = q <=> lock = q
  PROVE  TypeInv'
  <1>1. drawn' \in 0 .. MaxCreds /\ Reqs(drawn) \subseteq Reqs(drawn')
    <2>1. drawn \in Nat /\ drawn' \in Nat /\ drawn <= drawn' /\ drawn' <= MaxCreds
      BY TypeFacts
    <2> QED BY <2>1, TypesGrow
  <1>2. req' \in [Requests -> Reqs(drawn')]
    BY <1>1 DEF TypeInv, TypeOK
  <1>3. \A q \in Requests : req'[q] = IF q = r THEN x ELSE req[q]
    BY TypeFacts
  <1>4. \A q \in Requests : lock' = q <=> req'[q].pc \in {"check", "restart"}
    BY <1>3 DEF TypeInv, TypeOK
  <1>5. \A q \in Requests : AsksRight(req'[q])
    BY <1>3, TypeFacts
  <1>6. TypeOK'
    BY <1>1, <1>2, <1>4 DEF TypeOK
  <1> QED BY <1>5, <1>6 DEF TypeInv

LEMMA FreeType ==
  ASSUME drawn \in Nat
  PROVE  Free \in Reqs(drawn) /\ AsksRight(Free) /\ Free.pc = "idle"
  <1>1. <<>> \in Seq(Links(drawn)) /\ 0 \in 0 .. drawn
    BY EmptySeq
  <1> QED BY <1>1 DEF Free, Asked, Reqs, AsksRight

LEMMA TypeInit == Init => TypeInv
  <1> SUFFICES ASSUME Init PROVE TypeInv
    OBVIOUS
  <1>1. PICK s \in Starts : ents = s.ents /\ url = s.url /\ drawn = Cardinality(CredsOf(s.ents))
    BY DEF Init
  <1>2. ents \subseteq Entries(drawn) /\ url \in Seq(Links(drawn)) /\ drawn \in 0 .. MaxCreds
    BY <1>1, StartsAssumption
  <1>3. req = [r \in Requests |-> Free] /\ lock = NoReq /\ issued = {} /\ cut = FALSE
    BY DEF Init
  <1>4. drawn \in Nat /\ NoReq \notin Requests
    BY <1>2, LinksAssumption
  <1>5. req \in [Requests -> Reqs(drawn)] /\ \A r \in Requests : AsksRight(req[r]) /\ req[r].pc = "idle"
    BY <1>3, <1>4, FreeType
  <1> QED BY <1>2, <1>3, <1>4, <1>5 DEF TypeInv, TypeOK

LEMMA AskType ==
  ASSUME TypeInv, NEW r \in Requests, req[r].pc = "idle",
         NEW op \in {"add", "batch", "port", "toggle", "delete"}, NEW tag \in Tags,
         NEW port \in Ports \cup {0}, op \in {"add", "batch", "port"} => port \in Ports,
         NEW src \in SUBSET ents, \A e, f \in src : e = f,
         Ask(r, op, tag, port, src)
  PROVE  TypeInv'
  <1> DEFINE x == Asked("apply", op, tag, port, src)
  <1>1. req' = [req EXCEPT ![r] = x] /\ UNCHANGED <<ents, url, lock, drawn, issued, cut>>
    BY DEF Ask
  <1>2. src \subseteq Entries(drawn)
    BY DEF TypeInv, TypeOK
  <1>3. <<>> \in Seq(Links(drawn)) /\ 0 \in 0 .. drawn
    BY EmptySeq, TypeFacts
  <1>4. x \in Reqs(drawn) /\ AsksRight(x) /\ x.pc = "apply"
    BY <1>2, <1>3 DEF Asked, Reqs, AsksRight
  <1> HIDE DEF x
  <1>5. lock # r
    BY DEF TypeInv, TypeOK
  <1> QED BY <1>1, <1>4, <1>5, OneReqType, TypeFacts DEF TypeInv, TypeOK
(* The step under the lock.                                                *)
Changed(q, new, port, node) ==
  [q EXCEPT !.pc = "check", !.new = new, !.port = port, !.node = node]

LEMMA ChangeFacts ==
  ASSUME TypeInv, NEW r \in Requests, NEW new, NEW lines, NEW port, NEW node,
         MayEnter(r), Change(r, new, lines, port, node)
  PROVE  LET x == Changed(req[r], new, port, node) IN
         /\ req' = [req EXCEPT ![r] = x]
         /\ x.pc = "check" /\ x.new = new /\ x.port = port /\ x.node = node
         /\ x.op = req[r].op /\ x.tag = req[r].tag /\ x.src = req[r].src /\ x.lines = req[r].lines
         /\ req[r].pc = "apply" /\ lock = NoReq /\ lock' = r /\ url' = lines
         /\ drawn' = IF node = 0 THEN drawn ELSE node
         /\ UNCHANGED <<ents, issued, cut>>
  <1> DEFINE x == Changed(req[r], new, port, node)
  <1>1. req[r] \in Reqs(drawn) /\ DOMAIN req = Requests
    BY TypeFacts
  <1>2. req' = [req EXCEPT ![r] = x]
    BY <1>1 DEF Change, Changed
  <1>3. /\ x.pc = "check" /\ x.new = new /\ x.port = port /\ x.node = node
        /\ x.op = req[r].op /\ x.tag = req[r].tag /\ x.src = req[r].src /\ x.lines = req[r].lines
    BY <1>1 DEF Changed, Reqs
  <1> HIDE DEF x
  <1> QED BY <1>2, <1>3 DEF Change, MayEnter, x

LEMMA ChangeType ==
  ASSUME TypeInv, NEW r \in Requests, NEW new, NEW lines,
         NEW port \in Ports \cup {0}, NEW node \in {0, drawn + 1},
         MayEnter(r), Change(r, new, lines, port, node), node <= MaxCreds,
         new \subseteq Entries(IF node = 0 THEN drawn ELSE node),
         lines \in Seq(Links(IF node = 0 THEN drawn ELSE node)),
         req[r].op = "batch" => node # 0
  PROVE  TypeInv'
  <1> DEFINE x == Changed(req[r], new, port, node)
             n == IF node = 0 THEN drawn ELSE node
  <1>1. /\ req' = [req EXCEPT ![r] = x]
        /\ x.pc = "check" /\ x.new = new /\ x.port = port /\ x.node = node
        /\ x.op = req[r].op /\ x.tag = req[r].tag /\ x.src = req[r].src /\ x.lines = req[r].lines
        /\ req[r].pc = "apply" /\ lock = NoReq /\ lock' = r /\ url' = lines /\ drawn' = n
        /\ UNCHANGED <<ents, issued, cut>>
    BY ChangeFacts
  <1>2. /\ n \in Nat /\ drawn \in Nat /\ drawn <= n /\ n <= MaxCreds /\ MaxCreds \in Nat /\ node \in 0 .. n
        /\ req[r] \in Reqs(drawn) /\ AsksRight(req[r])
    BY TypeFacts
  <1>3. req[r] \in Reqs(n) /\ Entries(drawn) \subseteq Entries(n)
    BY <1>2, TypesGrow
  <1>4. x \in Reqs(n)
    <2>1. x = [req[r] EXCEPT !.pc = "check", !.new = new, !.port = port, !.node = node]
      BY DEF Changed
    <2> HIDE DEF x, n
    <2>2. new \subseteq Entries(n)
      BY DEF n
    <2> QED BY <1>2, <1>3, <2>1, <2>2 DEF Reqs
  <1> HIDE DEF x
  <1>5. AsksRight(x)
    BY <1>1, <1>2 DEF AsksRight
  <1>6. lock' \in Requests /\ \A q \in Requests \ {r} : lock' = q <=> lock = q
    BY <1>1, LinksAssumption
  <1> HIDE DEF n
  <1>7. /\ drawn' \in drawn .. MaxCreds /\ ents' \subseteq Entries(drawn')
        /\ issued' \subseteq 1 .. drawn' /\ cut' \in BOOLEAN
    BY <1>1, <1>2, <1>3 DEF TypeInv, TypeOK
  <1>8. url' \in Seq(Links(drawn'))
    BY <1>1 DEF n
  <1> QED BY <1>1, <1>4, <1>5, <1>6, <1>7, <1>8, OneReqType

(* What ApplyAdd adds.                                                     *)
LEMMA AddFacts ==
  ASSUME TypeInv, NEW r \in Requests, ApplyAdd(r)
  PROVE  /\ MayEnter(r) /\ req[r].op = "add" /\ drawn + 1 <= MaxCreds
         /\ req[r].port \in Ports
         /\ \E e \in Entries(drawn + 1), lines \in {url, Append(url, Link(req[r].port, drawn + 1))} :
              /\ e.tag = req[r].tag /\ e.port = req[r].port /\ ToSet(e.users) = {drawn + 1}
              /\ Change(r, ents \cup {e}, lines, req[r].port, drawn + 1)
  <1> DEFINE q == req[r]
             cred == drawn + 1
             socks == \A e \in q.src : e.kind = "socks"
             users == IF socks THEN <<cred>>
                      ELSE [i \in DOMAIN (CHOOSE e \in q.src : TRUE).users |-> cred]
             e == [tag |-> q.tag, kind |-> IF socks THEN "socks" ELSE "vless", port |-> q.port,
                   users |-> users, on |-> TRUE]
             lines == IF socks /\ url # <<>> THEN Append(url, Link(q.port, cred))
                                            ELSE UpsertShareURL(url, q.port, q.port, e)
  <1>1. /\ MayEnter(r) /\ q.op = "add" /\ cred <= MaxCreds
        /\ Change(r, ents \cup {e}, lines, q.port, cred)
    BY DEF ApplyAdd
  <1>2. q.tag \in Tags /\ q.port \in Ports /\ q.src \subseteq Entries(drawn) /\ drawn \in Nat
    BY <1>1, TypeFacts DEF MayEnter, AsksRight, Reqs
  <1>3. users \in Seq(1 .. cred) \ {<<>>} /\ ToSet(users) = {cred}
    <2>1. CASE socks
      <3>1. users = <<cred>>
        BY <2>1
      <3> HIDE DEF users
      <3> QED BY <1>2, <3>1 DEF ToSet
    <2>2. CASE ~socks
      <3> DEFINE f == CHOOSE f \in q.src : TRUE
      <3>1. f \in Entries(drawn)
        BY <1>2, <2>2
      <3>2. f.users \in Seq(1 .. drawn) /\ f.users # <<>>
        BY <3>1 DEF Entries
      <3>3. users = [i \in DOMAIN f.users |-> cred]
        BY <2>2
      <3> HIDE DEF users, f
      <3>4. /\ Len(f.users) \in Nat \ {0} /\ DOMAIN f.users = 1 .. Len(f.users)
        BY <3>2, EmptySeq
      <3>5. users \in [1 .. Len(f.users) -> 1 .. cred] /\ users[1] = cred
        BY <1>2, <3>3, <3>4
      <3>6. users \in Seq(1 .. cred)
        BY <3>4, <3>5, SeqDef
      <3>7. users # <<>> /\ ToSet(users) = {cred}
        BY <3>3, <3>4, <3>5 DEF ToSet
      <3> QED BY <3>6, <3>7
    <2> QED BY <2>1, <2>2
  <1>4. e \in Entries(cred) /\ e.tag = q.tag /\ e.port = q.port /\ e.users = users
    BY <1>2, <1>3 DEF Entries
  <1>5. lines \in {url, Append(url, Link(q.port, cred))}
    BY DEF UpsertShareURL
  <1> HIDE DEF e, lines, users
  <1> QED BY <1>1, <1>2, <1>3, <1>4, <1>5

LEMMA AppendLink ==
  ASSUME TypeInv, NEW port \in Ports
  PROVE  Append(url, Link(port, drawn + 1)) \in Seq(Links(drawn + 1)) /\ url \in Seq(Links(drawn + 1))
  <1>1. drawn \in Nat
    BY TypeFacts
  <1>2. Link(port, drawn + 1) \in Links(drawn + 1)
    BY <1>1 DEF Link, Links
  <1>3. url \in Seq(Links(drawn + 1))
    BY <1>1, TypesGrow DEF TypeInv, TypeOK
  <1> QED BY <1>2, <1>3

LEMMA AddType ==
  ASSUME TypeInv, NEW r \in Requests, ApplyAdd(r)
  PROVE  TypeInv'
  <1>1. PICK e \in Entries(drawn + 1), lines \in {url, Append(url, Link(req[r].port, drawn + 1))} :
          Change(r, ents \cup {e}, lines, req[r].port, drawn + 1)
    BY AddFacts
  <1>2. /\ MayEnter(r) /\ req[r].op = "add" /\ drawn + 1 <= MaxCreds /\ req[r].port \in Ports
        /\ drawn \in Nat /\ drawn + 1 # 0
    BY AddFacts, TypeFacts
  <1>3. ents \cup {e} \subseteq Entries(drawn + 1)
    BY <1>2, TypesGrow DEF TypeInv, TypeOK
  <1>4. lines \in Seq(Links(drawn + 1))
    BY <1>2, AppendLink
  <1> QED BY <1>1, <1>2, <1>3, <1>4, ChangeType
(* Another entry for one of those there are.                               *)
LEMMA BatchType ==
  ASSUME TypeInv, NEW r \in Requests, ApplyBatch(r)
  PROVE  TypeInv'
  <1> DEFINE q == req[r]
             cred == drawn + 1
  <1>1. PICK e \in Named(Enabled(ents), q.tag) :
          Change(r, Swapped(ents, e, [e EXCEPT !.users = Append(@, cred)]),
                 Append(url, Link(q.port, cred)), q.port, cred)
    BY DEF ApplyBatch
  <1>2. MayEnter(r) /\ q.op = "batch" /\ cred <= MaxCreds
    BY DEF ApplyBatch
  <1>3. q.port \in Ports /\ drawn \in Nat /\ cred # 0
    BY <1>2, TypeFacts DEF MayEnter, AsksRight
  <1>4. Entries(drawn) \subseteq Entries(cred) /\ e \in ents /\ ents \subseteq Entries(drawn)
    BY <1>3, TypesGrow DEF TypeInv, TypeOK, Named, Enabled
  <1>5. [e EXCEPT !.users = Append(@, cred)] \in Entries(cred)
    <2>1. e \in Entries(cred) /\ cred \in 1 .. cred
      BY <1>3, <1>4
    <2>2. Append(e.users, cred) \in Seq(1 .. cred) \ {<<>>}
      BY <2>1, AppendProperties DEF Entries
    <2> HIDE DEF cred
    <2> QED BY <2>1, <2>2 DEF Entries
  <1>6. Swapped(ents, e, [e EXCEPT !.users = Append(@, cred)]) \subseteq Entries(cred)
    BY <1>4, <1>5 DEF Swapped
  <1>7. Append(url, Link(q.port, cred)) \in Seq(Links(cred))
    BY <1>3, AppendLink
  <1> QED BY <1>1, <1>2, <1>3, <1>6, <1>7, ChangeType

LEMMA UpsertType ==
  ASSUME NEW n \in Nat, NEW lines \in Seq(Links(n)), NEW old, NEW port \in Ports,
         NEW e \in Entries(n)
  PROVE  UpsertShareURL(lines, old, port, e) \in Seq(Links(n))
  <1>1. e.users[1] \in 1 .. n
    <2>1. e.users \in Seq(1 .. n) /\ e.users # <<>>
      BY DEF Entries
    <2> QED BY <2>1, EmptySeq
  <1>2. OwnLink(port, e) \in Links(n)
    BY <1>1 DEF OwnLink, Links
  <1>3. \A l \in Links(n) : [l EXCEPT !.port = port] \in Links(n)
    BY DEF Links
  <1>4. Len(lines) \in Nat /\ DOMAIN lines = 1 .. Len(lines) /\ \A i \in DOMAIN lines : lines[i] \in Links(n)
    OBVIOUS
  <1>5. CASE old = port
    BY <1>5 DEF UpsertShareURL
  <1>6. CASE old # port
    <2> DEFINE hits == {i \in DOMAIN lines : lines[i].port = old}
               L(i) == IF i \notin hits THEN lines[i]
                       ELSE IF \A j \in hits : i <= j THEN OwnLink(port, e)
                       ELSE [lines[i] EXCEPT !.port = port]
    <2>1. \A i \in 1 .. Len(lines) : L(i) \in Links(n)
      BY <1>2, <1>3, <1>4
    <2>2. UpsertShareURL(lines, old, port, e) = [i \in 1 .. Len(lines) |-> L(i)]
      BY <1>4, <1>6 DEF UpsertShareURL
    <2> HIDE DEF L
    <2>3. [i \in 1 .. Len(lines) |-> L(i)] \in [1 .. Len(lines) -> Links(n)]
      BY <2>1
    <2> QED BY <1>4, <2>2, <2>3, SeqDef
  <1> QED BY <1>5, <1>6

LEMMA PortType ==
  ASSUME TypeInv, NEW r \in Requests, ApplyPort(r)
  PROVE  TypeInv'
  <1> DEFINE q == req[r]
  <1>1. PICK e \in Named(Enabled(ents), q.tag) :
          Change(r, Swapped(ents, e, [e EXCEPT !.port = q.port]),
                 UpsertShareURL(url, e.port, q.port, e), q.port, 0)
    BY DEF ApplyPort
  <1>2. MayEnter(r) /\ q.op = "port"
    BY DEF ApplyPort
  <1>3. q.port \in Ports /\ drawn \in Nat /\ 0 <= MaxCreds
    BY <1>2, TypeFacts DEF MayEnter, AsksRight
  <1>4. e \in ents /\ ents \subseteq Entries(drawn) /\ url \in Seq(Links(drawn))
    BY DEF TypeInv, TypeOK, Named, Enabled
  <1>5. [e EXCEPT !.port = q.port] \in Entries(drawn)
    BY <1>3, <1>4 DEF Entries
  <1>6. Swapped(ents, e, [e EXCEPT !.port = q.port]) \subseteq Entries(drawn)
    BY <1>4, <1>5 DEF Swapped
  <1>7. UpsertShareURL(url, e.port, q.port, e) \in Seq(Links(drawn))
    BY <1>3, <1>4, UpsertType
  <1> HIDE DEF q
  <1>8. req[r].op # "batch"
    BY <1>2 DEF q
  <1> QED BY <1>1, <1>2, <1>3, <1>6, <1>7, <1>8, ChangeType

LEMMA ToggleType ==
  ASSUME TypeInv, NEW r \in Requests, ApplyToggle(r)
  PROVE  TypeInv'
  <1>1. PICK e \in Named(ents, req[r].tag) : Change(r, Swapped(ents, e, [e EXCEPT !.on = ~@]), url, 0, 0)
    BY DEF ApplyToggle
  <1>2. MayEnter(r) /\ req[r].op # "batch" /\ 0 <= MaxCreds
    BY TypeFacts DEF ApplyToggle
  <1>3. e \in ents /\ ents \subseteq Entries(drawn) /\ url \in Seq(Links(drawn))
    BY DEF TypeInv, TypeOK, Named
  <1>4. [e EXCEPT !.on = ~@] \in Entries(drawn)
    BY <1>3 DEF Entries
  <1>5. Swapped(ents, e, [e EXCEPT !.on = ~@]) \subseteq Entries(drawn)
    BY <1>3, <1>4 DEF Swapped
  <1> QED BY <1>1, <1>2, <1>3, <1>5, ChangeType

LEMMA DeleteType ==
  ASSUME TypeInv, NEW r \in Requests, ApplyDelete(r)
  PROVE  TypeInv'
  <1>1. PICK e \in Named(ents, req[r].tag) : Change(r, ents \ {e}, url, e.port, 0)
    BY DEF ApplyDelete
  <1>2. MayEnter(r) /\ req[r].op # "batch" /\ 0 <= MaxCreds
    BY TypeFacts DEF ApplyDelete
  <1>3. e \in ents /\ ents \subseteq Entries(drawn) /\ url \in Seq(Links(drawn))
    BY DEF TypeInv, TypeOK, Named
  <1>4. e.port \in Ports
    BY <1>3 DEF Entries
  <1> QED BY <1>1, <1>2, <1>3, <1>4, ChangeType

(* A request that is done, or refused, or goes on without the lock.        *)
LEMMA LeaveType ==
  ASSUME TypeInv, NEW r \in Requests, NEW x \in Reqs(drawn), AsksRight(x),
         x.pc \notin {"check", "restart"}, req' = [req EXCEPT ![r] = x],
         \/ lock = r /\ lock' = NoReq
         \/ req[r].pc \notin {"check", "restart"} /\ lock' = lock,
         UNCHANGED <<ents, drawn>>, url' \in Seq(Links(drawn)),
         issued' \subseteq 1 .. drawn, cut' \in BOOLEAN
  PROVE  TypeInv'
  <1>1. drawn' \in drawn .. MaxCreds
    BY TypeFacts
  <1>2. /\ lock' \in Requests \cup {NoReq} /\ lock' # r
        /\ \A q \in Requests \ {r} : lock' = q <=> lock = q
    BY LinksAssumption DEF TypeInv, TypeOK
  <1>3. ents' \subseteq Entries(drawn')
    BY DEF TypeInv, TypeOK
  <1> QED BY <1>1, <1>2, <1>3, OneReqType

LEMMA RemoveType ==
  ASSUME NEW S, NEW lines \in Seq(S), NEW port
  PROVE  RemoveShareURL(lines, port) \in Seq(S)
  <1>1. {i \in DOMAIN lines : lines[i].port # port} \in SUBSET (1 .. Len(lines))
    OBVIOUS
  <1> QED BY <1>1, PickMembers DEF RemoveShareURL

LEMMA RestType ==
  ASSUME TypeInv, NEW r \in Requests,
         \/ Refuse(r) \/ CheckFails(r) \/ WriteSB(r) \/ RestartSB(r) \/ RestartFails(r)
         \/ LoadLines(r) \/ SaveLines(r)
  PROVE  TypeInv'
  <1>0. /\ req[r] \in Reqs(drawn) /\ AsksRight(req[r]) /\ drawn \in Nat /\ DOMAIN req = Requests
        /\ drawn \in drawn .. MaxCreds
        /\ Free \in Reqs(drawn) /\ AsksRight(Free) /\ Free.pc \notin {"check", "restart"}
    BY TypeFacts, FreeType
  <1>1. /\ ents \subseteq Entries(drawn) /\ url \in Seq(Links(drawn)) /\ issued \subseteq 1 .. drawn
        /\ cut \in BOOLEAN /\ lock \in Requests \cup {NoReq} /\ NoReq \notin Requests
        /\ \A q \in Requests : lock = q <=> req[q].pc \in {"check", "restart"}
    BY LinksAssumption DEF TypeInv, TypeOK
  <1>2. CASE Refuse(r)
    <2>1. /\ req' = [req EXCEPT ![r] = Free] /\ UNCHANGED <<ents, url, lock, drawn, issued, cut>>
          /\ req[r].pc = "apply"
      BY <1>2 DEF Refuse, MayEnter
    <2> QED BY <1>0, <1>1, <2>1, LeaveType
  <1>3. CASE CheckFails(r)
    <2>1. /\ req' = [req EXCEPT ![r] = Free] /\ UNCHANGED <<ents, url, drawn, issued>>
          /\ lock = r /\ lock' = NoReq /\ cut' \in BOOLEAN
      BY <1>1, <1>3 DEF CheckFails, Leave
    <2> QED BY <1>0, <1>1, <2>1, LeaveType
  <1>4. CASE WriteSB(r)
    <2> DEFINE x == [req[r] EXCEPT !.pc = "restart"]
    <2>1. /\ req' = [req EXCEPT ![r] = x] /\ UNCHANGED <<url, lock, drawn, issued, cut>>
          /\ ents' = req[r].new /\ req[r].pc = "check"
      BY <1>4 DEF WriteSB
    <2>2. x \in Reqs(drawn) /\ AsksRight(x) /\ x.pc = "restart" /\ req[r].new \subseteq Entries(drawn)
      BY <1>0, <2>1 DEF Reqs, AsksRight
    <2> HIDE DEF x
    <2> QED BY <1>0, <1>1, <2>1, <2>2, OneReqType
  <1>5. CASE RestartSB(r)
    <2> DEFINE x == [req[r] EXCEPT !.pc = "load", !.new = {}]
               y == IF req[r].op = "delete" THEN x ELSE Free
    <2>1. /\ req' = [req EXCEPT ![r] = y] /\ UNCHANGED <<ents, url, drawn, cut>>
          /\ lock = r /\ lock' = NoReq /\ req[r].pc = "restart"
          /\ issued' = IF req[r].op = "batch" THEN issued \cup {req[r].node} ELSE issued
      BY <1>1, <1>5 DEF RestartSB, Leave
    <2>2. /\ x \in Reqs(drawn) /\ x.pc = "load" /\ x.op = req[r].op /\ x.src = req[r].src
          /\ req[r].op = "delete" => AsksRight(x)
      BY <1>0 DEF Reqs, AsksRight
    <2>3. issued' \subseteq 1 .. drawn
      BY <1>0, <1>1, <2>1 DEF AsksRight, Reqs
    <2> HIDE DEF x
    <2>4. y \in Reqs(drawn) /\ AsksRight(y) /\ y.pc \notin {"check", "restart"}
      BY <1>0, <2>2
    <2> HIDE DEF y
    <2> QED BY <1>0, <1>1, <2>1, <2>3, <2>4, LeaveType
  <1>6. CASE RestartFails(r)
    <2>1. /\ req' = [req EXCEPT ![r] = Free] /\ UNCHANGED <<ents, url, drawn, issued>>
          /\ lock = r /\ lock' = NoReq /\ cut' \in BOOLEAN
      BY <1>1, <1>6 DEF RestartFails, Leave
    <2> QED BY <1>0, <1>1, <2>1, LeaveType
  <1>7. CASE LoadLines(r)
    <2> DEFINE x == [req[r] EXCEPT !.pc = "save", !.lines = url]
    <2>1. /\ req' = [req EXCEPT ![r] = x] /\ UNCHANGED <<ents, url, lock, drawn, issued, cut>>
          /\ req[r].pc = "load"
      BY <1>0, <1>7 DEF LoadLines
    <2>2. x \in Reqs(drawn) /\ AsksRight(x) /\ x.pc = "save"
      BY <1>0, <1>1, <2>1 DEF Reqs, AsksRight
    <2> HIDE DEF x
    <2> QED BY <1>0, <1>1, <2>1, <2>2, LeaveType
  <1>8. CASE SaveLines(r)
    <2>1. /\ req' = [req EXCEPT ![r] = Free] /\ UNCHANGED <<ents, lock, drawn, issued, cut>>
          /\ req[r].pc = "save" /\ url' = RemoveShareURL(req[r].lines, req[r].port)
      BY <1>8 DEF SaveLines
    <2>2. url' \in Seq(Links(drawn))
      BY <1>0, <2>1, RemoveType DEF Reqs
    <2> QED BY <1>0, <1>1, <2>1, <2>2, LeaveType
  <1> QED BY <1>2, <1>3, <1>4, <1>5, <1>6, <1>7, <1>8
-----------------------------------------------------------------------------
(* What a step of one request leaves as it was.                            *)

LEMMA LockFacts ==
  ASSUME TypeInv
  PROVE  /\ NoReq \notin Requests /\ lock \in Requests \cup {NoReq}
         /\ \A r \in Requests : lock = r <=> Midway(r)
         /\ lock # NoReq => lock \in Requests /\ Midway(lock)
  BY LinksAssumption DEF TypeInv, TypeOK, Midway

LEMMA ReqAfter ==
  ASSUME TypeInv, NEW r \in Requests, NEW x, req' = [req EXCEPT ![r] = x]
  PROVE  req'[r] = x /\ \A q \in Requests \ {r} : req'[q] = req[q]
  BY TypeFacts

(* A request stays about its entry, or starts on one of its own.           *)
LEMMA ApartStep ==
  ASSUME TypeInv, Apart, NEW r \in Requests, NEW x, req' = [req EXCEPT ![r] = x],
         \/ x.pc = "idle"
         \/ Busy(r) /\ x.tag = req[r].tag /\ x.op = req[r].op
         \/ \A q \in Requests \ {r} : Busy(q) =>
               req[q].tag # x.tag /\ x.op # "delete" /\ req[q].op # "delete"
  PROVE  Apart'
  <1>1. req'[r] = x /\ \A q \in Requests \ {r} : req'[q] = req[q]
    BY ReqAfter
  <1> QED BY <1>1 DEF Apart, Busy

LEMMA StillTrueKept ==
  ASSUME TypeInv, NEW r \in Requests, NEW x, req' = [req EXCEPT ![r] = x],
         NEW q \in Requests \ {r}, StillTrue(q),
         Present' \subseteq Present, url' = url,
         Waiting(q) /\ req[q].op \in {"add", "port"} => x.port # req[q].port
  PROVE  StillTrue(q)'
  <1>1. req'[r] = x /\ \A p \in Requests \ {r} : req'[p] = req[p]
    BY ReqAfter
  <1>2. ASSUME Waiting(q), req[q].op \in {"add", "port"} PROVE FreshPort(q)'
    BY <1>1, <1>2 DEF StillTrue, FreshPort
  <1>3. \A e \in Present' : FirstIsOwn(e) => FirstIsOwn(e)'
    BY DEF FirstIsOwn, LinesAt
  <1>4. req'[q] = req[q]
    BY <1>1
  <1> QED BY <1>2, <1>3, <1>4 DEF StillTrue, Waiting, Named

(* A request neither starts nor ends a change, and no entry and no line    *)
(* does.                                                                   *)
LEMMA QuietStep ==
  ASSUME TypeInv, InStep, NEW r \in Requests, NEW x, req' = [req EXCEPT ![r] = x],
         ~Midway(r), ~Cleaning(r), x.pc \in {"idle", "apply"},
         UNCHANGED <<ents, url, lock, issued>>
  PROVE  Present' = Present /\ (\A q \in Requests : CleansUp(q)') /\ OneEntryChanges' /\ LinesAgree'
  <1>1. req'[r] = x /\ \A q \in Requests \ {r} : req'[q] = req[q]
    BY ReqAfter
  <1>2. lock # NoReq => lock \in Requests /\ req'[lock] = req[lock]
    BY <1>1, LockFacts
  <1>3. Present' = Present /\ Answered' = Answered
    BY <1>2 DEF Present, Answered
  <1>4. \A q \in Requests : CleansUp(q)'
    BY <1>1 DEF InStep, CleansUp, Cleaning
  <1>5. OneEntryChanges'
    BY <1>2 DEF InStep, OneEntryChanges
  <1>6. \A port : Doomed(port)' <=> Doomed(port)
    BY <1>1 DEF Doomed, Removes, Midway, Cleaning
  <1>7. \A es : Agrees(es) => Agrees(es)'
    BY <1>3, <1>6 DEF Agrees, Differ, EachLineHasEntry, EachLineOpens, EachNodeHasLine, LinesAt
  <1>8. LinesAgree'
    BY <1>2, <1>7 DEF InStep, LinesAgree
  <1> QED BY <1>3, <1>4, <1>5, <1>8
(* The change under way, if there is one, is to another entry.             *)
LEMMA NamedPresent ==
  ASSUME TypeInv, OneEntryChanges, NEW tag, lock # NoReq => req[lock].tag # tag
  PROVE  /\ Named(Present, tag) = Named(ents, tag)
         /\ lock # NoReq => Named(req[lock].new, tag) = Named(ents, tag)
  BY DEF OneEntryChanges, Present, Named

(* What the lines agree with: an entry of that name is one, on disk and in *)
(* the change.                                                             *)
LEMMA OneOfName ==
  ASSUME TypeInv, InStep, NEW tag, lock # NoReq => req[lock].tag # tag,
         NEW e \in Named(Present, tag), NEW f \in Named(Present, tag)
  PROVE  e = f
  <1>1. e \in Named(ents, tag) /\ f \in Named(ents, tag)
    BY NamedPresent DEF InStep
  <1>2. CASE lock = NoReq
    BY <1>1, <1>2 DEF InStep, LinesAgree, Agrees, Differ, Named
  <1>3. CASE lock # NoReq
    <2>1. e \in Named(req[lock].new, tag) /\ f \in Named(req[lock].new, tag)
      BY <1>1, <1>3, NamedPresent DEF InStep
    <2> QED BY <1>3, <2>1 DEF InStep, LinesAgree, Agrees, Differ, Named
  <1> QED BY <1>2, <1>3

(* A handler asks: what it has found holds, whatever change is under way.  *)
LEMMA AskStep ==
  ASSUME LinkInv, TypeInv', NEW r \in Requests, req[r].pc = "idle",
         NEW op \in {"add", "batch", "port", "toggle", "delete"}, NEW tag, NEW port, NEW src,
         Ask(r, op, tag, port, src),
         \A q \in Requests \ {r} : Busy(q) => req[q].tag # tag /\ op # "delete" /\ req[q].op # "delete",
         op \in {"add", "port"} =>
            /\ \A e \in ents : e.port # port
            /\ \A q \in Requests \ {r} : req[q].port # port,
         op = "add"   => Named(ents, tag) = {},
         op = "port"  => \A e \in Named(ents, tag) : FirstIsOwn(e),
         op = "batch" => \E e \in Named(ents, tag) : e.port = port,
         op \in {"toggle", "delete"} => port = 0
  PROVE  LinkInv'
  <1> DEFINE x == Asked("apply", op, tag, port, src)
  <1>1. req' = [req EXCEPT ![r] = x] /\ UNCHANGED <<ents, url, lock, drawn, issued, cut>>
    BY DEF Ask
  <1>2. x.pc = "apply" /\ x.op = op /\ x.tag = tag /\ x.port = port
    BY DEF Asked
  <1> HIDE DEF x
  <1>3. TypeInv /\ Apart /\ Apart'
    BY <1>1, <1>2, ApartStep DEF LinkInv
  <1>4. SUFFICES ASSUME ~cut PROVE InStep'
    BY <1>1, <1>3 DEF LinkInv
  <1>5. InStep
    BY <1>4 DEF LinkInv
  <1>6. req'[r] = x /\ \A q \in Requests \ {r} : req'[q] = req[q]
    BY <1>1, <1>3, ReqAfter
  <1>7. ~Midway(r) /\ ~Cleaning(r)
    BY DEF Midway, Cleaning
  <1>8. Present' = Present /\ (\A q \in Requests : CleansUp(q)') /\ OneEntryChanges' /\ LinesAgree'
    BY <1>1, <1>2, <1>3, <1>5, <1>7, QuietStep
  <1>9. lock # NoReq => lock \in Requests \ {r} /\ req[lock].tag # tag
    BY <1>3, <1>7, LockFacts DEF Midway, Busy
  <1>10. Named(Present, tag) = Named(ents, tag)
    BY <1>3, <1>5, <1>9, NamedPresent DEF InStep
  <1>11. ASSUME op \in {"add", "port"} PROVE FreshPort(r)'
    <2>1. \A e \in Present : e.port # port
      BY <1>5, <1>9, <1>11 DEF InStep, OneEntryChanges, Present
    <2> QED BY <1>2, <1>6, <1>8, <1>11, <2>1 DEF FreshPort
  <1>12. ASSUME op = "batch" PROVE \A e \in Named(Present, tag) : e.port = port
    BY <1>3, <1>5, <1>9, <1>10, <1>12, OneOfName
  <1>13. \A e : FirstIsOwn(e) => FirstIsOwn(e)'
    BY <1>1 DEF FirstIsOwn, LinesAt
  <1>14. StillTrue(r)'
    BY <1>2, <1>6, <1>8, <1>10, <1>11, <1>12, <1>13 DEF StillTrue, Named
  <1>15. ASSUME NEW q \in Requests \ {r} PROVE StillTrue(q)'
    <2>1. ASSUME Waiting(q), req[q].op \in {"add", "port"} PROVE port # req[q].port
      <3>1. req[q].port \in Ports /\ FreshPort(q)
        BY <1>3, <1>5, <2>1, TypeFacts DEF Waiting, AsksRight, InStep, StillTrue
      <3>2. CASE op = "batch"
        BY <3>1, <3>2 DEF FreshPort, Present, Named
      <3>3. CASE op \in {"toggle", "delete"}
        BY <3>1, <3>3, LinksAssumption
      <3> QED BY <3>2, <3>3
    <2> QED BY <1>1, <1>2, <1>3, <1>5, <1>8, <2>1, StillTrueKept DEF InStep
  <1> QED BY <1>8, <1>14, <1>15 DEF InStep

LEMMA MayAskApart ==
  ASSUME Careful, NEW r \in Requests, NEW op, NEW tag, MayAsk(r, op, tag)
  PROVE  /\ req[r].pc = "idle"
         /\ \A q \in Requests \ {r} : Busy(q) => req[q].tag # tag /\ op # "delete" /\ req[q].op # "delete"
  BY DEF Careful, MayAsk, Busy

LEMMA AddInboundStep ==
  ASSUME Careful, LinkInv, NEW r \in Requests, NEW tag \in Tags, NEW port \in Ports, AddInbound(r, tag, port)
  PROVE  LinkInv'
  <1>1. PICK src \in SUBSET ents :
          /\ \A e, f \in src : e = f
          /\ MayAsk(r, "socks", tag) \/ MayAsk(r, "clone", tag)
          /\ Ask(r, "add", tag, port, src)
    <2>1. CASE MayAsk(r, "socks", tag) /\ Ask(r, "add", tag, port, {})
      BY <2>1
    <2>2. CASE MayAsk(r, "clone", tag) /\ \E e \in Enabled(ents) : Ask(r, "add", tag, port, {e})
      BY <2>2 DEF Enabled
    <2> QED BY <2>1, <2>2 DEF AddInbound
  <1>2. /\ req[r].pc = "idle"
        /\ \A q \in Requests \ {r} : Busy(q) => req[q].tag # tag /\ req[q].op # "delete"
    BY <1>1, MayAskApart
  <1>3. /\ \A e \in ents : e.port # port
        /\ \A q \in Requests \ {r} : req[q].port # port
        /\ Named(ents, tag) = {}
    BY DEF Careful, AddInbound, GoodPort
  <1>4. TypeInv'
    BY <1>1, <1>2, AskType DEF LinkInv
  <1> QED BY <1>1, <1>2, <1>3, <1>4, AskStep

LEMMA BatchUsersStep ==
  ASSUME Careful, LinkInv, NEW r \in Requests, NEW tag \in Tags, BatchUsers(r, tag)
  PROVE  LinkInv'
  <1>1. PICK e \in Named(Enabled(ents), tag) : Ask(r, "batch", tag, e.port, {})
    BY DEF BatchUsers
  <1>2. /\ req[r].pc = "idle"
        /\ \A q \in Requests \ {r} : Busy(q) => req[q].tag # tag /\ req[q].op # "delete"
    BY MayAskApart DEF BatchUsers
  <1>3. e \in Named(ents, tag) /\ e.port \in Ports
    BY DEF Named, Enabled, LinkInv, TypeInv, TypeOK, Entries
  <1>4. TypeInv'
    BY <1>1, <1>2, <1>3, AskType DEF LinkInv
  <1> QED BY <1>1, <1>2, <1>3, <1>4, AskStep

LEMMA PutPortStep ==
  ASSUME Careful, LinkInv, NEW r \in Requests, NEW tag \in Tags, NEW port \in Ports, PutPort(r, tag, port)
  PROVE  LinkInv'
  <1>1. Ask(r, "port", tag, port, {})
    BY DEF PutPort
  <1>2. /\ req[r].pc = "idle"
        /\ \A q \in Requests \ {r} : Busy(q) => req[q].tag # tag /\ req[q].op # "delete"
    BY MayAskApart DEF PutPort
  <1>3. /\ \A e \in ents : e.port # port
        /\ \A q \in Requests \ {r} : req[q].port # port
    BY DEF Careful, PutPort, GoodPort
  <1>4. \A e \in Named(ents, tag) : FirstIsOwn(e)
    BY DEF Careful, PutPort, FirstIsOwn
  <1>5. TypeInv'
    BY <1>1, <1>2, AskType DEF LinkInv
  <1> QED BY <1>1, <1>2, <1>3, <1>4, <1>5, AskStep

LEMMA PutEnabledStep ==
  ASSUME Careful, LinkInv, NEW r \in Requests, NEW tag \in Tags, PutEnabled(r, tag)
  PROVE  LinkInv'
  <1>1. Ask(r, "toggle", tag, 0, {})
    BY DEF PutEnabled
  <1>2. /\ req[r].pc = "idle"
        /\ \A q \in Requests \ {r} : Busy(q) => req[q].tag # tag /\ req[q].op # "delete"
    BY MayAskApart DEF PutEnabled
  <1>3. TypeInv'
    BY <1>1, <1>2, AskType DEF LinkInv
  <1> QED BY <1>1, <1>2, <1>3, AskStep

LEMMA DelInboundStep ==
  ASSUME Careful, LinkInv, NEW r \in Requests, NEW tag \in Tags, DelInbound(r, tag)
  PROVE  LinkInv'
  <1>1. Ask(r, "delete", tag, 0, {})
    BY DEF DelInbound
  <1>2. /\ req[r].pc = "idle"
        /\ \A q \in Requests \ {r} : ~Busy(q)
    BY MayAskApart DEF DelInbound
  <1>3. TypeInv'
    BY <1>1, <1>2, AskType DEF LinkInv
  <1> QED BY <1>1, <1>2, <1>3, AskStep
-----------------------------------------------------------------------------
(* Under the lock.                                                         *)

(* A request that gets the lock finds lines and entries agreeing, and what *)
(* it asked for still possible.                                            *)
LEMMA BeforeChange ==
  ASSUME LinkInv, ~cut, NEW r \in Requests, MayEnter(r)
  PROVE  /\ Agrees(ents) /\ Present = ents /\ Answered = issued /\ StillTrue(r)
         /\ \A q \in Requests \ {r} : Busy(q) => req[q].tag # req[r].tag /\ req[r].op # "delete"
         /\ \A q \in Requests : ~Cleaning(q) /\ ~Removes(q)
         /\ \A port : ~Doomed(port)
  <1>1. lock = NoReq /\ Waiting(r) /\ InStep /\ TypeInv /\ Apart
    BY DEF MayEnter, Waiting, LinkInv
  <1>2. \A q \in Requests \ {r} : Busy(q) =>
          req[q].tag # req[r].tag /\ req[r].op # "delete" /\ req[q].op # "delete"
    BY <1>1 DEF Apart, Busy, Waiting
  <1>3. \A q \in Requests : ~Cleaning(q) /\ ~Removes(q)
    BY <1>1, <1>2, TypeFacts DEF AsksRight, Removes, Cleaning, Midway, Busy, Waiting
  <1> QED BY <1>1, <1>2, <1>3 DEF InStep, LinesAgree, Present, Answered, Doomed

(* A change to one entry.                                                  *)
LEMMA ChangeStep ==
  ASSUME LinkInv, TypeInv', NEW r \in Requests, NEW new, NEW lines, NEW port, NEW node,
         MayEnter(r), Change(r, new, lines, port, node),
         req[r].op \in {"add", "batch", "port"} => port = req[r].port,
         req[r].op = "toggle" => port = 0,
         req[r].op \in {"add", "batch", "port", "toggle", "delete"},
         ~cut =>
           /\ \A e \in new \cup ents : e.tag # req[r].tag => e \in new /\ e \in ents
           /\ \A e \in new : e.port = port \/ \E f \in ents : f.port = e.port
           /\ req[r].op = "delete" => (\A e \in new : e.port # port) /\ \E e \in ents : e.port = port
           /\ \A e \in ents : e.tag # req[r].tag /\ FirstIsOwn(e) => FirstIsOwn(e)'
           /\ Agrees(new)'
           /\ req[r].op \in {"toggle", "delete"} => Agrees(ents)'
  PROVE  LinkInv'
  <1> DEFINE x == Changed(req[r], new, port, node)
  <1>1. /\ req' = [req EXCEPT ![r] = x]
        /\ x.pc = "check" /\ x.new = new /\ x.port = port
        /\ x.op = req[r].op /\ x.tag = req[r].tag
        /\ req[r].pc = "apply" /\ lock = NoReq /\ lock' = r /\ UNCHANGED <<ents, issued, cut>>
    BY ChangeFacts DEF LinkInv
  <1> HIDE DEF x
  <1>2. TypeInv /\ Apart /\ Apart'
    BY <1>1, ApartStep DEF LinkInv, Busy
  <1>3. SUFFICES ASSUME ~cut PROVE InStep'
    BY <1>1, <1>2 DEF LinkInv
  <1>4. req'[r] = x /\ (\A q \in Requests \ {r} : req'[q] = req[q]) /\ r # NoReq
    BY <1>1, <1>2, ReqAfter, LinksAssumption
  <1>5. /\ Present = ents /\ InStep
        /\ \A q \in Requests \ {r} : Busy(q) => req[q].tag # req[r].tag /\ req[r].op # "delete"
        /\ \A q \in Requests : ~Cleaning(q)
    BY <1>3, BeforeChange DEF LinkInv
  <1>6. Present' = ents \cup new
    BY <1>1, <1>4 DEF Present
  <1>7. \A q \in Requests : CleansUp(q)'
    BY <1>1, <1>4, <1>5 DEF CleansUp, Cleaning
  <1>8. OneEntryChanges'
    BY <1>1, <1>3, <1>4 DEF OneEntryChanges
  <1>9. LinesAgree'
    <2>1. ents' = ents /\ req'[lock'].new = new /\ req'[lock'].op = req[r].op /\ lock' # NoReq
      BY <1>1, <1>4
    <2>2. Agrees(new)' /\ (req[r].op \in {"toggle", "delete"} => Agrees(ents)')
      BY <1>3
    <2> QED BY <2>1, <2>2 DEF LinesAgree, Agrees, Differ, EachLineHasEntry, EachLineOpens, EachNodeHasLine
  <1>10. ASSUME NEW q \in Requests, q # r, Waiting(q) PROVE StillTrue(q)'
    <2>1. /\ req[q].tag # req[r].tag /\ req[r].op # "delete" /\ req'[q] = req[q]
          /\ StillTrue(q) /\ AsksRight(req[q])
      BY <1>2, <1>4, <1>5, <1>10, TypeFacts DEF Busy, Waiting, InStep
    <2>2. Named(Present', req[q].tag) \subseteq Named(Present, req[q].tag)
      BY <1>3, <1>5, <1>6, <2>1 DEF Named
    <2>3. \A e \in Named(Present', req[q].tag) : FirstIsOwn(e) => FirstIsOwn(e)'
      BY <1>3, <1>5, <2>1, <2>2 DEF Named
    <2>4. ASSUME req[q].op \in {"add", "port"} PROVE FreshPort(q)'
      <3>1. FreshPort(q) /\ req[q].port \in Ports
        BY <1>10, <2>1, <2>4 DEF StillTrue, AsksRight, Waiting
      <3>2. req[q].port # port
        BY <2>1, <3>1, LinksAssumption DEF FreshPort
      <3>3. \A e \in Present' : e.port # req[q].port
        BY <1>3, <1>5, <1>6, <3>1, <3>2 DEF FreshPort
      <3>4. \A p \in Requests \ {q} : req'[p].port # req[q].port
        BY <1>1, <1>4, <3>1, <3>2 DEF FreshPort
      <3> QED BY <2>1, <3>3, <3>4 DEF FreshPort
    <2> QED BY <1>10, <2>1, <2>2, <2>3, <2>4 DEF StillTrue, Waiting, Named
  <1>11. \A q \in Requests : StillTrue(q)'
    BY <1>1, <1>4, <1>10 DEF StillTrue, Waiting
  <1> QED BY <1>7, <1>8, <1>9, <1>11 DEF InStep

(* Lines with one more, l, or as they were.                                *)
Grown(lines, l) ==
  /\ \A i \in DOMAIN lines : (i \in DOMAIN url /\ lines[i] = url[i]) \/ lines[i] = l
  /\ \A i \in DOMAIN url : i \in DOMAIN lines /\ lines[i] = url[i]

LEMMA AppendGrows ==
  ASSUME TypeInv, NEW l
  PROVE  /\ Grown(url, l)
         /\ Grown(Append(url, l), l) /\ l \in ToSet(Append(url, l))
  <1>1. url \in Seq(Links(drawn))
    BY DEF TypeInv, TypeOK
  <1>2. /\ Len(url) \in Nat /\ DOMAIN url = 1 .. Len(url)
        /\ DOMAIN Append(url, l) = 1 .. Len(url) + 1
        /\ \A i \in 1 .. Len(url) : Append(url, l)[i] = url[i]
        /\ Append(url, l)[Len(url) + 1] = l
    BY <1>1
  <1>3. Grown(Append(url, l), l)
    <2> DEFINE a == Append(url, l)
    <2> HIDE DEF a
    <2> QED BY <1>2 DEF Grown, a
  <1>4. Len(url) + 1 \in DOMAIN Append(url, l)
    BY <1>2
  <1> QED BY <1>2, <1>3, <1>4 DEF Grown, ToSet

(* A line on the port of one entry leaves the first line of another.       *)
LEMMA GrownFirst ==
  ASSUME NEW l, Grown(url', l), NEW e, FirstIsOwn(e), l.port # e.port
  PROVE  FirstIsOwn(e)'
  <1>1. LinesAt(e.port)' = LinesAt(e.port) /\ \A i \in LinesAt(e.port) : url'[i] = url[i]
    BY DEF Grown, LinesAt
  <1> QED BY <1>1 DEF FirstIsOwn

LEMMA AddStep ==
  ASSUME LinkInv, NEW r \in Requests, ApplyAdd(r)
  PROVE  LinkInv'
  <1>0. TypeInv /\ TypeInv' /\ MayEnter(r) /\ req[r].op = "add"
    BY AddType, AddFacts DEF LinkInv
  <1>1. PICK port, node, e, lines, new :
          /\ port = req[r].port /\ node = drawn + 1 /\ new = ents \cup {e}
          /\ lines \in {url, Append(url, Link(port, node))}
          /\ e.tag = req[r].tag /\ e.port = port /\ ToSet(e.users) = {node}
          /\ Change(r, new, lines, port, node)
    BY <1>0, AddFacts
  <1> DEFINE l == Link(port, node)
  <1>2. /\ url' = lines /\ ents' = ents /\ issued' = issued /\ lock' = r /\ r # NoReq
        /\ req'[r].op = "add"
    <2> DEFINE x == Changed(req[r], new, port, node)
    <2>1. /\ req' = [req EXCEPT ![r] = x] /\ x.op = "add"
          /\ url' = lines /\ ents' = ents /\ issued' = issued /\ lock' = r
      BY <1>0, <1>1, ChangeFacts
    <2> HIDE DEF x
    <2> QED BY <1>0, <2>1, ReqAfter, LinksAssumption
  <1>3. Grown(url', l) /\ l.port = port /\ l.cred = node /\ l.whole
    BY <1>0, <1>1, <1>2, AppendGrows DEF Link
  <1> HIDE DEF l
  <1>4. ASSUME ~cut
        PROVE  /\ Agrees(ents) /\ (\A f \in ents : f.port # port /\ f.tag # e.tag)
               /\ Answered' = issued /\ Answered = issued /\ \A p : ~Doomed(p)
    BY <1>0, <1>1, <1>2, <1>4, BeforeChange DEF StillTrue, FreshPort, Waiting, MayEnter, Named, Answered
  <1>5. node \notin issued
    BY <1>0, <1>1, TypeFacts DEF TypeInv, TypeOK
  <1>6. ASSUME ~cut PROVE Agrees(new)'
    <2>1. /\ \A i \in DOMAIN url' : url'[i] = l \/ (i \in DOMAIN url /\ url'[i] = url[i])
          /\ \A i \in DOMAIN url : i \in DOMAIN url' /\ url'[i] = url[i]
      BY <1>3 DEF Grown
    <2>2. \A i \in DOMAIN url : \E f \in ents : f.port = url[i].port
      BY <1>4, <1>6 DEF Agrees, EachLineHasEntry
    <2>3. Differ(new)'
      BY <1>1, <1>4, <1>6 DEF Agrees, Differ
    <2>4. EachLineHasEntry(new)'
      BY <1>1, <1>3, <2>1, <2>2 DEF EachLineHasEntry
    <2>5. EachLineOpens(new)'
      <3> SUFFICES ASSUME NEW f \in new, NEW i \in DOMAIN url', url'[i].port = f.port
                   PROVE  url'[i].whole /\ url'[i].cred \in ToSet(f.users)
        BY DEF EachLineOpens, LinesAt
      <3>1. CASE url'[i] = l
        BY <1>1, <1>3, <1>4, <1>6, <3>1
      <3>2. CASE i \in DOMAIN url /\ url'[i] = url[i]
        BY <1>1, <1>4, <1>6, <2>2, <3>2 DEF Agrees, EachLineOpens, LinesAt
      <3> QED BY <2>1, <3>1, <3>2
    <2>6. EachNodeHasLine(new)'
      <3> SUFFICES ASSUME NEW f \in new, NEW n \in issued, n \in ToSet(f.users)
                   PROVE  Link(f.port, n) \in ToSet(url')
        BY <1>4, <1>6 DEF EachNodeHasLine
      <3>1. f \in ents
        BY <1>1, <1>5
      <3>2. Link(f.port, n) \in ToSet(url)
        BY <1>4, <1>6, <3>1 DEF Agrees, EachNodeHasLine
      <3> QED BY <3>2, <2>1 DEF ToSet
    <2> QED BY <2>3, <2>4, <2>5, <2>6 DEF Agrees
  <1>7. ~cut => \A f \in ents : FirstIsOwn(f) => FirstIsOwn(f)'
    BY <1>3, <1>4, GrownFirst
  <1>8. /\ \A f \in new \cup ents : f.tag # req[r].tag => f \in new /\ f \in ents
        /\ \A f \in new : f.port = port \/ \E g \in ents : g.port = f.port
    BY <1>1
  <1> QED BY <1>0, <1>1, <1>6, <1>7, <1>8, ChangeStep

LEMMA BatchStep ==
  ASSUME LinkInv, NEW r \in Requests, ApplyBatch(r)
  PROVE  LinkInv'
  <1>0. TypeInv /\ TypeInv' /\ MayEnter(r) /\ req[r].op = "batch"
    BY BatchType DEF LinkInv, ApplyBatch
  <1>1. PICK port, node, e, f, lines, new :
          /\ port = req[r].port /\ node = drawn + 1 /\ new = (ents \ {e}) \cup {f}
          /\ lines = Append(url, Link(port, node))
          /\ e \in ents /\ e.tag = req[r].tag /\ f = [e EXCEPT !.users = Append(@, node)]
          /\ Change(r, new, lines, port, node)
    BY DEF ApplyBatch, Named, Enabled, Swapped
  <1>2. f.tag = e.tag /\ f.port = e.port /\ ToSet(f.users) = ToSet(e.users) \cup {node}
    <2>1. e \in Entries(drawn)
      BY <1>1 DEF LinkInv, TypeInv, TypeOK
    <2>2. f.tag = e.tag /\ f.port = e.port /\ f.users = Append(e.users, node) /\ e.users \in Seq(1 .. drawn)
      BY <1>1, <2>1 DEF Entries
    <2>3. DOMAIN f.users = DOMAIN e.users \cup {Len(e.users) + 1} /\ f.users[Len(e.users) + 1] = node
          /\ \A i \in DOMAIN e.users : f.users[i] = e.users[i]
      BY <2>2
    <2> QED BY <2>2, <2>3 DEF ToSet
  <1> DEFINE l == Link(port, node)
  <1>3. /\ url' = lines /\ ents' = ents /\ issued' = issued /\ lock' = r /\ r # NoReq
        /\ req'[r].op = "batch" /\ req'[r].node = node
    <2> DEFINE x == Changed(req[r], new, port, node)
    <2>1. /\ req' = [req EXCEPT ![r] = x] /\ x.op = "batch" /\ x.node = node
          /\ url' = lines /\ ents' = ents /\ issued' = issued /\ lock' = r
      <3>1. TypeInv /\ MayEnter(r) /\ Change(r, new, lines, port, node)
        BY <1>0, <1>1
      <3> QED BY <1>0, <3>1, ChangeFacts
    <2> HIDE DEF x
    <2> QED BY <1>0, <2>1, ReqAfter, LinksAssumption
  <1>4. Grown(url', l) /\ l \in ToSet(url') /\ l.port = port /\ l.cred = node /\ l.whole
    BY <1>0, <1>1, <1>3, AppendGrows DEF Link
  <1>5. ASSUME ~cut
        PROVE  /\ Agrees(ents) /\ e.port = port /\ (\A g \in ents : g = e \/ (g.port # port /\ g.tag # e.tag))
               /\ Answered' = issued \cup {node} /\ Answered = issued /\ \A p : ~Doomed(p)
    <2>1. Agrees(ents) /\ Present = ents /\ StillTrue(r) /\ Answered = issued /\ \A p : ~Doomed(p)
      BY <1>0, <1>5, BeforeChange
    <2>2. e.port = port
      BY <1>0, <1>1, <2>1 DEF StillTrue, Waiting, MayEnter, Named
    <2>3. \A g \in ents : g = e \/ (g.port # port /\ g.tag # e.tag)
      BY <1>1, <2>1, <2>2 DEF Agrees, Differ
    <2> QED BY <1>3, <2>1, <2>2, <2>3 DEF Answered
  <1>6. \A g \in ents : node \notin ToSet(g.users)
    <2> SUFFICES ASSUME NEW g \in ents, NEW i \in DOMAIN g.users, g.users[i] = node PROVE FALSE
      BY DEF ToSet
    <2>1. drawn \in Nat /\ g.users \in Seq(1 .. drawn)
      BY <1>0, TypeFacts DEF TypeInv, TypeOK, Entries
    <2>2. g.users[i] \in 1 .. drawn
      BY <2>1
    <2> QED BY <1>1, <2>1, <2>2
  <1> USE DEF l
  <1>7. l = Link(port, node)
    OBVIOUS
  <1> HIDE DEF l
  <1>8. ASSUME ~cut PROVE Agrees(new)'
    <2>1. /\ \A i \in DOMAIN url' : url'[i] = l \/ (i \in DOMAIN url /\ url'[i] = url[i])
          /\ \A i \in DOMAIN url : i \in DOMAIN url' /\ url'[i] = url[i]
      BY <1>4 DEF Grown
    <2>2. \A i \in DOMAIN url : \E g \in ents : g.port = url[i].port
      BY <1>5, <1>8 DEF Agrees, EachLineHasEntry
    <2>3. Differ(new)'
      <3>1. Differ(ents) /\ e \in ents /\ f.tag = e.tag /\ f.port = e.port
        BY <1>1, <1>2, <1>5, <1>8 DEF Agrees
      <3>2. \A g \in new : g = f \/ (g \in ents /\ g # e)
        BY <1>1
      <3> QED BY <3>1, <3>2 DEF Differ
    <2>4. EachLineHasEntry(new)'
      <3> SUFFICES ASSUME NEW i \in DOMAIN url' PROVE \E g \in new : g.port = url'[i].port
        BY DEF EachLineHasEntry
      <3>1. \E g \in ents : g.port = url'[i].port
        BY <1>1, <1>4, <1>5, <1>8, <2>1, <2>2
      <3> QED BY <1>1, <1>2, <3>1
    <2>5. EachLineOpens(new)'
      <3> SUFFICES ASSUME NEW g \in new, NEW i \in DOMAIN url', url'[i].port = g.port
                   PROVE  url'[i].whole /\ url'[i].cred \in ToSet(g.users)
        BY DEF EachLineOpens, LinesAt
      <3>1. CASE url'[i] = l
        BY <1>1, <1>2, <1>4, <1>5, <1>8, <3>1
      <3>2. CASE i \in DOMAIN url /\ url'[i] = url[i]
        BY <1>1, <1>2, <1>5, <1>8, <3>2 DEF Agrees, EachLineOpens, LinesAt
      <3> QED BY <2>1, <3>1, <3>2
    <2>6. EachNodeHasLine(new)'
      <3> SUFFICES ASSUME NEW g \in new, NEW n \in issued \cup {node}, n \in ToSet(g.users)
                   PROVE  Link(g.port, n) \in ToSet(url')
        BY <1>5, <1>8 DEF EachNodeHasLine
      <3>1. CASE n = node
        BY <1>1, <1>2, <1>4, <1>5, <1>6, <1>7, <1>8, <3>1
      <3>2. CASE n # node
        <4>1. \E h \in ents : h.port = g.port /\ n \in ToSet(h.users)
          BY <1>1, <1>2, <3>2
        <4>2. Link(g.port, n) \in ToSet(url)
          BY <1>5, <1>8, <3>2, <4>1 DEF Agrees, EachNodeHasLine
        <4> QED BY <4>2, <2>1 DEF ToSet
      <3> QED BY <3>1, <3>2
    <2> QED BY <2>3, <2>4, <2>5, <2>6 DEF Agrees
  <1>9. ~cut => \A g \in ents : g.tag # req[r].tag /\ FirstIsOwn(g) => FirstIsOwn(g)'
    BY <1>1, <1>4, <1>5, GrownFirst
  <1>10. /\ \A g \in new \cup ents : g.tag # req[r].tag => g \in new /\ g \in ents
         /\ ~cut => \A g \in new : g.port = port \/ \E h \in ents : h.port = g.port
    BY <1>1, <1>2, <1>5
  <1> QED BY <1>0, <1>1, <1>8, <1>9, <1>10, ChangeStep

(* upsertShareURL gives the lines of an entry the new port, and nothing    *)
(* else, when the entry's own line is the first of them.                   *)
Moved(lines, old, port) ==
  /\ DOMAIN lines = DOMAIN url
  /\ \A i \in DOMAIN url :
        IF url[i].port = old
        THEN lines[i].port = port /\ lines[i].cred = url[i].cred /\ lines[i].whole = url[i].whole
        ELSE lines[i] = url[i]

LEMMA UpsertMoves ==
  ASSUME TypeInv, NEW e \in ents, NEW port, FirstIsOwn(e), e.port # port
  PROVE  /\ Moved(UpsertShareURL(url, e.port, port, e), e.port, port)
         /\ \A n : Link(e.port, n) \in ToSet(url) =>
                     Link(port, n) \in ToSet(UpsertShareURL(url, e.port, port, e))
  <1> DEFINE lines == UpsertShareURL(url, e.port, port, e)
             hits == {i \in DOMAIN url : url[i].port = e.port}
             L(i) == IF i \notin hits THEN url[i]
                     ELSE IF \A j \in hits : i <= j THEN OwnLink(port, e)
                     ELSE [url[i] EXCEPT !.port = port]
  <1>1. lines = [i \in DOMAIN url |-> L(i)]
    BY DEF UpsertShareURL
  <1>2. /\ url \in Seq(Links(drawn)) /\ DOMAIN url = 1 .. Len(url) /\ Len(url) \in Nat
        /\ \A i \in DOMAIN url : url[i] \in Links(drawn) /\ i \in Int
    BY DEF TypeInv, TypeOK
  <1>3. /\ OwnLink(port, e) = [port |-> port, cred |-> e.users[1], whole |-> TRUE]
        /\ \A i \in hits, j \in hits : (\A k \in hits : i <= k) /\ (\A k \in hits : j <= k) => i = j
    <2>1. (e.kind # "socks") = TRUE
      BY DEF FirstIsOwn
    <2>2. OwnLink(port, e) = [port |-> port, cred |-> e.users[1], whole |-> TRUE]
      BY <2>1 DEF OwnLink
    <2>3. \A i \in hits : i \in Int
      BY <1>2
    <2>4. \A i \in hits, j \in hits : (\A k \in hits : i <= k) /\ (\A k \in hits : j <= k) => i <= j /\ j <= i
      OBVIOUS
    <2> HIDE DEF hits
    <2> QED BY <2>2, <2>3, <2>4
  <1>4. \A i \in hits : (\A k \in hits : i <= k) => url[i].cred = e.users[1] /\ url[i].whole = TRUE
    <2> SUFFICES ASSUME NEW i \in hits, \A k \in hits : i <= k
                 PROVE  url[i].cred = e.users[1] /\ url[i].whole = TRUE
      OBVIOUS
    <2>1. PICK j \in hits : url[j] = Link(e.port, e.users[1]) /\ \A k \in hits : j <= k
      BY DEF FirstIsOwn, LinesAt
    <2>2. i = j
      BY <1>3, <2>1
    <2> QED BY <2>1, <2>2 DEF Link
  <1>5. \A i \in DOMAIN url :
          IF i \in hits THEN L(i) = [port |-> port, cred |-> url[i].cred, whole |-> url[i].whole]
          ELSE L(i) = url[i]
    BY <1>2, <1>3, <1>4 DEF Links
  <1> HIDE DEF L, lines
  <1>6. Moved(lines, e.port, port)
    BY <1>1, <1>5 DEF Moved
  <1>7. ASSUME NEW n, Link(e.port, n) \in ToSet(url) PROVE Link(port, n) \in ToSet(lines)
    <2>1. PICK i \in DOMAIN url : url[i] = Link(e.port, n)
      BY <1>7 DEF ToSet
    <2>2. i \in hits /\ url[i].cred = n /\ url[i].whole = TRUE
      BY <2>1 DEF Link
    <2>3. lines[i] = Link(port, n) /\ i \in DOMAIN lines
      BY <1>1, <1>5, <2>2 DEF Link
    <2> QED BY <2>3 DEF ToSet
  <1> QED BY <1>6, <1>7 DEF lines

LEMMA PortStep ==
  ASSUME LinkInv, NEW r \in Requests, ApplyPort(r)
  PROVE  LinkInv'
  <1>0. TypeInv /\ TypeInv' /\ MayEnter(r) /\ req[r].op = "port"
    BY PortType DEF LinkInv, ApplyPort
  <1>1. PICK port, e, f, lines, new :
          /\ port = req[r].port /\ new = (ents \ {e}) \cup {f}
          /\ lines = UpsertShareURL(url, e.port, port, e)
          /\ e \in ents /\ e.tag = req[r].tag /\ f = [e EXCEPT !.port = port]
          /\ Change(r, new, lines, port, 0)
    BY DEF ApplyPort, Named, Enabled, Swapped
  <1>2. f.tag = e.tag /\ f.port = port /\ f.users = e.users /\ f \in new
    <2>1. e \in Entries(drawn)
      BY <1>1 DEF LinkInv, TypeInv, TypeOK
    <2> QED BY <1>1, <2>1 DEF Entries
  <1>3. /\ url' = lines /\ ents' = ents /\ issued' = issued /\ lock' = r /\ r # NoReq
        /\ req'[r].op = "port"
    <2> DEFINE x == Changed(req[r], new, port, 0)
    <2>1. /\ req' = [req EXCEPT ![r] = x] /\ x.op = "port"
          /\ url' = lines /\ ents' = ents /\ issued' = issued /\ lock' = r
      <3>1. TypeInv /\ MayEnter(r) /\ Change(r, new, lines, port, 0)
        BY <1>0, <1>1
      <3> QED BY <1>0, <3>1, ChangeFacts
    <2> HIDE DEF x
    <2> QED BY <1>0, <2>1, ReqAfter, LinksAssumption
  <1>4. ASSUME ~cut
        PROVE  /\ Agrees(ents) /\ FirstIsOwn(e) /\ (\A g \in ents : g.port # port)
               /\ (\A g \in ents : g = e \/ (g.port # e.port /\ g.tag # e.tag))
               /\ Answered' = issued /\ Answered = issued /\ \A p : ~Doomed(p)
    <2>1. Agrees(ents) /\ Present = ents /\ StillTrue(r) /\ Answered = issued /\ \A p : ~Doomed(p)
      BY <1>0, <1>4, BeforeChange
    <2>2. FirstIsOwn(e) /\ \A g \in ents : g.port # port
      BY <1>0, <1>1, <2>1 DEF StillTrue, Waiting, MayEnter, Named, FreshPort
    <2>3. \A g \in ents : g = e \/ (g.port # e.port /\ g.tag # e.tag)
      BY <1>1, <2>1, <2>2 DEF Agrees, Differ
    <2> QED BY <1>3, <2>1, <2>2, <2>3 DEF Answered
  <1>5. ASSUME ~cut
        PROVE  /\ Moved(url', e.port, port)
               /\ \A n : Link(e.port, n) \in ToSet(url) => Link(port, n) \in ToSet(url')
    BY <1>0, <1>1, <1>3, <1>4, <1>5, UpsertMoves
  <1>6. \A g \in new : g = f \/ (g \in ents /\ g # e)
    BY <1>1
  <1>7. ASSUME ~cut PROVE Agrees(new)'
    <2>1. \A i \in DOMAIN url : \E g \in ents : g.port = url[i].port
      BY <1>4, <1>7 DEF Agrees, EachLineHasEntry
    <2>2. Differ(new)'
      <3>1. Differ(ents) /\ f.port = port /\ f.tag = e.tag
        BY <1>2, <1>4, <1>7 DEF Agrees
      <3>2. \A g \in new : g = f \/ (g \in ents /\ g.port # port /\ g.tag # e.tag)
        BY <1>4, <1>6, <1>7
      <3> QED BY <3>1, <3>2 DEF Differ
    <2>3. EachLineHasEntry(new)'
      <3> SUFFICES ASSUME NEW i \in DOMAIN url' PROVE \E g \in new : g.port = url'[i].port
        BY DEF EachLineHasEntry
      <3>1. i \in DOMAIN url
        BY <1>5, <1>7 DEF Moved
      <3>2. CASE url[i].port = e.port
        BY <1>2, <1>5, <1>7, <3>1, <3>2 DEF Moved
      <3>3. CASE url[i].port # e.port
        <4>1. url'[i] = url[i]
          BY <1>5, <1>7, <3>1, <3>3 DEF Moved
        <4> QED BY <1>1, <2>1, <3>1, <3>3, <4>1
      <3> QED BY <3>2, <3>3
    <2>4. EachLineOpens(new)'
      <3> SUFFICES ASSUME NEW g \in new, NEW i \in DOMAIN url', url'[i].port = g.port
                   PROVE  url'[i].whole /\ url'[i].cred \in ToSet(g.users)
        BY DEF EachLineOpens, LinesAt
      <3>1. i \in DOMAIN url /\ \E h \in ents : h.port = url[i].port
        BY <1>5, <1>7, <2>1 DEF Moved
      <3>2. CASE url[i].port = e.port
        <4>1. url'[i].port = port /\ url'[i].cred = url[i].cred /\ url'[i].whole = url[i].whole
          BY <1>5, <1>7, <3>1, <3>2 DEF Moved
        <4>2. url[i].whole /\ url[i].cred \in ToSet(e.users)
          BY <1>1, <1>4, <1>7, <3>1, <3>2 DEF Agrees, EachLineOpens, LinesAt
        <4>3. g = f
          BY <1>4, <1>6, <1>7, <4>1
        <4> QED BY <1>2, <4>1, <4>2, <4>3
      <3>3. CASE url[i].port # e.port
        <4>1. url'[i] = url[i]
          BY <1>5, <1>7, <3>1, <3>3 DEF Moved
        <4>2. g \in ents
          BY <1>2, <1>4, <1>6, <1>7, <3>1, <4>1
        <4> QED BY <1>4, <1>7, <3>1, <4>1, <4>2 DEF Agrees, EachLineOpens, LinesAt
      <3> QED BY <3>2, <3>3
    <2>5. EachNodeHasLine(new)'
      <3> SUFFICES ASSUME NEW g \in new, NEW n \in issued, n \in ToSet(g.users)
                   PROVE  Link(g.port, n) \in ToSet(url')
        BY <1>4, <1>7 DEF EachNodeHasLine
      <3>1. CASE g = f
        <4>1. Link(e.port, n) \in ToSet(url)
          BY <1>1, <1>2, <1>4, <1>7, <3>1 DEF Agrees, EachNodeHasLine
        <4> QED BY <1>2, <1>5, <1>7, <3>1, <4>1
      <3>2. CASE g \in ents /\ g # e
        <4>1. PICK i \in DOMAIN url : url[i] = Link(g.port, n)
          BY <1>4, <1>7, <3>2 DEF Agrees, EachNodeHasLine, ToSet
        <4>2. url[i].port # e.port
          BY <1>4, <1>7, <3>2, <4>1 DEF Link
        <4>3. url'[i] = Link(g.port, n) /\ i \in DOMAIN url'
          BY <1>5, <1>7, <4>1, <4>2 DEF Moved
        <4> QED BY <4>3 DEF ToSet
      <3> QED BY <1>6, <3>1, <3>2
    <2> QED BY <2>2, <2>3, <2>4, <2>5 DEF Agrees
  <1>8. ASSUME ~cut, NEW g \in ents, g.tag # req[r].tag, FirstIsOwn(g) PROVE FirstIsOwn(g)'
    <2>1. g.port # e.port /\ g.port # port
      BY <1>1, <1>4, <1>8
    <2>2. LinesAt(g.port)' = LinesAt(g.port) /\ \A i \in LinesAt(g.port) : url'[i] = url[i]
      BY <1>5, <1>8, <2>1 DEF Moved, LinesAt
    <2> QED BY <1>8, <2>2 DEF FirstIsOwn
  <1>9. /\ \A g \in new \cup ents : g.tag # req[r].tag => g \in new /\ g \in ents
        /\ \A g \in new : g.port = port \/ \E h \in ents : h.port = g.port
    BY <1>1, <1>2
  <1>10. \A g \in ents : ~cut /\ g.tag # req[r].tag /\ FirstIsOwn(g) => FirstIsOwn(g)'
    BY <1>8
  <1> QED BY <1>0, <1>1, <1>7, <1>9, <1>10, ChangeStep

(* The lines stay what they are.                                           *)
LEMMA SameLines ==
  ASSUME LinkInv, NEW r \in Requests, NEW new, NEW port, MayEnter(r), Change(r, new, url, port, 0),
         req[r].op \in {"toggle", "delete"}
  PROVE  /\ UNCHANGED <<ents, url>>
         /\ \A p : LinesAt(p)' = LinesAt(p)
         /\ \A g : FirstIsOwn(g) => FirstIsOwn(g)'
         /\ ~cut => Answered' = issued /\ \A p : Doomed(p)' <=> (req[r].op = "delete" /\ p = port)
  <1> DEFINE x == Changed(req[r], new, port, 0)
  <1>1. /\ req' = [req EXCEPT ![r] = x] /\ x.op = req[r].op /\ x.pc = "check" /\ x.port = port
        /\ url' = url /\ ents' = ents /\ issued' = issued /\ lock' = r
    BY ChangeFacts DEF LinkInv
  <1> HIDE DEF x
  <1>2. req'[r] = x /\ \A q \in Requests \ {r} : req'[q] = req[q]
    BY <1>1, ReqAfter DEF LinkInv
  <1>3. /\ \A p : LinesAt(p)' = LinesAt(p)
        /\ \A g : FirstIsOwn(g) => FirstIsOwn(g)'
    BY <1>1 DEF FirstIsOwn, LinesAt
  <1>4. ASSUME ~cut PROVE Answered' = issued /\ \A p : Doomed(p)' <=> (req[r].op = "delete" /\ p = port)
    <2>1. \A q \in Requests : ~Removes(q)
      BY <1>4, BeforeChange
    <2>2. \A q \in Requests \ {r} : ~Removes(q)'
      BY <1>2, <2>1 DEF Removes, Midway, Cleaning
    <2>3. Removes(r)' <=> req[r].op = "delete"
      BY <1>1, <1>2 DEF Removes, Midway
    <2>4. \A p : Doomed(p)' <=> (req[r].op = "delete" /\ p = port)
      BY <1>1, <1>2, <2>2, <2>3 DEF Doomed
    <2> QED BY <1>1, <1>2, <2>4 DEF Answered
  <1> QED BY <1>1, <1>3, <1>4

LEMMA ToggleStep ==
  ASSUME LinkInv, NEW r \in Requests, ApplyToggle(r)
  PROVE  LinkInv'
  <1>0. TypeInv /\ TypeInv' /\ MayEnter(r) /\ req[r].op = "toggle"
    BY ToggleType DEF LinkInv, ApplyToggle
  <1>1. PICK e, f, new, port, lines :
          /\ new = (ents \ {e}) \cup {f} /\ port = 0 /\ lines = url
          /\ e \in ents /\ e.tag = req[r].tag /\ f = [e EXCEPT !.on = ~@]
          /\ Change(r, new, lines, port, 0)
    BY DEF ApplyToggle, Named, Swapped
  <1>2. f.tag = e.tag /\ f.port = e.port /\ f.users = e.users
    <2>1. e \in Entries(drawn)
      BY <1>1 DEF LinkInv, TypeInv, TypeOK
    <2> QED BY <1>1, <2>1 DEF Entries
  <1>3. /\ UNCHANGED <<ents, url>>
        /\ \A p : LinesAt(p)' = LinesAt(p)
        /\ \A g : FirstIsOwn(g) => FirstIsOwn(g)'
        /\ ~cut => Answered' = issued /\ \A p : ~(Doomed(p)')
    <2>1. Change(r, new, url, port, 0)
      BY <1>1
    <2>2. UNCHANGED <<ents, url>> /\ (\A p : LinesAt(p)' = LinesAt(p)) /\ \A g : FirstIsOwn(g) => FirstIsOwn(g)'
      BY <1>0, <2>1, SameLines
    <2>3. ~cut => Answered' = issued /\ \A p : Doomed(p)' <=> (req[r].op = "delete" /\ p = port)
      BY <1>0, <2>1, SameLines
    <2> QED BY <1>0, <2>2, <2>3
  <1>4. ASSUME ~cut PROVE Agrees(ents) /\ Answered = issued /\ \A p : ~Doomed(p)
    BY <1>0, <1>4, BeforeChange
  <1>5. /\ \A g \in new : g = f \/ (g \in ents /\ g # e)
        /\ \A g \in new : \E h \in ents : h.tag = g.tag /\ h.port = g.port /\ h.users = g.users
        /\ \A h \in ents : \E g \in new : h.tag = g.tag /\ h.port = g.port /\ h.users = g.users
    BY <1>1, <1>2
  <1>6. ASSUME ~cut, NEW es,
               \A g \in es : \E h \in ents : h.tag = g.tag /\ h.port = g.port /\ h.users = g.users,
               \A h \in ents : \E g \in es : h.tag = g.tag /\ h.port = g.port /\ h.users = g.users,
               Differ(es)
        PROVE  Agrees(es)'
    <2>1. Agrees(ents) /\ Answered' = Answered /\ (\A p : ~Doomed(p)) /\ \A p : ~(Doomed(p)')
      BY <1>3, <1>4, <1>6
    <2>2. EachLineHasEntry(es)'
      BY <1>3, <1>6, <2>1 DEF Agrees, EachLineHasEntry
    <2>3. EachLineOpens(es)'
      BY <1>3, <1>6, <2>1 DEF Agrees, EachLineOpens
    <2>4. EachNodeHasLine(es)'
      BY <1>3, <1>6, <2>1 DEF Agrees, EachNodeHasLine
    <2> QED BY <1>6, <2>2, <2>3, <2>4 DEF Agrees, Differ
  <1>7. ~cut => Agrees(new)'
    <2> SUFFICES ASSUME ~cut PROVE Agrees(new)'
      OBVIOUS
    <2>1. Differ(ents) /\ e \in ents
      BY <1>1, <1>4 DEF Agrees
    <2>2. Differ(new)
      BY <1>2, <1>5, <2>1 DEF Differ
    <2> QED BY <1>5, <1>6, <2>2
  <1>8. ~cut => Agrees(ents)'
    <2> SUFFICES ASSUME ~cut PROVE Agrees(ents)'
      OBVIOUS
    <2>1. PICK es : es = ents
      OBVIOUS
    <2>2. Agrees(es)'
      BY <1>4, <1>6, <2>1 DEF Agrees
    <2> QED BY <1>3, <2>1, <2>2 DEF Agrees, Differ, EachLineHasEntry, EachLineOpens, EachNodeHasLine
  <1>9. /\ \A g \in new \cup ents : g.tag # req[r].tag => g \in new /\ g \in ents
        /\ \A g \in new : g.port = port \/ \E h \in ents : h.port = g.port
        /\ \A g \in ents : g.tag # req[r].tag /\ FirstIsOwn(g) => FirstIsOwn(g)'
    BY <1>1, <1>2, <1>3, <1>5
  <1> QED BY <1>0, <1>1, <1>7, <1>8, <1>9, ChangeStep

LEMMA DeleteStep ==
  ASSUME LinkInv, NEW r \in Requests, ApplyDelete(r)
  PROVE  LinkInv'
  <1>0. TypeInv /\ TypeInv' /\ MayEnter(r) /\ req[r].op = "delete"
    BY DeleteType DEF LinkInv, ApplyDelete
  <1>1. PICK e, new, port, lines :
          /\ new = ents \ {e} /\ port = e.port /\ lines = url
          /\ e \in ents /\ e.tag = req[r].tag
          /\ Change(r, new, lines, port, 0)
    BY DEF ApplyDelete, Named
  <1>3. /\ UNCHANGED <<ents, url>>
        /\ \A p : LinesAt(p)' = LinesAt(p)
        /\ \A g : FirstIsOwn(g) => FirstIsOwn(g)'
        /\ ~cut => Answered' = issued /\ \A p : Doomed(p)' <=> p = port
    <2>1. Change(r, new, url, port, 0)
      BY <1>1
    <2>2. UNCHANGED <<ents, url>> /\ (\A p : LinesAt(p)' = LinesAt(p)) /\ \A g : FirstIsOwn(g) => FirstIsOwn(g)'
      BY <1>0, <2>1, SameLines
    <2>3. ~cut => Answered' = issued /\ \A p : Doomed(p)' <=> (req[r].op = "delete" /\ p = port)
      BY <1>0, <2>1, SameLines
    <2> QED BY <1>0, <2>2, <2>3
  <1>4. ASSUME ~cut PROVE Agrees(ents) /\ Answered = issued /\ \A p : ~Doomed(p)
    BY <1>0, <1>4, BeforeChange
  <1>5. ASSUME ~cut, NEW es, es \subseteq ents, ents \subseteq es \cup {e}
        PROVE  Agrees(es)'
    <2>1. Agrees(ents) /\ Answered' = Answered /\ (\A p : ~Doomed(p)) /\ Doomed(port)'
      BY <1>3, <1>4, <1>5
    <2>2. EachLineHasEntry(es)'
      <3> SUFFICES ASSUME NEW i \in DOMAIN url, ~(\E g \in es : g.port = url[i].port)
                   PROVE  url[i].port = port
        BY <1>3, <1>5 DEF EachLineHasEntry
      <3>1. PICK g \in ents : g.port = url[i].port
        BY <2>1 DEF Agrees, EachLineHasEntry
      <3> QED BY <1>1, <1>5, <3>1
    <2>3. EachLineOpens(es)'
      BY <1>3, <1>5, <2>1 DEF Agrees, EachLineOpens
    <2>4. EachNodeHasLine(es)'
      BY <1>3, <1>5, <2>1 DEF Agrees, EachNodeHasLine
    <2> QED BY <1>5, <2>1, <2>2, <2>3, <2>4 DEF Agrees, Differ
  <1>7. ~cut => Agrees(new)'
    BY <1>1, <1>5
  <1>8. ~cut => Agrees(ents)'
    <2> SUFFICES ASSUME ~cut PROVE Agrees(ents)'
      OBVIOUS
    <2>1. PICK es : es = ents
      OBVIOUS
    <2>2. Agrees(es)'
      BY <1>5, <2>1
    <2> QED BY <1>3, <2>1, <2>2 DEF Agrees, Differ, EachLineHasEntry, EachLineOpens, EachNodeHasLine
  <1>9. /\ \A g \in new \cup ents : g.tag # req[r].tag => g \in new /\ g \in ents
        /\ \A g \in new : g.port = port \/ \E h \in ents : h.port = g.port
        /\ \A g \in ents : g.tag # req[r].tag /\ FirstIsOwn(g) => FirstIsOwn(g)'
    BY <1>1, <1>3
  <1>10. ~cut => (\A g \in new : g.port # port) /\ \E g \in ents : g.port = port
    BY <1>1, <1>4 DEF Agrees, Differ
  <1> QED BY <1>0, <1>1, <1>7, <1>8, <1>9, <1>10, ChangeStep
-----------------------------------------------------------------------------
(* After the change.                                                       *)

(* A deletion is alone, so only its own port is doomed.                    *)
LEMMA DeletionAlone ==
  ASSUME LinkInv, NEW r \in Requests, Busy(r)
  PROVE  /\ \A q \in Requests \ {r} : ~Removes(q) /\ ~Cleaning(q)
         /\ req[r].op = "delete" => \A q \in Requests \ {r} : ~Busy(q)
         /\ \A p : Doomed(p) <=> (Removes(r) /\ p = req[r].port)
  <1>1. \A q \in Requests \ {r} : Busy(q) => req[q].op # "delete" /\ req[r].op # "delete"
    BY DEF LinkInv, Apart
  <1>2. \A q \in Requests \ {r} : ~Removes(q) /\ ~Cleaning(q)
    <2>1. \A q \in Requests : AsksRight(req[q])
      BY TypeFacts DEF LinkInv
    <2> QED BY <1>1, <2>1 DEF AsksRight, Removes, Cleaning, Midway, Busy
  <1> QED BY <1>1, <1>2 DEF Doomed

LEMMA RefuseStep ==
  ASSUME LinkInv, NEW r \in Requests, Refuse(r)
  PROVE  LinkInv'
  <1>0. TypeInv /\ TypeInv' /\ Apart
    BY RestType DEF LinkInv
  <1>1. req[r].pc = "apply" /\ req' = [req EXCEPT ![r] = Free] /\ UNCHANGED <<ents, url, lock, issued, cut>>
    BY DEF Refuse, MayEnter
  <1>2. Free.pc = "idle" /\ Free.port = 0
    BY DEF Free, Asked
  <1>3. Apart'
    BY <1>0, <1>1, <1>2, ApartStep
  <1>4. ASSUME ~cut PROVE InStep'
    <2>1. InStep /\ ~Midway(r) /\ ~Cleaning(r)
      BY <1>1, <1>4 DEF LinkInv, Midway, Cleaning
    <2>2. Present' = Present /\ (\A q \in Requests : CleansUp(q)') /\ OneEntryChanges' /\ LinesAgree'
      BY <1>0, <1>1, <1>2, <2>1, QuietStep
    <2>3. ASSUME NEW q \in Requests PROVE StillTrue(q)'
      <3>1. CASE q = r
        BY <1>0, <1>1, <1>2, <3>1, ReqAfter DEF StillTrue, Waiting
      <3>2. CASE q # r
        <4>1. Waiting(q) /\ req[q].op \in {"add", "port"} => Free.port # req[q].port
          BY <1>0, <1>2, TypeFacts, LinksAssumption DEF Waiting, AsksRight
        <4> QED BY <1>0, <1>1, <2>1, <2>2, <3>2, <4>1, StillTrueKept DEF InStep
      <3> QED BY <3>1, <3>2
    <2> QED BY <2>2, <2>3 DEF InStep
  <1> QED BY <1>0, <1>1, <1>3, <1>4 DEF LinkInv

(* The lock is given back.                                                 *)
LEMMA ReleaseStep ==
  ASSUME LinkInv, TypeInv', NEW r \in Requests, NEW x, req' = [req EXCEPT ![r] = x],
         lock = r, lock' = NoReq, UNCHANGED <<ents, url>>,
         \/ x.pc = "idle" /\ x.port = 0
         \/ x.pc = "load" /\ x.tag = req[r].tag /\ x.op = req[r].op /\ req[r].op = "delete",
         ~cut' => ~cut /\ Agrees(ents)' /\ (x.pc = "load" => \A e \in ents : e.port # x.port)
  PROVE  LinkInv'
  <1>0. TypeInv /\ Apart /\ Busy(r)
    BY LockFacts DEF LinkInv, Midway, Busy
  <1>1. Apart'
    BY <1>0, ApartStep
  <1>2. req'[r] = x /\ \A q \in Requests \ {r} : req'[q] = req[q]
    BY <1>0, ReqAfter
  <1>3. ASSUME ~cut' PROVE InStep'
    <2>1. InStep
      BY <1>3 DEF LinkInv
    <2>2. Present' \subseteq Present
      BY DEF Present
    <2>3. ASSUME NEW q \in Requests PROVE StillTrue(q)'
      <3>1. CASE q = r
        BY <1>2, <3>1 DEF StillTrue, Waiting
      <3>2. CASE q # r
        <4>1. Waiting(q) /\ req[q].op \in {"add", "port"} => x.port # req[q].port
          <5>1. Waiting(q) => req[r].op # "delete"
            BY <1>0, <3>2, DeletionAlone DEF Waiting, Busy
          <5> QED BY <1>0, <5>1, TypeFacts, LinksAssumption DEF Waiting, AsksRight
        <4> QED BY <1>0, <2>1, <2>2, <3>2, <4>1, StillTrueKept DEF InStep
      <3> QED BY <3>1, <3>2
    <2>4. ASSUME NEW q \in Requests PROVE CleansUp(q)'
      <3>1. CASE q = r
        BY <1>2, <1>3, <3>1 DEF CleansUp, Cleaning
      <3>2. CASE q # r
        BY <1>2, <2>1, <3>2 DEF InStep, CleansUp, Cleaning
      <3> QED BY <3>1, <3>2
    <2>5. OneEntryChanges' /\ LinesAgree'
      BY <1>3 DEF OneEntryChanges, LinesAgree
    <2> QED BY <2>3, <2>4, <2>5 DEF InStep
  <1> QED BY <1>1, <1>3 DEF LinkInv

LEMMA CheckFailsStep ==
  ASSUME LinkInv, NEW r \in Requests, CheckFails(r)
  PROVE  LinkInv'
  <1>0. TypeInv /\ TypeInv'
    BY RestType DEF LinkInv
  <1>1. /\ req[r].pc = "check" /\ req' = [req EXCEPT ![r] = Free] /\ UNCHANGED <<ents, url, issued>>
        /\ lock = r /\ lock' = NoReq /\ r # NoReq /\ Free.pc = "idle" /\ Free.port = 0
        /\ ~cut' => ~cut /\ req[r].op \in {"toggle", "delete"}
    <2>1. lock = r /\ r # NoReq
      BY <1>0, LockFacts DEF CheckFails, Midway
    <2>2. req[r].op \in {"add", "batch", "port", "toggle", "delete"}
      BY <1>0, TypeFacts DEF CheckFails, AsksRight, Reqs
    <2> QED BY <2>1, <2>2 DEF CheckFails, Leave, Free, Asked
  <1>2. req'[r] = Free /\ \A q \in Requests \ {r} : req'[q] = req[q]
    BY <1>0, <1>1, ReqAfter
  <1>3. ASSUME ~cut' PROVE Agrees(ents)'
    <2>1. Agrees(ents) /\ Answered = issued /\ OneEntryChanges
      BY <1>1, <1>3 DEF LinkInv, InStep, LinesAgree, Answered
    <2>2. \A p : Doomed(p) => \E e \in ents : e.port = p
      <3>1. \A p : Doomed(p) => req[r].op = "delete" /\ p = req[r].port
        BY <1>1, DeletionAlone DEF Busy, Removes
      <3> QED BY <1>1, <2>1, <3>1 DEF OneEntryChanges
    <2>3. Answered' = issued
      BY <1>1 DEF Answered
    <2>4. EachLineHasEntry(ents)'
      BY <1>1, <2>1, <2>2 DEF Agrees, EachLineHasEntry
    <2> QED BY <1>1, <2>1, <2>3, <2>4 DEF Agrees, Differ, EachLineOpens, EachNodeHasLine, LinesAt
  <1> QED BY <1>0, <1>1, <1>3, ReleaseStep

LEMMA RestartSBStep ==
  ASSUME LinkInv, NEW r \in Requests, RestartSB(r)
  PROVE  LinkInv'
  <1>0. TypeInv /\ TypeInv'
    BY RestType DEF LinkInv
  <1> DEFINE x == IF req[r].op = "delete" THEN [req[r] EXCEPT !.pc = "load", !.new = {}] ELSE Free
  <1>1. /\ req[r].pc = "restart" /\ req' = [req EXCEPT ![r] = x] /\ UNCHANGED <<ents, url, cut>>
        /\ lock = r /\ lock' = NoReq /\ r # NoReq
        /\ issued' = Answered
    BY <1>0, LockFacts DEF RestartSB, Leave, Answered, Midway
  <1>2. /\ req[r].op = "delete" => /\ x.pc = "load" /\ x.port = req[r].port
                                   /\ x.tag = req[r].tag /\ x.op = "delete"
        /\ req[r].op # "delete" => x.pc = "idle" /\ x.port = 0
    <2>1. req[r] \in Reqs(drawn)
      BY <1>0, TypeFacts
    <2> QED BY <2>1 DEF Reqs, Free, Asked
  <1> HIDE DEF x
  <1>3. req'[r] = x /\ \A q \in Requests \ {r} : req'[q] = req[q]
    BY <1>0, <1>1, ReqAfter
  <1>4. ASSUME ~cut' PROVE Agrees(ents)' /\ (x.pc = "load" => \A e \in ents : e.port # x.port)
    <2>1. Agrees(ents) /\ OneEntryChanges /\ ents = req[r].new
      BY <1>1, <1>4 DEF LinkInv, InStep, LinesAgree, OneEntryChanges
    <2>2. Answered' = Answered
      BY <1>1 DEF Answered
    <2>3. \A p : Doomed(p)' <=> Doomed(p)
      BY <1>1, <1>2, <1>3 DEF Doomed, Removes, Midway, Cleaning
    <2>4. Agrees(ents)'
      BY <1>1, <2>1, <2>2, <2>3 DEF Agrees, Differ, EachLineHasEntry, EachLineOpens, EachNodeHasLine, LinesAt
    <2> QED BY <1>1, <1>2, <2>1, <2>4 DEF OneEntryChanges
  <1> QED BY <1>0, <1>1, <1>2, <1>4, ReleaseStep

LEMMA RestartFailsStep ==
  ASSUME LinkInv, NEW r \in Requests, RestartFails(r)
  PROVE  LinkInv'
  <1>0. TypeInv /\ TypeInv'
    BY RestType DEF LinkInv
  <1>1. /\ req[r].pc = "restart" /\ req' = [req EXCEPT ![r] = Free] /\ UNCHANGED <<ents, url, issued>>
        /\ lock = r /\ lock' = NoReq /\ r # NoReq /\ Free.pc = "idle" /\ Free.port = 0
        /\ ~cut' => ~cut /\ req[r].op # "delete"
    BY <1>0, LockFacts DEF RestartFails, Leave, Midway, Free, Asked
  <1>2. req'[r] = Free /\ \A q \in Requests \ {r} : req'[q] = req[q]
    BY <1>0, <1>1, ReqAfter
  <1>3. ASSUME ~cut' PROVE Agrees(ents)'
    <2>1. Agrees(ents)
      BY <1>1, <1>3 DEF LinkInv, InStep, LinesAgree, OneEntryChanges
    <2>2. Answered' \subseteq Answered
      BY <1>1 DEF Answered
    <2>3. \A p : ~Doomed(p)
      BY <1>1, <1>3, DeletionAlone DEF Busy, Removes
    <2>4. EachNodeHasLine(ents)'
      BY <1>1, <2>1, <2>2 DEF Agrees, EachNodeHasLine
    <2> QED BY <1>1, <2>1, <2>3, <2>4 DEF Agrees, Differ, EachLineHasEntry, EachLineOpens, LinesAt
  <1> QED BY <1>0, <1>1, <1>3, ReleaseStep

LEMMA WriteSBStep ==
  ASSUME LinkInv, NEW r \in Requests, WriteSB(r)
  PROVE  LinkInv'
  <1>0. TypeInv /\ TypeInv' /\ Apart
    BY RestType DEF LinkInv
  <1> DEFINE x == [req[r] EXCEPT !.pc = "restart"]
  <1>1. /\ req[r].pc = "check" /\ req' = [req EXCEPT ![r] = x] /\ UNCHANGED <<url, lock, issued, cut>>
        /\ ents' = req[r].new /\ lock = r /\ r # NoReq /\ Busy(r)
    BY <1>0, LockFacts DEF WriteSB, Midway, Busy
  <1>2. /\ x.pc = "restart" /\ x.op = req[r].op /\ x.tag = req[r].tag /\ x.port = req[r].port
        /\ x.new = req[r].new /\ x.node = req[r].node
    <2>1. req[r] \in Reqs(drawn)
      BY <1>0, TypeFacts
    <2> QED BY <2>1 DEF Reqs
  <1> HIDE DEF x
  <1>3. req'[r] = x /\ \A q \in Requests \ {r} : req'[q] = req[q]
    BY <1>0, <1>1, ReqAfter
  <1>4. Apart'
    BY <1>0, <1>1, <1>2, ApartStep
  <1>5. ASSUME ~cut PROVE InStep'
    <2>1. InStep /\ Agrees(req[r].new)
      BY <1>1, <1>5 DEF LinkInv, InStep, LinesAgree
    <2>2. Present' \subseteq Present
      BY <1>1, <1>2, <1>3 DEF Present
    <2>3. ASSUME NEW q \in Requests PROVE StillTrue(q)'
      <3>1. CASE q = r
        BY <1>2, <1>3, <3>1 DEF StillTrue, Waiting
      <3>2. CASE q # r
        <4>1. Waiting(q) /\ req[q].op \in {"add", "port"} => x.port # req[q].port
          BY <1>2, <2>1, <3>2 DEF InStep, StillTrue, FreshPort
        <4> QED BY <1>0, <1>1, <2>1, <2>2, <3>2, <4>1, StillTrueKept DEF InStep
      <3> QED BY <3>1, <3>2
    <2>4. ASSUME NEW q \in Requests PROVE CleansUp(q)'
      <3>1. CASE q = r
        BY <1>2, <1>3, <3>1 DEF CleansUp, Cleaning
      <3>2. CASE q # r
        <4>1. ~Cleaning(q)
          BY <1>1, <3>2, DeletionAlone
        <4> QED BY <1>3, <3>2, <4>1 DEF CleansUp, Cleaning
      <3> QED BY <3>1, <3>2
    <2>5. OneEntryChanges'
      BY <1>1, <1>2, <1>3, <2>1 DEF InStep, OneEntryChanges
    <2>6. LinesAgree'
      <3>1. Answered' = Answered /\ \A p : Doomed(p)' <=> Doomed(p)
        <4>1. Answered' = Answered
          BY <1>1, <1>2, <1>3 DEF Answered
        <4>2. \A q \in Requests : req'[q].port = req[q].port /\ (Removes(q)' <=> Removes(q))
          BY <1>1, <1>2, <1>3 DEF Removes, Midway, Cleaning
        <4> QED BY <4>1, <4>2 DEF Doomed
      <3>2. \A es : Agrees(es) => Agrees(es)'
        BY <1>1, <3>1 DEF Agrees, Differ, EachLineHasEntry, EachLineOpens, EachNodeHasLine, LinesAt
      <3>3. Agrees(req[r].new)'
        <4>1. PICK es : es = req[r].new
          OBVIOUS
        <4>2. Agrees(es)' /\ req'[r].new = es
          BY <1>2, <1>3, <2>1, <3>2, <4>1
        <4> QED BY <4>2 DEF Agrees, Differ, EachLineHasEntry, EachLineOpens, EachNodeHasLine
      <3>4. req'[lock'].new = ents' /\ req'[r].new = ents' /\ lock' = r
        BY <1>1, <1>2, <1>3
      <3> QED BY <3>3, <3>4 DEF LinesAgree, Agrees, Differ, EachLineHasEntry, EachLineOpens, EachNodeHasLine
    <2> QED BY <2>3, <2>4, <2>5, <2>6 DEF InStep
  <1> QED BY <1>0, <1>1, <1>4, <1>5 DEF LinkInv

(* A deletion at its lines: nobody else is about, and they are those of    *)
(* the entries but for the port deleted.                                   *)
LEMMA CleaningFacts ==
  ASSUME LinkInv, NEW r \in Requests, Cleaning(r)
  PROVE  /\ req[r].op = "delete" /\ lock = NoReq /\ (\A q \in Requests \ {r} : ~Busy(q))
         /\ (\A p : Doomed(p) <=> p = req[r].port) /\ Answered = issued
         /\ ~cut => Agrees(ents) /\ CleansUp(r)
  <1>1. req[r].op = "delete" /\ Busy(r)
    BY TypeFacts DEF LinkInv, AsksRight, Cleaning, Busy
  <1>2. \A q \in Requests \ {r} : ~Busy(q)
    BY <1>1, DeletionAlone
  <1>3. lock = NoReq
    BY <1>2, LockFacts DEF LinkInv, Cleaning, Midway, Busy
  <1> QED BY <1>1, <1>2, <1>3, DeletionAlone DEF Removes, Answered, LinkInv, InStep, LinesAgree

LEMMA LoadLinesStep ==
  ASSUME LinkInv, NEW r \in Requests, LoadLines(r)
  PROVE  LinkInv'
  <1>0. TypeInv /\ TypeInv' /\ Apart
    BY RestType DEF LinkInv
  <1> DEFINE x == [req[r] EXCEPT !.pc = "save", !.lines = url]
  <1>1. /\ req[r].pc = "load" /\ req' = [req EXCEPT ![r] = x] /\ Cleaning(r) /\ Busy(r)
        /\ UNCHANGED <<ents, url, lock, issued, cut>>
    BY <1>0, TypeFacts DEF LoadLines, Cleaning, Busy
  <1>2. /\ x.pc = "save" /\ x.op = req[r].op /\ x.tag = req[r].tag /\ x.port = req[r].port /\ x.lines = url
    <2>1. req[r] \in Reqs(drawn)
      BY <1>0, TypeFacts
    <2> QED BY <2>1 DEF Reqs
  <1> HIDE DEF x
  <1>3. req'[r] = x /\ \A q \in Requests \ {r} : req'[q] = req[q]
    BY <1>0, <1>1, ReqAfter
  <1>4. Apart'
    BY <1>0, <1>1, <1>2, ApartStep
  <1>5. ASSUME ~cut PROVE InStep'
    <2>1. /\ req[r].op = "delete" /\ lock = NoReq /\ (\A q \in Requests \ {r} : ~Busy(q))
          /\ Agrees(ents) /\ CleansUp(r)
      BY <1>1, <1>5, CleaningFacts
    <2>2. \A q \in Requests : StillTrue(q)'
      BY <1>2, <1>3, <2>1 DEF StillTrue, Waiting, Busy
    <2>3. \A q \in Requests : CleansUp(q)'
      BY <1>1, <1>2, <1>3, <2>1 DEF CleansUp, Cleaning, Busy
    <2>4. Answered' = Answered /\ \A p : Doomed(p)' <=> Doomed(p)
      BY <1>1, <1>2, <1>3, <2>1 DEF Answered, Doomed, Removes, Midway, Cleaning
    <2>5. Agrees(ents)'
      BY <1>1, <2>1, <2>4 DEF Agrees, Differ, EachLineHasEntry, EachLineOpens, EachNodeHasLine, LinesAt
    <2> QED BY <1>1, <2>1, <2>2, <2>3, <2>5 DEF InStep, OneEntryChanges, LinesAgree
  <1> QED BY <1>0, <1>1, <1>4, <1>5 DEF LinkInv

LEMMA SaveLinesStep ==
  ASSUME LinkInv, NEW r \in Requests, SaveLines(r)
  PROVE  LinkInv'
  <1>0. TypeInv /\ TypeInv' /\ Apart
    BY RestType DEF LinkInv
  <1>1. /\ req[r].pc = "save" /\ req' = [req EXCEPT ![r] = Free] /\ Cleaning(r) /\ Busy(r)
        /\ UNCHANGED <<ents, lock, issued, cut>>
        /\ url' = RemoveShareURL(req[r].lines, req[r].port)
    BY DEF SaveLines, Cleaning, Busy
  <1>2. Free.pc = "idle"
    BY DEF Free, Asked
  <1>3. req'[r] = Free /\ \A q \in Requests \ {r} : req'[q] = req[q]
    BY <1>0, <1>1, ReqAfter
  <1>4. Apart'
    BY <1>0, <1>1, <1>2, ApartStep
  <1>5. ASSUME ~cut PROVE InStep'
    <2>1. /\ req[r].op = "delete" /\ lock = NoReq /\ (\A q \in Requests \ {r} : ~Busy(q))
          /\ Agrees(ents) /\ CleansUp(r) /\ (\A p : Doomed(p) <=> p = req[r].port) /\ Answered = issued
      BY <1>1, <1>5, CleaningFacts
    <2>2. \A q \in Requests : ~Busy(q)'
      BY <1>2, <1>3, <2>1 DEF Busy
    <2>3. (\A q \in Requests : StillTrue(q)' /\ CleansUp(q)') /\ Answered' = issued /\ \A p : ~(Doomed(p)')
      BY <1>1, <2>1, <2>2 DEF StillTrue, Waiting, CleansUp, Cleaning, Busy, Removes, Midway, Doomed, Answered
    <2> DEFINE keep == {i \in DOMAIN url : url[i].port # req[r].port}
    <2>4. /\ \A i \in DOMAIN url' : \E k \in keep : url'[i] = url[k]
          /\ \A k \in keep : \E i \in DOMAIN url' : url'[i] = url[k]
      <3>1. url' = Pick(url, keep)
        BY <1>1, <2>1 DEF CleansUp, Cleaning, RemoveShareURL
      <3>2. url \in Seq(Links(drawn)) /\ keep \in SUBSET (1 .. Len(url))
        BY <1>0 DEF TypeInv, TypeOK
      <3> HIDE DEF keep
      <3> QED BY <3>1, <3>2, PickMembers
    <2>5. \A e \in ents : e.port # req[r].port
      BY <1>1, <2>1 DEF CleansUp
    <2>6. EachLineHasEntry(ents)'
      <3> SUFFICES ASSUME NEW i \in DOMAIN url' PROVE \E e \in ents : e.port = url'[i].port
        BY <1>1 DEF EachLineHasEntry
      <3> QED BY <2>1, <2>4 DEF Agrees, EachLineHasEntry
    <2>7. EachLineOpens(ents)'
      <3> SUFFICES ASSUME NEW e \in ents, NEW i \in DOMAIN url', url'[i].port = e.port
                   PROVE  url'[i].whole /\ url'[i].cred \in ToSet(e.users)
        BY <1>1 DEF EachLineOpens, LinesAt
      <3> QED BY <2>1, <2>4 DEF Agrees, EachLineOpens, LinesAt
    <2>8. EachNodeHasLine(ents)'
      <3> SUFFICES ASSUME NEW e \in ents, NEW n \in issued, n \in ToSet(e.users)
                   PROVE  Link(e.port, n) \in ToSet(url')
        BY <1>1, <2>3 DEF EachNodeHasLine
      <3>1. PICK k \in DOMAIN url : url[k] = Link(e.port, n)
        BY <2>1 DEF Agrees, EachNodeHasLine, ToSet
      <3>2. k \in keep
        BY <2>5, <3>1 DEF Link
      <3> QED BY <2>4, <3>1, <3>2 DEF ToSet
    <2>9. Agrees(ents)'
      BY <1>1, <2>1, <2>6, <2>7, <2>8 DEF Agrees, Differ
    <2> QED BY <1>1, <2>1, <2>3, <2>9 DEF InStep, OneEntryChanges, LinesAgree
  <1> QED BY <1>0, <1>1, <1>4, <1>5 DEF LinkInv
-----------------------------------------------------------------------------
(* The invariants of the specification.                                    *)


LEMMA TypeStep ==
  ASSUME TypeInv, [Next]_vars
  PROVE  TypeInv'
  <1>1. CASE UNCHANGED vars
    BY <1>1 DEF vars, TypeInv, TypeOK
  <1>2. ASSUME NEW r \in Requests, NEW tag \in Tags, NEW port \in Ports, AddInbound(r, tag, port)
        PROVE  TypeInv'
    <2>1. PICK src \in SUBSET ents :
            /\ \A e, f \in src : e = f
            /\ MayAsk(r, "socks", tag) \/ MayAsk(r, "clone", tag)
            /\ Ask(r, "add", tag, port, src)
      <3>1. CASE MayAsk(r, "socks", tag) /\ Ask(r, "add", tag, port, {})
        BY <3>1
      <3>2. CASE MayAsk(r, "clone", tag) /\ \E e \in Enabled(ents) : Ask(r, "add", tag, port, {e})
        BY <3>2 DEF Enabled
      <3> QED BY <1>2, <3>1, <3>2 DEF AddInbound
    <2> QED BY <2>1, AskType DEF MayAsk
  <1>3. ASSUME NEW r \in Requests, NEW tag \in Tags, NEW port \in Ports, PutPort(r, tag, port)
        PROVE  TypeInv'
    BY <1>3, AskType DEF PutPort, MayAsk
  <1>4. ASSUME NEW r \in Requests, NEW tag \in Tags, BatchUsers(r, tag)
        PROVE  TypeInv'
    <2>1. PICK e \in Named(Enabled(ents), tag) : Ask(r, "batch", tag, e.port, {})
      BY <1>4 DEF BatchUsers
    <2>2. e.port \in Ports /\ req[r].pc = "idle"
      BY <1>4 DEF Named, Enabled, TypeInv, TypeOK, Entries, BatchUsers, MayAsk
    <2> QED BY <2>1, <2>2, AskType
  <1>5. ASSUME NEW r \in Requests, NEW tag \in Tags, PutEnabled(r, tag) \/ DelInbound(r, tag)
        PROVE  TypeInv'
    <2>1. req[r].pc = "idle" /\ \E op \in {"toggle", "delete"} : Ask(r, op, tag, 0, {})
      BY <1>5 DEF PutEnabled, DelInbound, MayAsk
    <2> QED BY <2>1, AskType
  <1>6. ASSUME NEW r \in Requests,
               ApplyAdd(r) \/ ApplyBatch(r) \/ ApplyPort(r) \/ ApplyToggle(r) \/ ApplyDelete(r)
        PROVE  TypeInv'
    BY <1>6, AddType, BatchType, PortType, ToggleType, DeleteType
  <1>7. ASSUME NEW r \in Requests,
               \/ Refuse(r) \/ CheckFails(r) \/ WriteSB(r) \/ RestartSB(r) \/ RestartFails(r)
               \/ LoadLines(r) \/ SaveLines(r)
        PROVE  TypeInv'
    BY <1>7, RestType
  <1> QED BY <1>1, <1>2, <1>3, <1>4, <1>5, <1>6, <1>7 DEF Next

(* Entries have users, lines name ports and credentials that were drawn,   *)
(* and the lock is held exactly by the request between its change and its  *)
(* answer, whatever the operator's habits: every way out of applySingBox   *)
(* gives it back.                                                          *)
THEOREM LinksTyped == Spec => []TypeOK
  <1>1. TypeInv => TypeOK
    BY DEF TypeInv
  <1> QED BY <1>1, TypeInit, TypeStep, PTL DEF Spec

LEMMA LinkInit ==
  ASSUME StartsConsistent, Init
  PROVE  LinkInv
  <1>1. TypeInv
    BY TypeInit
  <1>2. /\ lock = NoReq /\ issued = {} /\ \A r \in Requests : req[r].pc = "idle"
    BY DEF Init, Free, Asked
  <1>3. Consistent(ents, url)
    BY DEF Init, StartsConsistent
  <1>4. Agrees(ents)
    BY <1>2, <1>3 DEF Consistent, Agrees, Differ, EachLineHasEntry, EachLineOpens, EachNodeHasLine,
                      Answered, LinesAt
  <1>5. Apart /\ OneEntryChanges /\ LinesAgree /\ \A r \in Requests : StillTrue(r) /\ CleansUp(r)
    BY <1>2, <1>4 DEF Apart, Busy, OneEntryChanges, LinesAgree, StillTrue, Waiting, CleansUp, Cleaning
  <1> QED BY <1>1, <1>5 DEF LinkInv, InStep

LEMMA LinkStutter ==
  ASSUME LinkInv, UNCHANGED vars
  PROVE  LinkInv'
  <1>1. TypeInv'
    BY DEF LinkInv, vars, TypeInv, TypeOK
  <1>2. Apart' /\ cut' = cut
    BY DEF LinkInv, vars, Apart, Busy
  <1>3. ASSUME ~cut PROVE InStep'
    <2>1. InStep
      BY <1>3 DEF LinkInv
    <2>2. (\A r \in Requests : StillTrue(r)' /\ CleansUp(r)') /\ OneEntryChanges'
      BY <2>1 DEF vars, InStep, StillTrue, Waiting, FreshPort, Named, Present, FirstIsOwn, LinesAt,
                  CleansUp, Cleaning, OneEntryChanges
    <2>3. Answered' = Answered /\ \A p : Doomed(p)' <=> Doomed(p)
      BY DEF vars, Answered, Doomed, Removes, Midway, Cleaning
    <2>4. LinesAgree'
      BY <2>1, <2>3 DEF vars, InStep, LinesAgree, Agrees, Differ, EachLineHasEntry, EachLineOpens,
                        EachNodeHasLine, LinesAt
    <2> QED BY <2>2, <2>4 DEF InStep
  <1> QED BY <1>1, <1>2, <1>3 DEF LinkInv

LEMMA LinkStep ==
  ASSUME Careful, LinkInv, [Next]_vars
  PROVE  LinkInv'
  <1>1. CASE UNCHANGED vars
    BY <1>1, LinkStutter
  <1>2. ASSUME NEW r \in Requests, NEW tag \in Tags, NEW port \in Ports,
               AddInbound(r, tag, port) \/ PutPort(r, tag, port)
        PROVE  LinkInv'
    BY <1>2, AddInboundStep, PutPortStep
  <1>3. ASSUME NEW r \in Requests, NEW tag \in Tags,
               BatchUsers(r, tag) \/ PutEnabled(r, tag) \/ DelInbound(r, tag)
        PROVE  LinkInv'
    BY <1>3, BatchUsersStep, PutEnabledStep, DelInboundStep
  <1>4. ASSUME NEW r \in Requests,
               ApplyAdd(r) \/ ApplyBatch(r) \/ ApplyPort(r) \/ ApplyToggle(r) \/ ApplyDelete(r)
        PROVE  LinkInv'
    BY <1>4, AddStep, BatchStep, PortStep, ToggleStep, DeleteStep
  <1>5. ASSUME NEW r \in Requests,
               \/ Refuse(r) \/ CheckFails(r) \/ WriteSB(r) \/ RestartSB(r) \/ RestartFails(r)
               \/ LoadLines(r) \/ SaveLines(r)
        PROVE  LinkInv'
    BY <1>5, RefuseStep, CheckFailsStep, WriteSBStep, RestartSBStep, RestartFailsStep,
       LoadLinesStep, SaveLinesStep
  <1> QED BY <1>1, <1>2, <1>3, <1>4, <1>5 DEF Next

(* With a careful operator and files that agree at the start, lines and    *)
(* entries stay in step until a failure of sing-box cuts a change in two.  *)
THEOREM LinksInvariant ==
  ASSUME Careful, StartsConsistent
  PROVE  Spec => []LinkInv
  <1>1. Init => LinkInv
    BY LinkInit
  <1>2. LinkInv /\ [Next]_vars => LinkInv'
    BY LinkStep
  <1> QED BY <1>1, <1>2, PTL DEF Spec

LEMMA AtRest ==
  ASSUME LinkInv, Resting, ~cut
  PROVE  Agrees(ents) /\ (\A p : ~Doomed(p)) /\ Answered = issued
  <1>1. lock = NoReq
    BY LockFacts DEF LinkInv, Resting, Midway
  <1> QED BY <1>1 DEF LinkInv, InStep, LinesAgree, Answered, Doomed, Removes, Midway, Cleaning, Resting

(* A node that was handed out and is still a user of an entry has its line *)
(* with the entry's port, however often the port was changed since.        *)
THEOREM NodesStayLinked ==
  ASSUME Careful, StartsConsistent
  PROVE  Spec => []NodesLinked
  <1>1. LinkInv => NodesLinked
    BY AtRest DEF NodesLinked, Agrees, EachNodeHasLine
  <1> QED BY <1>1, LinksInvariant, PTL

(* No line outlives its entry.                                             *)
THEOREM LinesHaveEntries ==
  ASSUME Careful, StartsConsistent
  PROVE  Spec => []NoOrphanLinks
  <1>1. LinkInv => NoOrphanLinks
    BY AtRest DEF NoOrphanLinks, NoOrphansEver, Agrees, EachLineHasEntry
  <1> QED BY <1>1, LinksInvariant, PTL

(* Every line with an entry's port carries what one of its users logs in   *)
(* with.                                                                   *)
THEOREM LinesOpenEntries ==
  ASSUME Careful, StartsConsistent
  PROVE  Spec => []LinksOpen
  <1>1. LinkInv => LinksOpen
    BY AtRest DEF LinksOpen, Agrees, EachLineOpens
  <1> QED BY <1>1, LinksInvariant, PTL
=============================================================================
