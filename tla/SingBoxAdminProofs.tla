------------------------- MODULE SingBoxAdminProofs -------------------------
(***************************************************************************)
(* That the handlers keep sing-box's configuration sound: what each change *)
(* of SingBoxConf does to rules and outbounds, then invariants of the      *)
(* handlers at work, from the types up to what is true between requests.   *)
(***************************************************************************)
EXTENDS SingBoxAdmin, SeqPickProofs

(* IsConf as a set.                                                        *)
Obses == UNION {[S -> Outs] : S \in SUBSET ObTags}
Confs == [inb : Seq(Tags), obs : Obses, rules : Seq(Rules)]

(* The two ways to say what a configuration is agree.                      *)
LEMMA ConfSet ==
  ASSUME NEW c
  PROVE  IsConf(c) <=> c \in Confs
  <1>1. ASSUME IsConf(c) PROVE c \in Confs
    <2>1. c.obs \in Obses
      BY <1>1 DEF IsConf, Obses
    <2> QED BY <1>1, <2>1 DEF IsConf, Confs
  <1>2. ASSUME c \in Confs PROVE IsConf(c)
    <2>1. PICK S \in SUBSET ObTags : c.obs \in [S -> Outs]
      BY <1>2 DEF Confs, Obses
    <2>2. DOMAIN c.obs = S
      BY <2>1
    <2> QED BY <1>2, <2>1, <2>2 DEF IsConf, Confs
  <1> QED BY <1>1, <1>2

(* What a member of Confs is made of.                                      *)
LEMMA ConfFacts ==
  ASSUME NEW c \in Confs
  PROVE  /\ c.inb \in Seq(Tags) /\ c.rules \in Seq(Rules)
         /\ DOMAIN c.obs \subseteq ObTags /\ \A o \in DOMAIN c.obs : c.obs[o] \in Outs
         /\ ToSet(c.inb) \subseteq Tags /\ ToSet(c.rules) \subseteq Rules
  <1>1. c.inb \in Seq(Tags) /\ c.rules \in Seq(Rules) /\ DOMAIN c.obs \subseteq ObTags /\ c.obs \in [DOMAIN c.obs -> Outs]
    BY ConfSet DEF IsConf
  <1> QED BY <1>1 DEF ToSet

(* A configuration put together again.                                     *)
LEMMA ConfMade ==
  ASSUME NEW inb \in Seq(Tags), NEW D \in SUBSET ObTags, NEW obs \in [D -> Outs], NEW rules \in Seq(Rules)
  PROVE  [inb |-> inb, obs |-> obs, rules |-> rules] \in Confs
  <1>1. obs \in Obses
    BY DEF Obses
  <1> QED BY <1>1 DEF Confs

-----------------------------------------------------------------------------
(* Tags of outbounds.                                                      *)

(* Tags of outbounds tell kind, inbound and user apart.                    *)
LEMMA TagFacts ==
  /\ \A t, u : Ps(t) = Ps(u) => t = u
  /\ \A t, u, i, j : Psu(t, i) = Psu(u, j) => t = u /\ i = j
  /\ \A t, u, i : Ps(t) # Psu(u, i)
  /\ \A t : IsSocks(Ps(t)) /\ Ps(t)[1] # "psu" /\ Ps(t)[2] = t /\ Ps(t)[1] # "wg" /\ Ps(t) # Direct
  /\ \A t, i : IsSocks(Psu(t, i)) /\ Psu(t, i)[1] = "psu" /\ Psu(t, i)[2] = t /\ Psu(t, i) # Direct
  /\ \A n : ~IsSocks(Wg(n)) /\ Wg(n)[1] = "wg" /\ Wg(n) # Direct
  /\ \A t, n : Ps(t) # Wg(n)
  /\ \A t, i, n : Psu(t, i) # Wg(n)
  BY DEF Ps, Psu, Wg, Direct, IsSocks

(* The tag of an outbound is of one of the kinds, direct excepted.         *)
LEMMA ObTagFacts ==
  ASSUME NEW o \in ObTags
  PROVE  /\ IsSocks(o) => o[2] \in Tags /\ (o = Ps(o[2]) \/ (o[1] = "psu" /\ \E i \in Users : o = Psu(o[2], i)))
         /\ ~IsSocks(o) => o[1] = "wg" /\ \E n \in Tunnels : o = Wg(n)
         /\ o # Direct
  <1>1. CASE \E t \in Tags : o = Ps(t)
    BY <1>1, TagFacts
  <1>2. CASE \E t \in Tags, i \in Users : o = Psu(t, i)
    BY <1>2, TagFacts
  <1>3. CASE \E n \in Tunnels : o = Wg(n)
    BY <1>3, TagFacts
  <1> QED BY <1>1, <1>2, <1>3 DEF ObTags

(* The outbounds of the proxy's that belong to inbound t.                  *)
LEMMA OwnObs ==
  ASSUME NEW c \in Confs, NEW t, NEW o \in DOMAIN c.obs
  PROVE  o \in UserObs(c.obs, t) \cup {Ps(t)} <=> IsSocks(o) /\ o[2] = t
  <1>1. o \in ObTags
    BY ConfFacts
  <1>2. CASE IsSocks(o)
    BY <1>1, <1>2, ObTagFacts, TagFacts DEF UserObs
  <1>3. CASE ~IsSocks(o)
    BY <1>1, <1>3, ObTagFacts, TagFacts DEF UserObs
  <1> QED BY <1>2, <1>3

-----------------------------------------------------------------------------
(* The loops over rules and lists.                                         *)

(* Pick keeps the type of a sequence, and the members picked.              *)
LEMMA PickSet ==
  ASSUME NEW S, NEW s \in Seq(S), NEW keep \in SUBSET (DOMAIN s)
  PROVE  Pick(s, keep) \in Seq(S) /\ ToSet(Pick(s, keep)) = {s[k] : k \in keep}
  <1>1. keep \in SUBSET (1 .. Len(s))
    OBVIOUS
  <1> QED BY <1>1, PickMembers DEF ToSet

(* The list without the first t in it.                                     *)
LEMMA TakenFacts ==
  ASSUME NEW list \in Seq(Tags), NEW t \in ToSet(list)
  PROVE  /\ Taken(list, t) \in Seq(Tags)
         /\ ToSet(Taken(list, t)) \subseteq ToSet(list)
         /\ ToSet(list) \subseteq ToSet(Taken(list, t)) \cup {t}
  <1> DEFINE S == {i \in DOMAIN list : list[i] = t}
  <1>1. S \in SUBSET Nat /\ S # {}
    <2>1. DOMAIN list = 1 .. Len(list) /\ Len(list) \in Nat
      OBVIOUS
    <2> QED BY <2>1 DEF ToSet
  <1>2. Find(list, t) \in S
    <2> HIDE DEF S
    <2>1. Min(S) \in S
      BY <1>1, MinFacts
    <2> QED BY <2>1 DEF Find, S
  <1> DEFINE keep == DOMAIN list \ {Find(list, t)}
  <1>3. Taken(list, t) \in Seq(Tags) /\ ToSet(Taken(list, t)) = {list[k] : k \in keep}
    <2>1. keep \in SUBSET (DOMAIN list)
      OBVIOUS
    <2>2. Taken(list, t) = Pick(list, keep)
      BY DEF Taken
    <2> HIDE DEF keep
    <2> QED BY <2>1, <2>2, PickSet
  <1> QED BY <1>2, <1>3 DEF ToSet

IsPlain(x, t) == x.inb = t /\ x.user = NoUser

(* The two removals of rules, by their members.                            *)
LEMMA WithoutFacts ==
  ASSUME NEW rules \in Seq(Rules), NEW t
  PROVE  /\ Without(rules, t) \in Seq(Rules)
         /\ ToSet(Without(rules, t)) = {x \in ToSet(rules) : x.inb # t}
         /\ WithoutPlain(rules, t) \in Seq(Rules)
         /\ ToSet(WithoutPlain(rules, t)) = {x \in ToSet(rules) : ~IsPlain(x, t)}
  <1>1. /\ Without(rules, t) \in Seq(Rules)
        /\ ToSet(Without(rules, t)) = {rules[k] : k \in DOMAIN rules \ Of(rules, t)}
    BY PickSet DEF Without
  <1>2. /\ WithoutPlain(rules, t) \in Seq(Rules)
        /\ ToSet(WithoutPlain(rules, t)) = {rules[k] : k \in DOMAIN rules \ OfNone(rules, t)}
    BY PickSet DEF WithoutPlain
  <1>3. {rules[k] : k \in DOMAIN rules \ Of(rules, t)} = {x \in ToSet(rules) : x.inb # t}
    BY DEF ToSet, Of
  <1>4. {rules[k] : k \in DOMAIN rules \ OfNone(rules, t)} = {x \in ToSet(rules) : ~IsPlain(x, t)}
    BY DEF ToSet, Of, OfNone, IsPlain
  <1> QED BY <1>1, <1>2, <1>3, <1>4

(* Picked rules are in the order they had.                                 *)
LEMMA PickUsersBefore ==
  ASSUME NEW rules \in Seq(Rules), NEW keep \in SUBSET (DOMAIN rules), UsersBefore(rules)
  PROVE  UsersBefore(Pick(rules, keep))
  <1>1. keep \in SUBSET (1 .. Len(rules))
    OBVIOUS
  <1>2. PICK at : Orders(at, keep) /\ Pick(rules, keep) = [i \in 1 .. Cardinality(keep) |-> rules[at[i]]]
    BY <1>1, PickOrder
  <1>3. ASSUME NEW i \in 1 .. Cardinality(keep), NEW j \in 1 .. Cardinality(keep), i < j
        PROVE  at[i] \in DOMAIN rules /\ at[j] \in DOMAIN rules /\ at[i] < at[j]
    BY <1>2, <1>3 DEF Orders
  <1> QED BY <1>2, <1>3 DEF UsersBefore

(* Where insertPlainRoute puts t's rule.                                   *)
LEMMA InsertPlainFacts ==
  ASSUME NEW rules \in Seq(Rules), NEW t \in Tags, NEW o \in ObTags
  PROVE  /\ InsertPlain(rules, t, o) \in Seq(Rules)
         /\ ToSet(InsertPlain(rules, t, o)) = ToSet(rules) \cup {PlainRule(t, o)}
         /\ UsersBefore(rules) => UsersBefore(InsertPlain(rules, t, o))
  <1> DEFINE n == Len(rules)
             of == OfUsers(rules, t)
             last == IF of = {} THEN 0 ELSE Max(of)
             p == PlainRule(t, o)
             new == InsertPlain(rules, t, o)
  <1>1. n \in Nat /\ DOMAIN rules = 1 .. n /\ of \in SUBSET (1 .. n) /\ of \in SUBSET Nat /\ \A x \in of : x <= n
    BY DEF OfUsers, Of
  <1>2. last \in 0 .. n /\ \A i \in of : i <= last
    <2>1. CASE of = {}
      BY <1>1, <2>1
    <2>2. CASE of # {}
      <3> HIDE DEF of
      <3>1. Max(of) \in of /\ \A x \in of : x <= Max(of)
        BY <1>1, <2>2, MaxFacts
      <3>2. last = Max(of)
        BY <2>2
      <3> HIDE DEF last, n
      <3>3. last \in of /\ last \in 1 .. n
        BY <1>1, <3>1, <3>2
      <3> QED BY <1>1, <3>1, <3>2, <3>3
    <2> QED BY <2>1, <2>2
  <1>3. p \in Rules
    BY DEF PlainRule, Rules
  <1>4. new = InsertAt(rules, last + 1, p)
    BY DEF InsertPlain
  <1> HIDE DEF new, p, last, of, n
  <1>5. /\ new \in Seq(Rules) /\ Len(new) = n + 1 /\ new[last + 1] = p
        /\ \A k \in 1 .. n + 1 : (k < last + 1 => new[k] = rules[k]) /\ (k > last + 1 => new[k] = rules[k - 1])
        /\ ToSet(new) = ToSet(rules) \cup {p}
    <2>1. last + 1 \in 1 .. Len(rules) + 1
      BY <1>1, <1>2 DEF n
    <2>2. PICK at \in 1 .. Len(rules) + 1 : at = last + 1
      BY <2>1
    <2>3. InsertAt(rules, at, p) \in Seq(Rules) /\ Len(InsertAt(rules, at, p)) = Len(rules) + 1
      BY <1>3, InsertFacts
    <2>4. InsertAt(rules, at, p)[at] = p
      BY <1>3, InsertFacts
    <2>5. \A k \in 1 .. Len(rules) + 1 : k < at => InsertAt(rules, at, p)[k] = rules[k]
      BY <1>3, InsertFacts
    <2>6. \A k \in 1 .. Len(rules) + 1 : k > at => InsertAt(rules, at, p)[k] = rules[k - 1]
      BY <1>3, InsertFacts
    <2>7. ToSet(InsertAt(rules, at, p)) = ToSet(rules) \cup {p}
      BY <1>3, InsertFacts
    <2> QED BY <1>4, <2>2, <2>3, <2>4, <2>5, <2>6, <2>7 DEF n
  <1>6. ASSUME UsersBefore(rules), NEW i \in 1 .. n + 1, NEW j \in 1 .. n + 1,
               new[i].inb = new[j].inb, new[j].user # NoUser, i < j
        PROVE  new[i].user # NoUser
    <2> DEFINE from(k) == IF k < last + 1 THEN k ELSE k - 1
    <2>1. i \in Int /\ j \in Int /\ last \in Int
      BY <1>1, <1>2
    <2>2. j # last + 1
      BY <1>5, <1>6 DEF p, PlainRule
    <2>3. from(j) \in 1 .. n /\ new[j] = rules[from(j)]
      BY <1>1, <1>2, <1>5, <2>1, <2>2
    <2>4. CASE i = last + 1
      <3>1. new[i].inb = t
        BY <1>5, <2>4 DEF p, PlainRule
      <3>2. from(j) \in of
        BY <1>1, <1>6, <2>3, <3>1 DEF of, OfUsers, Of
      <3>3. from(j) <= last
        BY <1>2, <3>2
      <3> QED BY <1>6, <2>1, <2>4, <3>3
    <2>5. CASE i # last + 1
      <3>1. from(i) \in 1 .. n /\ new[i] = rules[from(i)]
        BY <1>1, <1>2, <1>5, <2>1, <2>5
      <3>2. from(i) < from(j)
        BY <1>6, <2>1, <2>2, <2>5
      <3> QED BY <1>1, <1>6, <2>3, <3>1, <3>2 DEF UsersBefore
    <2> QED BY <2>4, <2>5
  <1>7. DOMAIN new = 1 .. n + 1
    BY <1>5
  <1> QED BY <1>5, <1>6, <1>7 DEF new, p, UsersBefore

(* outboundOf gives a rule of t's, if there is one.                        *)
LEMMA OutboundOfFacts ==
  ASSUME NEW rules \in Seq(Rules), NEW t
  PROVE  \/ OutboundOf(rules, t) = Direct /\ \A x \in ToSet(rules) : x.inb # t
         \/ \E x \in ToSet(rules) : x.inb = t /\ OutboundOf(rules, t) = x.ob
  <1>1. Of(rules, t) \in SUBSET Nat
    <2>1. DOMAIN rules = 1 .. Len(rules) /\ Len(rules) \in Nat
      OBVIOUS
    <2> QED BY <2>1 DEF Of
  <1>2. CASE Of(rules, t) = {}
    BY <1>2 DEF OutboundOf, Of, ToSet
  <1>3. CASE Of(rules, t) # {}
    <2>1. Min(Of(rules, t)) \in Of(rules, t)
      BY <1>1, <1>3, MinFacts
    <2> QED BY <1>3, <2>1 DEF OutboundOf, Of, ToSet
  <1> QED BY <1>2, <1>3

-----------------------------------------------------------------------------
(* The changes of SingBoxConf.                                             *)

(* An outbound, and what generating the users ids of t adds.               *)
Out(n, port)      == [tun |-> n, port |-> port]
NewObs(t, ids)    == {Psu(t, id) : id \in ids}
NewRules(t, ids)  == {UserRule(t, id, Psu(t, id)) : id \in ids}

(* An outbound made has the tunnel and the port given.                     *)
LEMMA OutFacts == \A n, port : Out(n, port).tun = n /\ Out(n, port).port = port
  BY DEF Out

(* A configuration with another list of inbounds.                          *)
LEMMA InbFacts ==
  ASSUME NEW c \in Confs, NEW inb \in Seq(Tags)
  PROVE  LET d == [c EXCEPT !.inb = inb] IN d \in Confs /\ d.inb = inb /\ d.obs = c.obs /\ d.rules = c.rules
  BY DEF Confs

(* Dropping outbounds leaves the others as they are.                       *)
LEMMA DropFacts ==
  ASSUME NEW c \in Confs, NEW S
  PROVE  /\ DOMAIN Drop(c.obs, S) = DOMAIN c.obs \ S
         /\ \A o \in DOMAIN c.obs \ S : Drop(c.obs, S)[o] = c.obs[o]
         /\ Drop(c.obs, S) \in [DOMAIN c.obs \ S -> Outs] /\ DOMAIN c.obs \ S \in SUBSET ObTags
  BY ConfFacts DEF Drop

(* Binding an entry: t gets a new plain rule and all its outbounds lead to *)
(* tunnel n.                                                               *)
LEMMA AttachFacts ==
  ASSUME NEW c \in Confs, NEW t \in Tags, NEW n \in Tunnels, NEW port \in Ports
  PROVE  LET d == Attach(c, t, n, port) IN
         /\ d \in Confs /\ d.inb = c.inb
         /\ ToSet(d.rules) = {x \in ToSet(c.rules) : ~IsPlain(x, t)} \cup {PlainRule(t, Ps(t))}
         /\ UsersBefore(c.rules) => UsersBefore(d.rules)
         /\ DOMAIN d.obs \subseteq DOMAIN c.obs \cup {Ps(t)}
         /\ \A o \in DOMAIN c.obs \cup {Ps(t)} :
              o \in DOMAIN d.obs \/ (~IsSocks(o) /\ \A x \in ToSet(d.rules) : x.ob # o)
         /\ \A o \in DOMAIN d.obs :
              d.obs[o] = IF IsSocks(o) /\ o[2] = t THEN Out(n, port) ELSE c.obs[o]
  <1> DEFINE moved == UserObs(c.obs, t) \cup {Ps(t)}
             rules == InsertPlain(WithoutPlain(c.rules, t), t, Ps(t))
             obs == [o \in DOMAIN c.obs \cup moved |-> IF o \in moved THEN Out(n, port) ELSE c.obs[o]]
             unused == {o \in DOMAIN obs : o[1] = "wg" /\ \A i \in DOMAIN rules : rules[i].ob # o}
             kept == [o \in DOMAIN obs \ unused |-> obs[o]]
  <1>1. Attach(c, t, n, port) = [c EXCEPT !.rules = rules, !.obs = kept]
    BY DEF Attach, Prune, Drop, Out
  <1>2. Ps(t) \in ObTags
    BY DEF ObTags
  <1>3. /\ rules \in Seq(Rules) /\ (UsersBefore(c.rules) => UsersBefore(rules))
        /\ ToSet(rules) = {x \in ToSet(c.rules) : ~IsPlain(x, t)} \cup {PlainRule(t, Ps(t))}
    <2>1. c.rules \in Seq(Rules)
      BY ConfFacts
    <2>2. /\ WithoutPlain(c.rules, t) \in Seq(Rules)
          /\ ToSet(WithoutPlain(c.rules, t)) = {x \in ToSet(c.rules) : ~IsPlain(x, t)}
      BY <2>1, WithoutFacts
    <2>3. UsersBefore(c.rules) => UsersBefore(WithoutPlain(c.rules, t))
      BY <2>1, PickUsersBefore DEF WithoutPlain
    <2> QED BY <1>2, <2>2, <2>3, InsertPlainFacts
  <1>4. DOMAIN obs = DOMAIN c.obs \cup {Ps(t)} /\ \A o \in DOMAIN obs : o \in ObTags /\ obs[o] \in Outs
    <2>1. UserObs(c.obs, t) \subseteq DOMAIN c.obs /\ DOMAIN c.obs \subseteq ObTags /\ \A o \in DOMAIN c.obs : c.obs[o] \in Outs
      BY ConfFacts DEF UserObs
    <2>2. Out(n, port) \in Outs
      BY DEF Outs, Out
    <2> QED BY <1>2, <2>1, <2>2
  <1>5. \A o \in DOMAIN obs : obs[o] = IF IsSocks(o) /\ o[2] = t THEN Out(n, port) ELSE c.obs[o]
    <2>1. \A o \in DOMAIN c.obs : o \in moved <=> IsSocks(o) /\ o[2] = t
      BY OwnObs
    <2>2. IsSocks(Ps(t)) /\ Ps(t)[2] = t /\ Ps(t) \in moved
      BY TagFacts
    <2> QED BY <1>4, <2>1, <2>2
  <1>6. /\ DOMAIN kept = DOMAIN obs \ unused /\ \A o \in DOMAIN kept : kept[o] = obs[o]
        /\ DOMAIN obs \ unused \in SUBSET ObTags /\ kept \in [DOMAIN obs \ unused -> Outs]
    BY <1>4
  <1>7. \A o \in unused : ~IsSocks(o) /\ \A x \in ToSet(rules) : x.ob # o
    <2>1. \A o \in unused : ~IsSocks(o)
      BY DEF IsSocks
    <2>2. \A o \in unused, x \in ToSet(rules) : x.ob # o
      BY DEF ToSet
    <2> QED BY <2>1, <2>2
  <1> HIDE DEF obs, unused, kept, rules, moved
  <1>8. Attach(c, t, n, port) = [inb |-> c.inb, obs |-> kept, rules |-> rules]
    BY <1>1 DEF Confs
  <1>9. [inb |-> c.inb, obs |-> kept, rules |-> rules] \in Confs
    <2>1. c.inb \in Seq(Tags)
      BY ConfFacts
    <2> QED BY <1>3, <1>6, <2>1, ConfMade
  <1> DEFINE d == Attach(c, t, n, port)
  <1>10. d.inb = c.inb /\ d.obs = kept /\ d.rules = rules /\ d \in Confs
    BY <1>8, <1>9
  <1> HIDE DEF d
  <1>11. DOMAIN d.obs \subseteq DOMAIN c.obs \cup {Ps(t)}
    BY <1>4, <1>6, <1>10
  <1>12. \A o \in DOMAIN c.obs \cup {Ps(t)} :
           o \in DOMAIN d.obs \/ (~IsSocks(o) /\ \A x \in ToSet(d.rules) : x.ob # o)
    BY <1>4, <1>6, <1>7, <1>10
  <1>13. \A o \in DOMAIN d.obs :
           d.obs[o] = IF IsSocks(o) /\ o[2] = t THEN Out(n, port) ELSE c.obs[o]
    BY <1>4, <1>5, <1>6, <1>10
  <1> QED BY <1>3, <1>10, <1>11, <1>12, <1>13 DEF d

(* Unbinding or deleting one: nothing of t's stays.                        *)
LEMMA DetachFacts ==
  ASSUME NEW c \in Confs, NEW t
  PROVE  LET d == Detach(c, t) IN
         /\ d \in Confs /\ d.inb = c.inb
         /\ ToSet(d.rules) = {x \in ToSet(c.rules) : x.inb # t}
         /\ UsersBefore(c.rules) => UsersBefore(d.rules)
         /\ DOMAIN d.obs = {o \in DOMAIN c.obs : ~(IsSocks(o) /\ o[2] = t)}
         /\ \A o \in DOMAIN d.obs : d.obs[o] = c.obs[o]
  <1> DEFINE own == UserObs(c.obs, t) \cup {Ps(t)}
             rules == Without(c.rules, t)
             obs == Drop(c.obs, own)
  <1>1. Detach(c, t) = [c EXCEPT !.rules = rules, !.obs = obs]
    BY DEF Detach
  <1>2. /\ rules \in Seq(Rules) /\ (UsersBefore(c.rules) => UsersBefore(rules))
        /\ ToSet(rules) = {x \in ToSet(c.rules) : x.inb # t}
    BY ConfFacts, WithoutFacts, PickUsersBefore DEF Without
  <1>3. DOMAIN c.obs \ own = {o \in DOMAIN c.obs : ~(IsSocks(o) /\ o[2] = t)}
    <2>1. \A o \in DOMAIN c.obs : o \in own <=> IsSocks(o) /\ o[2] = t
      BY OwnObs
    <2> HIDE DEF own
    <2> QED BY <2>1
  <1> HIDE DEF own
  <1>4. /\ DOMAIN obs = DOMAIN c.obs \ own /\ \A o \in DOMAIN obs : obs[o] = c.obs[o]
        /\ obs \in [DOMAIN c.obs \ own -> Outs] /\ DOMAIN c.obs \ own \in SUBSET ObTags
    <2>1. DOMAIN Drop(c.obs, own) = DOMAIN c.obs \ own
      BY DropFacts
    <2>2. \A o \in DOMAIN c.obs \ own : Drop(c.obs, own)[o] = c.obs[o]
      BY DropFacts
    <2>3. Drop(c.obs, own) \in [DOMAIN c.obs \ own -> Outs] /\ DOMAIN c.obs \ own \in SUBSET ObTags
      BY DropFacts
    <2> QED BY <2>1, <2>2, <2>3
  <1> HIDE DEF obs, rules
  <1>6. Detach(c, t) = [inb |-> c.inb, obs |-> obs, rules |-> rules]
    BY <1>1 DEF Confs
  <1>7. [inb |-> c.inb, obs |-> obs, rules |-> rules] \in Confs
    <2>1. c.inb \in Seq(Tags)
      BY ConfFacts
    <2> QED BY <1>2, <1>4, <2>1, ConfMade
  <1> DEFINE d == Detach(c, t)
  <1>8. d.inb = c.inb /\ d.obs = obs /\ d.rules = rules /\ d \in Confs
    BY <1>6, <1>7
  <1> HIDE DEF d
  <1>9. DOMAIN d.obs = {o \in DOMAIN c.obs : ~(IsSocks(o) /\ o[2] = t)} /\ \A o \in DOMAIN d.obs : d.obs[o] = c.obs[o]
    BY <1>3, <1>4, <1>8
  <1> QED BY <1>2, <1>8, <1>9 DEF d

(* Taking a tunnel away: its outbounds go, with the rules that lead to     *)
(* them, and the inbounds that used them move to the disabled.             *)
LEMMA StripFacts ==
  ASSUME NEW c \in Confs, NEW T, NEW n
  PROVE  LET d == Strip(c, T, n)
             gone == Stripped(c, T, n)
         IN
         /\ d \in Confs /\ Moved(c, T, n) \in Seq(Tags)
         /\ ToSet(d.inb) \cup ToSet(Moved(c, T, n)) = ToSet(c.inb)
         /\ ToSet(d.rules) = {x \in ToSet(c.rules) : x.ob \notin gone}
         /\ UsersBefore(c.rules) => UsersBefore(d.rules)
         /\ DOMAIN d.obs = DOMAIN c.obs \ gone
         /\ \A o \in DOMAIN d.obs : d.obs[o] = c.obs[o]
  <1> DEFINE gone == Stripped(c, T, n)
             stay == {i \in DOMAIN c.inb : OutboundOf(c.rules, c.inb[i]) \notin gone}
             move == {i \in DOMAIN c.inb : OutboundOf(c.rules, c.inb[i]) \in gone}
             keep == {i \in DOMAIN c.rules : c.rules[i].ob \notin gone}
             inb == Pick(c.inb, stay)
             obs == Drop(c.obs, gone)
             rules == Pick(c.rules, keep)
  <1>0. c.inb \in Seq(Tags) /\ c.rules \in Seq(Rules) /\ DOMAIN c.obs \subseteq ObTags
    BY ConfFacts
  <1>1. Strip(c, T, n) = [inb |-> inb, obs |-> obs, rules |-> rules] /\ Moved(c, T, n) = Pick(c.inb, move)
    BY DEF Strip, Moved
  <1>2. inb \in Seq(Tags) /\ ToSet(inb) = {c.inb[i] : i \in stay}
    <2>1. stay \in SUBSET (DOMAIN c.inb)
      OBVIOUS
    <2> HIDE DEF stay
    <2> QED BY <1>0, <2>1, PickSet
  <1>3. Pick(c.inb, move) \in Seq(Tags) /\ ToSet(Pick(c.inb, move)) = {c.inb[i] : i \in move}
    <2>1. move \in SUBSET (DOMAIN c.inb)
      OBVIOUS
    <2> HIDE DEF move
    <2> QED BY <1>0, <2>1, PickSet
  <1>4. {c.inb[i] : i \in stay} \cup {c.inb[i] : i \in move} = ToSet(c.inb)
    BY DEF ToSet
  <1>5. /\ rules \in Seq(Rules) /\ (UsersBefore(c.rules) => UsersBefore(rules))
        /\ ToSet(rules) = {x \in ToSet(c.rules) : x.ob \notin gone}
    <2>1. keep \in SUBSET (DOMAIN c.rules)
      OBVIOUS
    <2>2. {c.rules[i] : i \in keep} = {x \in ToSet(c.rules) : x.ob \notin gone}
      BY DEF ToSet
    <2> HIDE DEF keep
    <2>3. rules \in Seq(Rules) /\ ToSet(rules) = {c.rules[i] : i \in keep}
      BY <1>0, <2>1, PickSet
    <2>4. UsersBefore(c.rules) => UsersBefore(rules)
      BY <1>0, <2>1, PickUsersBefore
    <2> QED BY <2>2, <2>3, <2>4
  <1> HIDE DEF gone
  <1>6. /\ DOMAIN obs = DOMAIN c.obs \ gone /\ \A o \in DOMAIN obs : obs[o] = c.obs[o]
        /\ obs \in [DOMAIN c.obs \ gone -> Outs] /\ DOMAIN c.obs \ gone \in SUBSET ObTags
    <2>1. DOMAIN Drop(c.obs, gone) = DOMAIN c.obs \ gone
      BY DropFacts
    <2>2. \A o \in DOMAIN c.obs \ gone : Drop(c.obs, gone)[o] = c.obs[o]
      BY DropFacts
    <2>3. Drop(c.obs, gone) \in [DOMAIN c.obs \ gone -> Outs] /\ DOMAIN c.obs \ gone \in SUBSET ObTags
      BY DropFacts
    <2> QED BY <2>1, <2>2, <2>3
  <1> HIDE DEF obs, rules, inb, stay, move, keep
  <1>7. [inb |-> inb, obs |-> obs, rules |-> rules] \in Confs
    BY <1>2, <1>5, <1>6, ConfMade
  <1> DEFINE d == Strip(c, T, n)
  <1>8. d.inb = inb /\ d.obs = obs /\ d.rules = rules /\ d \in Confs
    BY <1>1, <1>7
  <1> HIDE DEF d
  <1>9. DOMAIN d.obs = DOMAIN c.obs \ gone /\ \A o \in DOMAIN d.obs : d.obs[o] = c.obs[o]
    BY <1>6, <1>8
  <1>10. Moved(c, T, n) \in Seq(Tags) /\ ToSet(d.inb) \cup ToSet(Moved(c, T, n)) = ToSet(c.inb)
    BY <1>1, <1>2, <1>3, <1>4, <1>8
  <1> QED BY <1>5, <1>8, <1>9, <1>10 DEF d, gone

(* Generating users: each gets an outbound to tunnel n and a rule before   *)
(* all others.                                                             *)
LEMMA AttachUsersFacts ==
  ASSUME NEW c \in Confs, NEW t \in Tags, NEW n \in Tunnels, NEW ids \in SUBSET Users, NEW port \in Ports
  PROVE  LET d == AttachUsers(c, t, n, ids, port) IN
         /\ d \in Confs /\ d.inb = c.inb
         /\ ToSet(d.rules) = NewRules(t, ids) \cup ToSet(c.rules)
         /\ UsersBefore(c.rules) => UsersBefore(d.rules)
         /\ DOMAIN d.obs = DOMAIN c.obs \cup NewObs(t, ids)
         /\ \A o \in DOMAIN d.obs : d.obs[o] = IF o \in NewObs(t, ids) THEN Out(n, port) ELSE c.obs[o]
  <1> DEFINE new == NewObs(t, ids)
             obs == [o \in DOMAIN c.obs \cup new |-> IF o \in new THEN Out(n, port) ELSE c.obs[o]]
             R == NewRules(t, ids)
             a == SetToSeq(R)
             rules == a \o c.rules
  <1>0. c.inb \in Seq(Tags) /\ c.rules \in Seq(Rules) /\ DOMAIN c.obs \subseteq ObTags
    BY ConfFacts
  <1>1. AttachUsers(c, t, n, ids, port) = [inb |-> c.inb, obs |-> obs, rules |-> rules]
    <2>1. c = [inb |-> c.inb, obs |-> c.obs, rules |-> c.rules]
      BY DEF Confs
    <2>2. AttachUsers(c, t, n, ids, port) = [c EXCEPT !.obs = obs, !.rules = rules]
      BY DEF AttachUsers, Out, NewObs, NewRules
    <2> HIDE DEF obs, rules
    <2> QED BY <2>1, <2>2
  <1>2. R \in SUBSET Rules /\ \A x \in R : x.user # NoUser
    BY ConstantsAssumption DEF UserRule, Rules, ObTags, NewRules
  <1>3. IsFiniteSet(R)
    <2>1. IsFiniteSet(ids)
      BY ConstantsAssumption, FS_Subset
    <2> DEFINE f == [id \in ids |-> UserRule(t, id, Psu(t, id))]
    <2>2. f \in Surjection(ids, R)
      BY DEF Surjection, NewRules
    <2> HIDE DEF f, R
    <2> QED BY <2>1, <2>2, FS_Surjection
  <1>4. a \in Seq(R) /\ ToSet(a) = R
    <2> HIDE DEF R
    <2>1. a \in Seq(R) /\ \A x \in R : \E i \in DOMAIN a : a[i] = x
      BY <1>3, AllInSeq
    <2> HIDE DEF a
    <2>2. \A i \in DOMAIN a : a[i] \in R
      BY <2>1
    <2> QED BY <2>1, <2>2 DEF ToSet
  <1> HIDE DEF a, R
  <1>5. a \in Seq(Rules) /\ \A i \in 1 .. Len(a) : a[i] \in R /\ a[i] \in Rules
    BY <1>2, <1>4
  <1> DEFINE k == Len(a)
             m == Len(c.rules)
  <1>6. /\ rules \in Seq(Rules) /\ Len(rules) = k + m /\ k \in Nat /\ m \in Nat
        /\ \A i \in 1 .. k + m : (i <= k => rules[i] = a[i]) /\ (i > k => rules[i] = c.rules[i - k])
    <2>1. /\ rules \in Seq(Rules) /\ Len(rules) = k + m
          /\ \A i \in 1 .. k + m : rules[i] = IF i <= k THEN a[i] ELSE c.rules[i - k]
      BY <1>0, <1>5, ConcatProperties
    <2>2. k \in Nat /\ m \in Nat
      BY <1>0, <1>5
    <2> HIDE DEF rules, k, m
    <2> QED BY <2>1, <2>2
  <1>7. DOMAIN rules = 1 .. k + m /\ DOMAIN a = 1 .. k /\ DOMAIN c.rules = 1 .. m
    BY <1>0, <1>5, <1>6
  <1> HIDE DEF rules, k, m
  <1>8. ToSet(rules) = R \cup ToSet(c.rules)
    <2>1. ASSUME NEW x \in ToSet(rules) PROVE x \in R \cup ToSet(c.rules)
      <3>1. PICK i \in 1 .. k + m : x = rules[i]
        BY <1>7, <2>1 DEF ToSet
      <3>2. i <= k => i \in DOMAIN a /\ x = a[i]
        BY <1>6, <1>7, <3>1
      <3>3. i > k => i - k \in DOMAIN c.rules /\ x = c.rules[i - k]
        BY <1>6, <1>7, <3>1
      <3>4. i <= k \/ i > k
        BY <1>6, <3>1
      <3> QED BY <1>4, <3>2, <3>3, <3>4 DEF ToSet
    <2>2. ASSUME NEW x \in R PROVE x \in ToSet(rules)
      <3>1. PICK i \in 1 .. k : x = a[i]
        BY <1>4, <1>7, <2>2 DEF ToSet
      <3>2. i \in DOMAIN rules /\ rules[i] = x
        BY <1>6, <1>7, <3>1
      <3> QED BY <3>2 DEF ToSet
    <2>3. ASSUME NEW x \in ToSet(c.rules) PROVE x \in ToSet(rules)
      <3>1. PICK i \in 1 .. m : x = c.rules[i]
        BY <1>7, <2>3 DEF ToSet
      <3>2. i + k \in 1 .. k + m /\ i + k > k /\ (i + k) - k = i
        BY <1>6, <3>1
      <3>3. i + k \in DOMAIN rules /\ rules[i + k] = x
        BY <1>6, <1>7, <3>1, <3>2
      <3> QED BY <3>3 DEF ToSet
    <2> QED BY <2>1, <2>2, <2>3
  <1>9. ASSUME UsersBefore(c.rules) PROVE UsersBefore(rules)
    <2>1. SUFFICES ASSUME NEW i \in 1 .. k + m, NEW j \in 1 .. k + m, i < j,
                          rules[i].inb = rules[j].inb, rules[j].user # NoUser
                   PROVE  rules[i].user # NoUser
      BY <1>7 DEF UsersBefore
    <2>2. CASE i <= k
      <3>1. rules[i] \in R
        BY <1>5, <1>6, <2>2 DEF k
      <3> QED BY <1>2, <3>1
    <2>3. CASE i > k
      <3>1. i - k \in 1 .. m /\ j - k \in 1 .. m /\ i - k < j - k /\ j > k
        BY <1>6, <2>1, <2>3
      <3>2. rules[i] = c.rules[i - k] /\ rules[j] = c.rules[j - k]
        BY <1>6, <2>3, <3>1
      <3> QED BY <1>7, <1>9, <2>1, <3>1, <3>2 DEF UsersBefore
    <2> QED BY <1>6, <2>2, <2>3
  <1>10. /\ DOMAIN obs = DOMAIN c.obs \cup new
         /\ obs \in [DOMAIN c.obs \cup new -> Outs] /\ DOMAIN c.obs \cup new \in SUBSET ObTags
    <2>1. Out(n, port) \in Outs /\ \A o \in new : o \in ObTags
      BY DEF Outs, Out, ObTags, NewObs
    <2> QED BY <2>1, ConfFacts
  <1>11. \A o \in DOMAIN obs : obs[o] = IF o \in new THEN Out(n, port) ELSE c.obs[o]
    OBVIOUS
  <1> HIDE DEF obs, new
  <1>13. [inb |-> c.inb, obs |-> obs, rules |-> rules] \in Confs
    BY <1>0, <1>6, <1>10, ConfMade
  <1> DEFINE d == AttachUsers(c, t, n, ids, port)
  <1>14. d.inb = c.inb /\ d.obs = obs /\ d.rules = rules /\ d \in Confs
    BY <1>1, <1>13
  <1> HIDE DEF d
  <1>15. /\ DOMAIN d.obs = DOMAIN c.obs \cup new
         /\ \A o \in DOMAIN d.obs : d.obs[o] = IF o \in new THEN Out(n, port) ELSE c.obs[o]
    BY <1>10, <1>11, <1>14
  <1> QED BY <1>8, <1>9, <1>14, <1>15 DEF R, d, new

(* A batch adds the outbounds of its users.                                *)
LEMMA UsersDomain ==
  ASSUME NEW c \in Confs, NEW t \in Tags, NEW n \in Tunnels, NEW ids \in SUBSET Users, NEW port \in Ports
  PROVE  DOMAIN AttachUsers(c, t, n, ids, port).obs = DOMAIN c.obs \cup NewObs(t, ids)
  BY AttachUsersFacts

-----------------------------------------------------------------------------
(* The changes keep what makes a configuration sound.                      *)

RuleSound(x) ==
  IF x.user # NoUser THEN x.ob = Psu(x.inb, x.user) ELSE x.ob \in {Ps(x.inb)} \cup {Wg(n) : n \in Tunnels}

(* A sound rule leads to an outbound of its own inbound or to an old one.  *)
LEMMA RuleSoundFacts ==
  ASSUME NEW x, RuleSound(x)
  PROVE  /\ IsSocks(x.ob) => x.ob[2] = x.inb
         /\ x.ob # Direct
         /\ \A t : x.ob = Ps(t) => IsPlain(x, t)
  BY TagFacts DEF RuleSound, IsPlain

(* Linked, with its quantifiers where the proofs need them.                *)
LEMMA LinkedFacts ==
  ASSUME NEW c, Linked(c)
  PROVE  /\ \A x \in ToSet(c.rules) : x.ob \in DOMAIN c.obs /\ RuleSound(x)
         /\ \A o \in DOMAIN c.obs : IsSocks(o) => \E x \in ToSet(c.rules) : x.ob = o
         /\ \A x, y \in ToSet(c.rules) : x.inb = y.inb /\ x.user = NoUser /\ y.user = NoUser => x.ob = y.ob
  BY DEF Linked, RuleSound, Socks

(* The same in the other direction.                                        *)
LEMMA LinkedMade ==
  ASSUME NEW d, \A x \in ToSet(d.rules) : x.ob \in DOMAIN d.obs /\ RuleSound(x),
         \A o \in DOMAIN d.obs : IsSocks(o) => \E x \in ToSet(d.rules) : x.ob = o,
         \A x, y \in ToSet(d.rules) : x.inb = y.inb /\ x.user = NoUser /\ y.user = NoUser => x.ob = y.ob
  PROVE  Linked(d)
  BY DEF Linked, RuleSound, Socks

(* Binding an entry keeps rules and outbounds together.                    *)
LEMMA AttachLinked ==
  ASSUME NEW c \in Confs, Linked(c), NEW t \in Tags, NEW n \in Tunnels, NEW port \in Ports
  PROVE  Linked(Attach(c, t, n, port))
  <1> DEFINE d == Attach(c, t, n, port)
             p == PlainRule(t, Ps(t))
  <1>1. /\ ToSet(d.rules) = {x \in ToSet(c.rules) : ~IsPlain(x, t)} \cup {p}
        /\ DOMAIN d.obs \subseteq DOMAIN c.obs \cup {Ps(t)}
        /\ \A o \in DOMAIN c.obs \cup {Ps(t)} :
             o \in DOMAIN d.obs \/ (~IsSocks(o) /\ \A x \in ToSet(d.rules) : x.ob # o)
    BY AttachFacts
  <1>2. RuleSound(p) /\ IsPlain(p, t) /\ p.ob = Ps(t) /\ p.inb = t /\ p.user = NoUser
    BY DEF PlainRule, RuleSound, IsPlain
  <1> HIDE DEF d, p
  <1>3. \A x \in ToSet(d.rules) : x.ob \in DOMAIN c.obs \cup {Ps(t)} /\ RuleSound(x)
    BY <1>1, <1>2, LinkedFacts
  <1>4. \A x \in ToSet(d.rules) : x.ob \in DOMAIN d.obs
    BY <1>1, <1>3
  <1>5. ASSUME NEW o \in DOMAIN d.obs, IsSocks(o) PROVE \E x \in ToSet(d.rules) : x.ob = o
    <2>1. CASE o = Ps(t)
      BY <1>1, <1>2, <2>1
    <2>2. CASE o # Ps(t)
      <3>1. PICK x \in ToSet(c.rules) : x.ob = o /\ RuleSound(x)
        BY <1>1, <1>5, <2>2, LinkedFacts
      <3>2. ~IsPlain(x, t)
        BY <1>5, <2>2, <3>1, TagFacts DEF RuleSound, IsPlain
      <3> QED BY <1>1, <3>1, <3>2
    <2> QED BY <2>1, <2>2
  <1>6. \A x, y \in ToSet(d.rules) : x.inb = y.inb /\ x.user = NoUser /\ y.user = NoUser => x.ob = y.ob
    BY <1>1, <1>2, LinkedFacts DEF IsPlain
  <1> QED BY <1>3, <1>4, <1>5, <1>6, LinkedMade DEF d

(* Unbinding one does.                                                     *)
LEMMA DetachLinked ==
  ASSUME NEW c \in Confs, Linked(c), NEW t
  PROVE  Linked(Detach(c, t))
  <1> DEFINE d == Detach(c, t)
  <1>1. /\ ToSet(d.rules) = {x \in ToSet(c.rules) : x.inb # t}
        /\ DOMAIN d.obs = {o \in DOMAIN c.obs : ~(IsSocks(o) /\ o[2] = t)}
    BY DetachFacts
  <1> HIDE DEF d
  <1>2. \A x \in ToSet(d.rules) : x.ob \in DOMAIN d.obs /\ RuleSound(x)
    BY <1>1, LinkedFacts, RuleSoundFacts
  <1>3. \A o \in DOMAIN d.obs : IsSocks(o) => \E x \in ToSet(d.rules) : x.ob = o
    <2> TAKE o \in DOMAIN d.obs
    <2> HAVE IsSocks(o)
    <2>1. PICK x \in ToSet(c.rules) : x.ob = o
      BY <1>1, LinkedFacts
    <2>2. x.inb = o[2]
      BY <2>1, LinkedFacts, RuleSoundFacts
    <2> QED BY <1>1, <2>1, <2>2
  <1>4. \A x, y \in ToSet(d.rules) : x.inb = y.inb /\ x.user = NoUser /\ y.user = NoUser => x.ob = y.ob
    BY <1>1, LinkedFacts
  <1> QED BY <1>2, <1>3, <1>4, LinkedMade DEF d

(* Taking a tunnel's outbounds away does, with their rules.                *)
LEMMA StripLinked ==
  ASSUME NEW c \in Confs, Linked(c), NEW T, NEW n
  PROVE  Linked(Strip(c, T, n))
  <1> DEFINE d == Strip(c, T, n)
             gone == Stripped(c, T, n)
  <1>1. /\ ToSet(d.rules) = {x \in ToSet(c.rules) : x.ob \notin gone}
        /\ DOMAIN d.obs = DOMAIN c.obs \ gone
    BY StripFacts
  <1> HIDE DEF d, gone
  <1>2. \A x \in ToSet(d.rules) : x.ob \in DOMAIN d.obs /\ RuleSound(x)
    BY <1>1, LinkedFacts
  <1>3. \A o \in DOMAIN d.obs : IsSocks(o) => \E x \in ToSet(d.rules) : x.ob = o
    BY <1>1, LinkedFacts
  <1>4. \A x, y \in ToSet(d.rules) : x.inb = y.inb /\ x.user = NoUser /\ y.user = NoUser => x.ob = y.ob
    BY <1>1, LinkedFacts
  <1> QED BY <1>2, <1>3, <1>4, LinkedMade DEF d

(* Adding users does.                                                      *)
LEMMA UsersLinked ==
  ASSUME NEW c \in Confs, Linked(c), NEW t \in Tags, NEW n \in Tunnels, NEW ids \in SUBSET Users, NEW port \in Ports
  PROVE  Linked(AttachUsers(c, t, n, ids, port))
  <1> DEFINE d == AttachUsers(c, t, n, ids, port)
             new == NewObs(t, ids)
             R == NewRules(t, ids)
  <1>1. ToSet(d.rules) = R \cup ToSet(c.rules) /\ DOMAIN d.obs = DOMAIN c.obs \cup new
    BY AttachUsersFacts
  <1>2. \A x \in R : RuleSound(x) /\ x.ob \in new /\ x.user # NoUser
    BY ConstantsAssumption DEF UserRule, RuleSound, NewRules, NewObs
  <1>3. ASSUME NEW o \in new PROVE \E x \in R : x.ob = o
    <2>1. PICK id \in ids : o = Psu(t, id)
      BY DEF NewObs
    <2>2. UserRule(t, id, o) \in R /\ UserRule(t, id, o).ob = o
      BY <2>1 DEF NewRules, UserRule
    <2> QED BY <2>2
  <1> HIDE DEF d, new, R
  <1>4. \A x \in ToSet(d.rules) : x.ob \in DOMAIN d.obs /\ RuleSound(x)
    BY <1>1, <1>2, LinkedFacts
  <1>5. \A o \in DOMAIN d.obs : IsSocks(o) => \E x \in ToSet(d.rules) : x.ob = o
    BY <1>1, <1>3, LinkedFacts
  <1>6. \A x, y \in ToSet(d.rules) : x.inb = y.inb /\ x.user = NoUser /\ y.user = NoUser => x.ob = y.ob
    BY <1>1, <1>2, LinkedFacts
  <1> QED BY <1>4, <1>5, <1>6, LinkedMade DEF d

(* Follow, of one outbound and the shared one of its inbound.              *)
LEMMA FollowFacts ==
  ASSUME NEW obs, NEW o \in DOMAIN obs, NEW u \in DOMAIN obs, Follow(obs), IsSocks(o), u = Ps(o[2])
  PROVE  obs[o].tun = obs[u].tun
  BY DEF Follow, Socks

(* Wherever the users of an entry go, its shared outbound goes.            *)
LEMMA AttachFollow ==
  ASSUME NEW c \in Confs, Follow(c.obs), NEW t \in Tags, NEW n \in Tunnels, NEW port \in Ports
  PROVE  Follow(Attach(c, t, n, port).obs)
  <1> DEFINE d == Attach(c, t, n, port)
             out == Out(n, port)
  <1>1. /\ DOMAIN d.obs \subseteq DOMAIN c.obs \cup {Ps(t)}
        /\ \A o \in DOMAIN d.obs : d.obs[o] = IF IsSocks(o) /\ o[2] = t THEN out ELSE c.obs[o]
    BY AttachFacts
  <1> HIDE DEF d, out
  <1>2. SUFFICES ASSUME NEW o \in DOMAIN d.obs, IsSocks(o), Ps(o[2]) \in DOMAIN d.obs
                 PROVE  d.obs[o].tun = d.obs[Ps(o[2])].tun
    BY DEF Follow, Socks, d
  <1>3. IsSocks(Ps(o[2])) /\ Ps(o[2])[2] = o[2] /\ IsSocks(Ps(t)) /\ Ps(t)[2] = t
    BY TagFacts
  <1>4. CASE o[2] = t
    BY <1>1, <1>2, <1>3, <1>4
  <1>5. CASE o[2] # t
    <2>1. o \in DOMAIN c.obs /\ Ps(o[2]) \in DOMAIN c.obs
      BY <1>1, <1>2, <1>3, <1>5
    <2>2. d.obs[o] = c.obs[o] /\ d.obs[Ps(o[2])] = c.obs[Ps(o[2])]
      BY <1>1, <1>2, <1>3, <1>5
    <2> QED BY <1>2, <2>1, <2>2, FollowFacts
  <1> QED BY <1>4, <1>5

(* Fewer outbounds follow all the more.                                    *)
LEMMA LessFollow ==
  ASSUME NEW obs, NEW new, Follow(obs), DOMAIN new \subseteq DOMAIN obs, \A o \in DOMAIN new : new[o] = obs[o]
  PROVE  Follow(new)
  BY DEF Follow, Socks

(* New users follow if the batch has the tunnel of the shared outbound.    *)
LEMMA UsersFollowShared ==
  ASSUME NEW c \in Confs, Follow(c.obs), NEW t \in Tags, NEW n \in Tunnels, NEW ids \in SUBSET Users, NEW port \in Ports,
         Ps(t) \in DOMAIN c.obs => c.obs[Ps(t)].tun = n
  PROVE  Follow(AttachUsers(c, t, n, ids, port).obs)
  <1> DEFINE d == AttachUsers(c, t, n, ids, port)
             new == NewObs(t, ids)
             out == Out(n, port)
  <1>1. /\ DOMAIN d.obs = DOMAIN c.obs \cup new
        /\ \A o \in DOMAIN d.obs : d.obs[o] = IF o \in new THEN out ELSE c.obs[o]
    BY AttachUsersFacts
  <1>2. (\A o \in new : o[2] = t) /\ (\A u : Ps(u) \notin new) /\ out.tun = n
    BY TagFacts, OutFacts DEF NewObs
  <1> HIDE DEF d, out, new
  <1>3. SUFFICES ASSUME NEW o \in DOMAIN d.obs, IsSocks(o), Ps(o[2]) \in DOMAIN d.obs
                 PROVE  d.obs[o].tun = d.obs[Ps(o[2])].tun
    BY DEF Follow, Socks, d
  <1>4. Ps(o[2]) \in DOMAIN c.obs /\ d.obs[Ps(o[2])] = c.obs[Ps(o[2])]
    BY <1>1, <1>2, <1>3
  <1>5. CASE o \in new
    BY <1>1, <1>2, <1>4, <1>5
  <1>6. CASE o \notin new
    <2>1. o \in DOMAIN c.obs /\ d.obs[o] = c.obs[o]
      BY <1>1, <1>6
    <2> QED BY <1>3, <1>4, <2>1, FollowFacts
  <1> QED BY <1>5, <1>6

-----------------------------------------------------------------------------
(* The handlers at work: types, and how far the three files are written.   *)

Kinds   == {"disable", "enable", "bind", "unbind", "delete", "add", "clone", "strip", "batch", "sync"}
Writing == {"jobs", "inbounds", "outbounds", "route", "restart"}

Handlers ==
  [pc : {"idle", "apply", "save"} \cup Writing, kind : Kinds \cup {"none"}, tag : Tags \cup {NoTag},
   tun : Tunnels \cup {NoTun}, ids : SUBSET Users, dis : Seq(Tags),
   jobs : SUBSET [tag : Tags, tun : Tunnels], new : Confs \cup {<<>>}]

(* A request has what its kind needs, and a configuration once applied.    *)
HandlerOK(q) ==
  /\ q.pc = "idle" => q = Free
  /\ q.pc # "idle" =>
       /\ q.kind \in Kinds \cap Changes
       /\ q.kind \notin {"strip", "sync"} => q.tag \in Tags
       /\ q.kind \in {"bind", "clone", "strip", "batch"} => q.tun \in Tunnels
       /\ q.jobs # {} => q.kind = "sync"
  /\ q.pc = "apply" => q.new = <<>>
  /\ q.pc \in Writing \cup {"save"} => q.new \in Confs
  /\ q.pc = "jobs" => q.kind = "sync"
  /\ q.pc \in {"inbounds", "outbounds", "route", "restart", "save"} => q.jobs = {}
  /\ q.pc = "save" => q.kind \in Saves

(* The files written so far are those of the new configuration.            *)
WrittenOK(c, q) ==
  /\ q.pc \in {"outbounds", "route", "restart"} => c.inb = q.new.inb
  /\ q.pc \in {"route", "restart"} => c.obs = q.new.obs
  /\ q.pc = "restart" => c.rules = q.new.rules

TypeInv ==
  /\ conf \in Confs /\ disabled \in Seq(Tags)
  /\ tuns \in SUBSET Tunnels /\ live \in SUBSET Tunnels /\ listen \in Ports
  /\ lock \in Requests \cup {NoReq} /\ pending \in BOOLEAN
  /\ req \in [Requests -> Handlers]
  /\ \A r \in Requests : HandlerOK(req[r]) /\ WrittenOK(conf, req[r]) /\ (req[r].pc \in Writing <=> lock = r)

(* Files are written when they should be, and the process is not killed;   *)
(* the operator takes one thing at a time, or does nothing that makes the  *)
(* proxy restart.                                                          *)
Intact == Faults \cap {"write", "kill"} = {}
Turns  == "turns" \in Habits
Uncut  == Intact /\ (Turns \/ Changes \cap {"clone", "strip", "sync"} = {})
Alone  == \A p, r \in Requests : req[p].pc # "idle" /\ req[r].pc # "idle" => p = r
CalmInv == Intact /\ (IF Turns THEN Alone ELSE ~pending)

(* The rules on disk are those of one configuration, or two halves.        *)
OrderInv ==
  /\ UsersBefore(conf.rules)
  /\ \A r \in Requests : req[r].pc \in Writing => UsersBefore(req[r].new.rules)

(* Only between outbounds.json and route.json do the two disagree.         *)
LinkInv ==
  /\ (\A r \in Requests : req[r].pc # "route") => Linked(conf)
  /\ \A r \in Requests : req[r].pc \in Writing => Linked(req[r].new)

(* A batch has the tunnel its entry has.                                   *)
FollowInv ==
  /\ Follow(conf.obs)
  /\ \A r \in Requests :
       /\ req[r].pc \in Writing => Follow(req[r].new.obs)
       /\ req[r].pc = "apply" /\ req[r].kind = "batch" =>
            (Ps(req[r].tag) \in DOMAIN conf.obs => conf.obs[Ps(req[r].tag)].tun = req[r].tun)

(* The copies of the list of disabled inbounds.                            *)
CopyInv ==
  \A r \in Requests :
    /\ req[r].pc = "apply" => req[r].dis = disabled
    /\ req[r].pc \in Writing /\ req[r].kind \notin Saves => req[r].dis = disabled
    /\ req[r].pc = "save" => conf = req[r].new

(* What a handler is about to write has the inbounds there were, but for   *)
(* the one it deletes.                                                     *)
Homes(c, dis) == ToSet(c.inb) \cup ToSet(dis)
KeepInv ==
  \A r \in Requests : req[r].pc \in Writing \cup {"save"} =>
    Homes(conf, disabled) \subseteq
      Homes(req[r].new, req[r].dis) \cup (IF req[r].kind = "delete" THEN {req[r].tag} ELSE {})

OwnInv ==
  /\ (\A r \in Requests : req[r].pc \in {"idle", "apply"}) => Owned(conf, disabled)
  /\ \A r \in Requests :
       /\ req[r].pc = "apply" => \A j \in req[r].jobs : j.tag \in Homes(conf, disabled)
       /\ req[r].pc \in Writing \cup {"save"} => Owned(req[r].new, req[r].dis)
       /\ req[r].pc = "jobs" => \A j \in req[r].jobs : j.tag \in Homes(req[r].new, req[r].dis)

TunsOf(obs) == {obs[o].tun : o \in DOMAIN obs}
Fresh(obs, port, jobs) == \A o \in Socks(obs) : obs[o].port = port \/ \E j \in jobs : j.tag = o[2]

(* What holds of a handler at work: which tunnels config.yaml has meanwhile *)
(* and that no outbound is left that leads elsewhere.                      *)
Underway(q, c, pend, tn, lv, port) ==
  /\ ~pend
  /\ q.kind = "strip" => lv = tn \ {q.tun}
  /\ q.kind = "clone" => lv = tn \cup {q.tun}
  /\ q.kind \notin {"clone", "strip"} => lv = tn
  /\ \A j \in q.jobs : j.tun \in lv
  /\ q.pc = "apply" =>
       /\ q.kind \in {"add", "clone", "batch"} => q.tun \in lv \cup {NoTun}
       /\ TunsOf(c.obs) \subseteq tn /\ Fresh(c.obs, port, q.jobs)
  /\ q.pc \in Writing => TunsOf(q.new.obs) \subseteq lv /\ Fresh(q.new.obs, port, q.jobs)
  /\ q.pc = "save" => TunsOf(c.obs) \subseteq lv /\ Fresh(c.obs, port, {})

FreshInv ==
  /\ Resting => /\ ~pending => live = tuns
                /\ TunsOf(conf.obs) \subseteq live /\ Fresh(conf.obs, listen, {})
  /\ \A r \in Requests : req[r].pc # "idle" => Underway(req[r], conf, pending, tuns, live, listen)

-----------------------------------------------------------------------------
(* What a step does to the handlers.                                       *)

Becomes(r, q) == req' = [req EXCEPT ![r] = q]
Others(r)   == \A p \in Requests \ {r} : req'[p] = req[p]

(* A request nobody makes.                                                 *)
LEMMA FreeFacts ==
  /\ Free \in Handlers /\ HandlerOK(Free) /\ Free.pc = "idle" /\ Free.kind = "none" /\ Free.new = <<>> /\ Free.dis = <<>>
  /\ Free.jobs = {} /\ Free.tag = NoTag /\ Free.tun = NoTun /\ Free.ids = {}
  <1>1. Free \in Handlers
    <2>1. <<>> \in Seq(Tags)
      OBVIOUS
    <2> QED BY <2>1 DEF Free, Handlers
  <1> QED BY <1>1 DEF Free, HandlerOK, Writing

(* The type invariant, of one request.                                     *)
LEMMA ReqFacts ==
  ASSUME TypeInv, NEW r \in Requests
  PROVE  req[r] \in Handlers /\ HandlerOK(req[r]) /\ WrittenOK(conf, req[r]) /\ (req[r].pc \in Writing <=> lock = r)
  BY DEF TypeInv

(* A handler changed as a whole.                                           *)
LEMMA OneChanges ==
  ASSUME TypeInv, NEW r \in Requests, NEW q \in Handlers, Becomes(r, q)
  PROVE  req' \in [Requests -> Handlers] /\ req'[r] = q /\ Others(r)
  BY DEF TypeInv, Others, Becomes

(* A step of one request keeps the types if what it changes is typed.      *)
LEMMA TypeKept ==
  ASSUME TypeInv, NEW r \in Requests, NEW q \in Handlers, Becomes(r, q),
         conf' \in Confs, disabled' \in Seq(Tags), tuns' = tuns, live' \in SUBSET Tunnels, listen' \in Ports,
         pending' \in BOOLEAN, conf' = conf \/ lock = r,
         HandlerOK(q), WrittenOK(conf', q),
         \/ lock' = lock
         \/ lock = NoReq /\ lock' = r
         \/ lock = r /\ lock' = NoReq,
         q.pc \in Writing <=> lock' = r
  PROVE  TypeInv'
  <1>1. req' \in [Requests -> Handlers] /\ req'[r] = q /\ Others(r)
    BY OneChanges
  <1>2. lock' \in Requests \cup {NoReq} /\ NoReq \notin Requests
    BY ConstantsAssumption DEF TypeInv
  <1>3. tuns' \in SUBSET Tunnels
    BY DEF TypeInv
  <1>4. ASSUME NEW p \in Requests
        PROVE  HandlerOK(req'[p]) /\ WrittenOK(conf', req'[p]) /\ (req'[p].pc \in Writing <=> lock' = p)
    <2>1. CASE p = r
      BY <1>1, <2>1
    <2>2. CASE p # r
      <3>1. req'[p] = req[p] /\ HandlerOK(req[p]) /\ WrittenOK(conf, req[p]) /\ (req[p].pc \in Writing <=> lock = p)
        BY <1>1, <2>2, ReqFacts DEF Others
      <3>2. conf' = conf \/ req[p].pc \notin Writing
        BY <2>2, <3>1
      <3>3. WrittenOK(conf', req'[p])
        BY <3>1, <3>2 DEF WrittenOK, Writing
      <3>4. lock' = p <=> lock = p
        BY <1>2, <2>2
      <3> QED BY <3>1, <3>3, <3>4
    <2> QED BY <2>1, <2>2
  <1>5. \A p \in Requests : HandlerOK(req[p])' /\ WrittenOK(conf, req[p])' /\ (req[p].pc \in Writing <=> lock = p)'
    BY <1>4
  <1> QED BY <1>1, <1>2, <1>3, <1>5 DEF TypeInv

-----------------------------------------------------------------------------
(* Requests made.                                                          *)

Asks(r) ==
  \/ \E t \in Tags :
       \/ \E kind \in Changes : PutInbound(r, kind, t)
       \/ \E n \in Tunnels : Rebind(r, t, n) \/ AddTunnel(r, t, n)
       \/ \E n \in Tunnels \cup {NoTun} : AddInbound(r, t, n)
       \/ \E ids \in SUBSET Users \ {{}} : BatchUsers(r, t, ids)
  \/ \E n \in Tunnels : DelTunnel(r, n)
  \/ \E p \in Ports : PutSocks(r, p)

(* The kinds of step there are.                                            *)
LEMMA NextCases ==
  ASSUME Next
  PROVE  \/ \E r \in Requests :
              \/ Asks(r) \/ Apply(r) \/ SyncEntry(r) \/ Refuse(r) \/ WriteSB(r)
              \/ RestartSingBox(r) \/ RestartFails(r) \/ SaveDisabled(r) \/ WriteFails(r)
         \/ RestartProxy \/ Kill
  BY DEF Next, Asks

(* The handler after Ask.                                                  *)
Asker(kind, t, n, ids, jobs) ==
  [Free EXCEPT !.pc = "apply", !.kind = kind, !.tag = t, !.tun = n, !.ids = ids, !.jobs = jobs, !.dis = disabled]

(* A request just made, field by field.                                    *)
LEMMA AskerFacts ==
  ASSUME NEW kind, NEW t, NEW n, NEW ids, NEW jobs
  PROVE  LET q == Asker(kind, t, n, ids, jobs) IN
         /\ q.pc = "apply" /\ q.kind = kind /\ q.tag = t /\ q.tun = n /\ q.ids = ids /\ q.jobs = jobs
         /\ q.dis = disabled /\ q.new = <<>>
  BY DEF Asker, Free

(* Asking makes a typed request.                                           *)
LEMMA AskFacts ==
  ASSUME TypeInv, NEW r \in Requests, NEW kind \in Kinds \cap Changes, NEW t \in Tags \cup {NoTag}, NEW n \in Tunnels \cup {NoTun},
         NEW ids \in SUBSET Users, NEW jobs \in SUBSET [tag : Tags, tun : Tunnels], Ask(r, kind, t, n, ids, jobs),
         kind \notin {"strip", "sync"} => t \in Tags,
         kind \in {"bind", "clone", "strip", "batch"} => n \in Tunnels,
         jobs # {} => kind = "sync"
  PROVE  LET q == Asker(kind, t, n, ids, jobs) IN
         /\ q \in Handlers /\ HandlerOK(q) /\ Becomes(r, q) /\ req'[r] = q /\ Others(r)
  <1> DEFINE q == Asker(kind, t, n, ids, jobs)
  <1>2. Becomes(r, q)
    BY DEF Ask, Becomes, Asker
  <1>3. q \in Handlers
    <2>1. Free \in Handlers /\ disabled \in Seq(Tags) /\ "apply" \in {"idle", "apply", "save"} \cup Writing
      BY FreeFacts DEF TypeInv
    <2> QED BY <2>1 DEF Asker, Handlers
  <1>4. HandlerOK(q)
    BY AskerFacts DEF HandlerOK, Writing
  <1> HIDE DEF q
  <1> QED BY <1>2, <1>3, <1>4, OneChanges DEF q

(* The jobs of a sync are those of inbounds and tunnels there are.         *)
LEMMA JobsFacts ==
  ASSUME NEW c \in Confs, NEW dis \in Seq(Tags), NEW T \in SUBSET Tunnels, NEW port
  PROVE  /\ Jobs(c, dis, T, port) \in SUBSET [tag : Tags, tun : Tunnels]
         /\ \A j \in Jobs(c, dis, T, port) : j.tag \in Homes(c, dis) /\ j.tun \in T
  <1>1. ToSet(c.inb) \cup ToSet(dis) \subseteq Tags
    BY ConfFacts DEF ToSet
  <1> QED BY <1>1 DEF Jobs, Homes

(* A tunnel outboundTunnel finds is that of the outbound.                  *)
LEMMA OutboundTunnelFacts ==
  ASSUME NEW obs, NEW T, NEW o, OutboundTunnel(obs, T, o) # NoTun
  PROVE  o \in DOMAIN obs /\ OutboundTunnel(obs, T, o) = obs[o].tun /\ (IsSocks(o) => obs[o].tun \in T)
  BY DEF OutboundTunnel

(* Every request starts a handler on its way, or none is needed and the    *)
(* proxy is to restart.                                                    *)
Started(r, q) ==
  /\ q \in Handlers /\ HandlerOK(q) /\ q.pc = "apply" /\ q.new = <<>> /\ q.dis = disabled
  /\ Becomes(r, q) /\ pending' = pending
Postponed == req' = req /\ pending' = TRUE /\ Changes \cap {"clone", "strip", "sync"} # {}

(* A handler that begins: when it may, and what it asks.                   *)
LEMMA AsksFacts ==
  ASSUME TypeInv, NEW r \in Requests, Asks(r)
  PROVE  /\ req[r].pc = "idle" /\ (Turns => Resting) /\ ("restarts" \in Habits => ~pending)
         /\ conf' = conf /\ disabled' = disabled /\ tuns' = tuns /\ lock' = lock
         /\ live' \in SUBSET Tunnels /\ listen' \in Ports
         /\ Postponed \/ \E q : Started(r, q)
  <1> DEFINE Goal == /\ req[r].pc = "idle" /\ (Turns => Resting) /\ ("restarts" \in Habits => ~pending)
                     /\ conf' = conf /\ disabled' = disabled /\ tuns' = tuns /\ lock' = lock
                     /\ live' \in SUBSET Tunnels /\ listen' \in Ports
                     /\ Postponed \/ \E q : Started(r, q)
  <1>0. /\ live \in SUBSET Tunnels /\ tuns \in SUBSET Tunnels /\ listen \in Ports
        /\ conf \in Confs /\ disabled \in Seq(Tags) /\ {} \in SUBSET Users
    BY DEF TypeInv
  <1>1. ASSUME NEW kind, NEW q \in Handlers, HandlerOK(q), q.pc = "apply", q.new = <<>>, q.dis = disabled,
               Becomes(r, q), MayAsk(r, kind), live' \in SUBSET Tunnels, listen' \in Ports,
               UNCHANGED <<conf, disabled, tuns, lock, pending>>
        PROVE  Goal
    BY <1>1 DEF Started, MayAsk, Turns, Resting
  <1>2. ASSUME NEW t \in Tags, NEW kind \in Changes, PutInbound(r, kind, t) PROVE Goal
    <2> DEFINE q == Asker(kind, t, NoTun, {}, {})
    <2>1. kind \in Kinds \cap Changes /\ kind \notin {"strip", "sync", "bind", "clone", "batch"}
      BY <1>2 DEF PutInbound, Kinds
    <2>2. q \in Handlers /\ HandlerOK(q) /\ Becomes(r, q)
      BY <1>0, <1>2, <2>1, AskFacts DEF PutInbound
    <2>3. q.pc = "apply" /\ q.new = <<>> /\ q.dis = disabled
      BY AskerFacts
    <2> HIDE DEF q, Goal
    <2> QED BY <1>0, <1>1, <1>2, <2>2, <2>3 DEF PutInbound
  <1>3. ASSUME NEW t \in Tags, NEW n \in Tunnels, Rebind(r, t, n) PROVE Goal
    <2> DEFINE q == Asker("bind", t, n, {}, {})
    <2>1. "bind" \in Kinds \cap Changes
      BY <1>3 DEF Rebind, Kinds, MayAsk
    <2>2. q \in Handlers /\ HandlerOK(q) /\ Becomes(r, q)
      BY <1>0, <1>3, <2>1, AskFacts DEF Rebind
    <2>3. q.pc = "apply" /\ q.new = <<>> /\ q.dis = disabled
      BY AskerFacts
    <2> HIDE DEF q, Goal
    <2> QED BY <1>0, <1>1, <1>3, <2>2, <2>3 DEF Rebind
  <1>4. ASSUME NEW t \in Tags, NEW n \in Tunnels, AddTunnel(r, t, n) PROVE Goal
    <2>1. "clone" \in Kinds \cap Changes
      BY <1>4 DEF AddTunnel, Kinds, MayAsk
    <2>2. live' \in SUBSET Tunnels /\ listen' \in Ports
      BY <1>0, <1>4 DEF AddTunnel
    <2>3. CASE conf.inb = <<>>
      BY <1>4, <2>1, <2>2, <2>3 DEF AddTunnel, MayAsk, Postponed, Turns, Resting
    <2>4. CASE conf.inb # <<>>
      <3> DEFINE q == Asker("clone", t, n, {}, {})
      <3>1. Ask(r, "clone", t, n, {}, {})
        BY <1>4, <2>4 DEF AddTunnel
      <3>2. q \in Handlers /\ HandlerOK(q) /\ Becomes(r, q)
        BY <1>0, <2>1, <3>1, AskFacts
      <3>3. q.pc = "apply" /\ q.new = <<>> /\ q.dis = disabled
        BY AskerFacts
      <3> HIDE DEF q, Goal
      <3> QED BY <1>1, <1>4, <2>2, <2>4, <3>2, <3>3 DEF AddTunnel
    <2> QED BY <2>3, <2>4
  <1>5. ASSUME NEW t \in Tags, NEW n \in Tunnels \cup {NoTun}, AddInbound(r, t, n) PROVE Goal
    <2> DEFINE q == Asker("add", t, n, {}, {})
    <2>1. "add" \in Kinds \cap Changes
      BY <1>5 DEF AddInbound, Kinds, MayAsk
    <2>2. q \in Handlers /\ HandlerOK(q) /\ Becomes(r, q)
      BY <1>0, <1>5, <2>1, AskFacts DEF AddInbound
    <2>3. q.pc = "apply" /\ q.new = <<>> /\ q.dis = disabled
      BY AskerFacts
    <2> HIDE DEF q, Goal
    <2> QED BY <1>0, <1>1, <1>5, <2>2, <2>3 DEF AddInbound
  <1>6. ASSUME NEW t \in Tags, NEW ids \in SUBSET Users \ {{}}, BatchUsers(r, t, ids) PROVE Goal
    <2> DEFINE n == OutboundTunnel(conf.obs, tuns, OutboundOf(conf.rules, t))
               q == Asker("batch", t, n, ids, {})
    <2>1. "batch" \in Kinds \cap Changes /\ n # NoTun /\ Ask(r, "batch", t, n, ids, {})
      BY <1>6 DEF BatchUsers, Kinds, MayAsk
    <2>2. n \in Tunnels
      <3>1. OutboundOf(conf.rules, t) \in DOMAIN conf.obs /\ n = conf.obs[OutboundOf(conf.rules, t)].tun
        BY <2>1, OutboundTunnelFacts
      <3> HIDE DEF n
      <3> QED BY <1>0, <3>1, ConfFacts DEF Outs
    <2> HIDE DEF n
    <2>3. q \in Handlers /\ HandlerOK(q) /\ Becomes(r, q)
      BY <2>1, <2>2, AskFacts
    <2>4. q.pc = "apply" /\ q.new = <<>> /\ q.dis = disabled
      BY AskerFacts
    <2> HIDE DEF q, Goal
    <2> QED BY <1>0, <1>1, <1>6, <2>3, <2>4 DEF BatchUsers
  <1>7. ASSUME NEW n \in Tunnels, DelTunnel(r, n) PROVE Goal
    <2> DEFINE q == Asker("strip", NoTag, n, {}, {})
    <2>1. "strip" \in Kinds \cap Changes
      BY <1>7 DEF DelTunnel, Kinds, MayAsk
    <2>2. q \in Handlers /\ HandlerOK(q) /\ Becomes(r, q)
      BY <1>0, <1>7, <2>1, AskFacts DEF DelTunnel
    <2>3. q.pc = "apply" /\ q.new = <<>> /\ q.dis = disabled
      BY AskerFacts
    <2>4. live' \in SUBSET Tunnels
      BY <1>0, <1>7 DEF DelTunnel
    <2> HIDE DEF q, Goal
    <2> QED BY <1>0, <1>1, <1>7, <2>2, <2>3, <2>4 DEF DelTunnel
  <1>8. ASSUME NEW p \in Ports, PutSocks(r, p) PROVE Goal
    <2> DEFINE jobs == Jobs(conf, disabled, tuns, p)
    <2>1. "sync" \in Kinds \cap Changes /\ listen' \in Ports /\ live' \in SUBSET Tunnels
      BY <1>0, <1>8 DEF PutSocks, Kinds, MayAsk
    <2>2. CASE jobs = {}
      BY <1>8, <2>1, <2>2 DEF PutSocks, MayAsk, Postponed, Turns, Resting
    <2>3. CASE jobs # {}
      <3> DEFINE q == Asker("sync", NoTag, NoTun, {}, jobs)
      <3>1. Ask(r, "sync", NoTag, NoTun, {}, jobs)
        BY <1>8, <2>3 DEF PutSocks
      <3>2. jobs \in SUBSET [tag : Tags, tun : Tunnels]
        BY <1>0, JobsFacts
      <3>a. UNCHANGED <<conf, disabled, tuns, lock, pending>> /\ MayAsk(r, "sync")
        BY <1>8, <2>3 DEF PutSocks
      <3> HIDE DEF jobs
      <3>3. q \in Handlers /\ HandlerOK(q) /\ Becomes(r, q)
        BY <1>0, <2>1, <3>1, <3>2, AskFacts
      <3>4. q.pc = "apply" /\ q.new = <<>> /\ q.dis = disabled
        BY AskerFacts
      <3> HIDE DEF q, Goal
      <3> QED BY <1>1, <2>1, <3>3, <3>4, <3>a
    <2> QED BY <2>2, <2>3
  <1> HIDE DEF Goal
  <1>9. Goal
    BY <1>2, <1>3, <1>4, <1>5, <1>6, <1>7, <1>8 DEF Asks
  <1> QED BY <1>9 DEF Goal

-----------------------------------------------------------------------------
(* What a handler makes of the configuration it loads.                     *)

(* The members of a list with one more.                                    *)
LEMMA SetOfAppend ==
  ASSUME NEW s \in Seq(Tags), NEW t \in Tags
  PROVE  Append(s, t) \in Seq(Tags) /\ ToSet(Append(s, t)) = ToSet(s) \cup {t}
  <1>1. /\ Append(s, t) \in Seq(Tags) /\ Len(Append(s, t)) = Len(s) + 1
        /\ \A i \in 1 .. Len(s) : Append(s, t)[i] = s[i]
        /\ Append(s, t)[Len(s) + 1] = t
    BY AppendProperties
  <1> DEFINE a == Append(s, t)
             n == Len(s)
  <1>2. n \in Nat /\ DOMAIN s = 1 .. n /\ DOMAIN a = 1 .. n + 1
    BY <1>1
  <1> HIDE DEF a
  <1>3. /\ a \in Seq(Tags) /\ a[n + 1] = t /\ \A i \in 1 .. n : a[i] = s[i]
    BY <1>1 DEF a
  <1> HIDE DEF n
  <1>4. ASSUME NEW x \in ToSet(a) PROVE x \in ToSet(s) \cup {t}
    <2>1. PICK i \in 1 .. n + 1 : x = a[i]
      BY <1>2, <1>4 DEF ToSet
    <2>2. i = n + 1 \/ i \in 1 .. n
      BY <1>2, <2>1
    <2> QED BY <1>2, <1>3, <2>1, <2>2 DEF ToSet
  <1>5. ASSUME NEW x \in ToSet(s) \cup {t} PROVE x \in ToSet(a)
    <2>1. CASE x = t
      <3>1. n + 1 \in DOMAIN a
        BY <1>2
      <3> QED BY <1>3, <2>1, <3>1 DEF ToSet
    <2>2. CASE x \in ToSet(s)
      <3>1. PICK i \in 1 .. n : x = s[i]
        BY <1>2, <2>2 DEF ToSet
      <3>2. i \in DOMAIN a /\ a[i] = x
        BY <1>2, <1>3, <3>1
      <3> QED BY <3>2 DEF ToSet
    <2> QED BY <1>5, <2>1, <2>2
  <1> QED BY <1>3, <1>4, <1>5 DEF a

(* The members of two lists joined.                                        *)
LEMMA SetOfConcat ==
  ASSUME NEW s \in Seq(Tags), NEW u \in Seq(Tags)
  PROVE  s \o u \in Seq(Tags) /\ ToSet(s \o u) = ToSet(s) \cup ToSet(u)
  <1> DEFINE a == s \o u
             n == Len(s)
             m == Len(u)
  <1>1. /\ a \in Seq(Tags) /\ Len(a) = n + m
        /\ \A i \in 1 .. n + m : (i <= n => a[i] = s[i]) /\ (i > n => a[i] = u[i - n])
    <2>1. /\ a \in Seq(Tags) /\ Len(a) = n + m
          /\ \A i \in 1 .. n + m : a[i] = IF i <= n THEN s[i] ELSE u[i - n]
      BY ConcatProperties
    <2>2. n \in Nat /\ m \in Nat
      OBVIOUS
    <2> HIDE DEF a, n, m
    <2> QED BY <2>1, <2>2
  <1>2. n \in Nat /\ m \in Nat /\ DOMAIN s = 1 .. n /\ DOMAIN u = 1 .. m /\ DOMAIN a = 1 .. n + m
    BY <1>1
  <1> HIDE DEF a, n, m
  <1>3. ASSUME NEW x \in ToSet(a) PROVE x \in ToSet(s) \cup ToSet(u)
    <2>1. PICK i \in 1 .. n + m : x = a[i]
      BY <1>2, <1>3 DEF ToSet
    <2>2. i <= n => i \in DOMAIN s /\ x = s[i]
      BY <1>1, <1>2, <2>1
    <2>3. i > n => i - n \in DOMAIN u /\ x = u[i - n]
      BY <1>1, <1>2, <2>1
    <2>4. i <= n \/ i > n
      BY <1>2
    <2> QED BY <2>2, <2>3, <2>4 DEF ToSet
  <1>4. ASSUME NEW x \in ToSet(s) PROVE x \in ToSet(a)
    <2>1. PICK i \in 1 .. n : x = s[i]
      BY <1>2, <1>4 DEF ToSet
    <2>2. i \in DOMAIN a /\ a[i] = x
      BY <1>1, <1>2, <2>1
    <2> QED BY <2>2 DEF ToSet
  <1>5. ASSUME NEW x \in ToSet(u) PROVE x \in ToSet(a)
    <2>1. PICK i \in 1 .. m : x = u[i]
      BY <1>2, <1>5 DEF ToSet
    <2>2. i + n \in 1 .. n + m /\ i + n > n /\ (i + n) - n = i
      BY <1>2, <2>1
    <2>3. i + n \in DOMAIN a /\ a[i + n] = x
      BY <1>1, <1>2, <2>1, <2>2
    <2> QED BY <2>3 DEF ToSet
  <1> QED BY <1>1, <1>3, <1>4, <1>5 DEF a

(* The configuration with the list of inbounds as the handler wants it.    *)
Base(q) ==
  CASE q.kind = "disable" \/ (q.kind = "delete" /\ q.tag \in ToSet(conf.inb)) -> [conf EXCEPT !.inb = Taken(@, q.tag)]
    [] q.kind \in {"enable", "add", "clone"} -> [conf EXCEPT !.inb = Append(@, q.tag)]
    [] OTHER -> conf

Same(c)      == c \in Confs /\ c.obs = conf.obs /\ c.rules = conf.rules
Lost(q)      == IF q.kind = "delete" THEN {q.tag} ELSE {}
Target(q, c) == q.tag \in Tags /\ q.tun \in Tunnels /\ q.tag \in ToSet(c.inb)

(* The five things that happen to rules and outbounds; q is accepted.      *)
Edited(q, c, d) ==
  \/ q.kind \in {"disable", "enable", "add", "sync"} /\ d = c
  \/ q.kind \in {"bind", "add", "clone"} /\ Target(q, c) /\ d = Attach(c, q.tag, q.tun, listen)
  \/ q.kind \in {"unbind", "delete"} /\ d = Detach(c, q.tag)
  \/ q.kind = "strip" /\ c = conf /\ d = Strip(c, tuns, q.tun)
  \/ q.kind = "batch" /\ c = conf /\ Target(q, c) /\ d = AttachUsers(c, q.tag, q.tun, q.ids, listen)

(* Each change is one of the operators of SingBoxConf, applied to the      *)
(* configuration with its list of inbounds edited.                         *)
LEMMA ChangedCases ==
  ASSUME TypeInv, NEW q \in Handlers, HandlerOK(q), q.pc = "apply", Accepts(q)
  PROVE  /\ Same(Base(q)) /\ Edited(q, Base(q), Changed(q))
         /\ ChangedDisabled(q) \in Seq(Tags)
         /\ q.kind # "strip" => Homes(conf, q.dis) \subseteq Homes(Base(q), ChangedDisabled(q)) \cup Lost(q)
         /\ q.kind = "strip" => ChangedDisabled(q) = q.dis \o Moved(conf, tuns, q.tun)
         /\ q.kind \notin Saves => ChangedDisabled(q) = q.dis
         /\ q.kind = "bind" => q.tun \in tuns
  <1>0. conf \in Confs /\ conf.inb \in Seq(Tags) /\ q.dis \in Seq(Tags)
    BY ConfFacts DEF TypeInv, Handlers
  <1>1. q.kind \in Kinds /\ (q.kind \notin {"strip", "sync"} => q.tag \in Tags)
        /\ (q.kind \in {"bind", "clone", "strip", "batch"} => q.tun \in Tunnels) /\ q.tun \in Tunnels \cup {NoTun}
    BY DEF HandlerOK, Handlers
  <1> DEFINE less == [conf EXCEPT !.inb = Taken(@, q.tag)]
             added == [conf EXCEPT !.inb = Append(@, q.tag)]
  <1>2. Same(conf)
    BY <1>0 DEF Same
  <1>3. ASSUME q.tag \in ToSet(conf.inb)
        PROVE  Same(less) /\ ToSet(less.inb) \subseteq ToSet(conf.inb) /\ ToSet(conf.inb) \subseteq ToSet(less.inb) \cup {q.tag}
    <2>1. /\ Taken(conf.inb, q.tag) \in Seq(Tags)
          /\ ToSet(Taken(conf.inb, q.tag)) \subseteq ToSet(conf.inb)
          /\ ToSet(conf.inb) \subseteq ToSet(Taken(conf.inb, q.tag)) \cup {q.tag}
      BY <1>0, <1>3, TakenFacts
    <2> QED BY <1>0, <2>1, InbFacts DEF Same
  <1>4. ASSUME q.tag \in Tags
        PROVE  Same(added) /\ ToSet(added.inb) = ToSet(conf.inb) \cup {q.tag}
    <2>1. Append(conf.inb, q.tag) \in Seq(Tags) /\ ToSet(Append(conf.inb, q.tag)) = ToSet(conf.inb) \cup {q.tag}
      BY <1>0, <1>4, SetOfAppend
    <2> QED BY <1>0, <2>1, InbFacts DEF Same
  <1>5. ASSUME q.tag \in ToSet(q.dis)
        PROVE  Taken(q.dis, q.tag) \in Seq(Tags) /\ ToSet(q.dis) \subseteq ToSet(Taken(q.dis, q.tag)) \cup {q.tag}
    BY <1>0, <1>5, TakenFacts
  <1>6. ASSUME q.tag \in Tags
        PROVE  Append(q.dis, q.tag) \in Seq(Tags) /\ ToSet(Append(q.dis, q.tag)) = ToSet(q.dis) \cup {q.tag}
    BY <1>0, <1>6, SetOfAppend
  <1> HIDE DEF less, added
  <1>7. CASE q.kind = "disable"
    <2>1. q.tag \in ToSet(conf.inb)
      BY <1>7 DEF Accepts
    <2>2. Base(q) = less /\ Changed(q) = less /\ ChangedDisabled(q) = Append(q.dis, q.tag)
      BY <1>7 DEF Base, Changed, ChangedDisabled, less
    <2> QED BY <1>1, <1>3, <1>6, <1>7, <2>1, <2>2 DEF Edited, Homes, Saves, Lost
  <1>8. CASE q.kind = "enable"
    <2>1. q.tag \in ToSet(q.dis)
      BY <1>8 DEF Accepts
    <2>2. Base(q) = added /\ Changed(q) = added /\ ChangedDisabled(q) = Taken(q.dis, q.tag)
      BY <1>8 DEF Base, Changed, ChangedDisabled, added
    <2> QED BY <1>1, <1>4, <1>5, <1>8, <2>1, <2>2 DEF Edited, Homes, Saves, Lost
  <1>9. CASE q.kind = "bind"
    <2>1. q.tag \in ToSet(conf.inb) /\ q.tun \in tuns
      BY <1>9 DEF Accepts
    <2>2. Base(q) = conf /\ Changed(q) = Attach(conf, q.tag, q.tun, listen) /\ ChangedDisabled(q) = q.dis
      BY <1>9 DEF Base, Changed, ChangedDisabled
    <2> QED BY <1>0, <1>1, <1>2, <1>9, <2>1, <2>2 DEF Edited, Homes, Saves, Lost, Target
  <1>10. CASE q.kind = "unbind"
    <2>2. Base(q) = conf /\ Changed(q) = Detach(conf, q.tag) /\ ChangedDisabled(q) = q.dis
      BY <1>10 DEF Base, Changed, ChangedDisabled
    <2> QED BY <1>0, <1>1, <1>2, <1>10, <2>2 DEF Edited, Homes, Saves, Lost
  <1>11. CASE q.kind = "delete" /\ q.tag \in ToSet(conf.inb)
    <2>2. Base(q) = less /\ Changed(q) = Detach(less, q.tag) /\ ChangedDisabled(q) = q.dis
      BY <1>11 DEF Base, Changed, ChangedDisabled, less
    <2> QED BY <1>0, <1>3, <1>11, <2>2 DEF Edited, Homes, Saves, Lost
  <1>12. CASE q.kind = "delete" /\ q.tag \notin ToSet(conf.inb)
    <2>1. q.tag \in ToSet(q.dis)
      BY <1>12 DEF Accepts
    <2>2. Base(q) = conf /\ Changed(q) = Detach(conf, q.tag) /\ ChangedDisabled(q) = Taken(q.dis, q.tag)
      BY <1>12 DEF Base, Changed, ChangedDisabled
    <2> QED BY <1>0, <1>2, <1>5, <1>12, <2>1, <2>2 DEF Edited, Homes, Saves, Lost
  <1>13. CASE q.kind \in {"add", "clone"}
    <2>1. Base(q) = added /\ ChangedDisabled(q) = q.dis
      BY <1>13 DEF Base, ChangedDisabled, added
    <2>2. Changed(q) = IF q.tun = NoTun THEN added ELSE Attach(added, q.tag, q.tun, listen)
      BY <1>13 DEF Changed, added
    <2>3. q.kind = "clone" => q.tun # NoTun
      BY <1>1, ConstantsAssumption
    <2>4. Homes(conf, q.dis) \subseteq Homes(added, q.dis)
      BY <1>1, <1>4, <1>13 DEF Homes
    <2>5. q.tag \in ToSet(added.inb) /\ Same(added) /\ q.tag \in Tags
      BY <1>1, <1>4, <1>13
    <2>6. Edited(q, added, Changed(q))
      <3>1. CASE q.tun = NoTun
        BY <1>13, <2>2, <2>3, <3>1 DEF Edited
      <3>2. CASE q.tun # NoTun
        BY <1>1, <1>13, <2>2, <2>5, <3>2 DEF Edited, Target
      <3> QED BY <3>1, <3>2
    <2> QED BY <1>0, <1>13, <2>1, <2>4, <2>5, <2>6 DEF Saves, Lost
  <1>14. CASE q.kind = "strip"
    <2>2. /\ Base(q) = conf /\ Changed(q) = Strip(conf, tuns, q.tun)
          /\ ChangedDisabled(q) = q.dis \o Moved(conf, tuns, q.tun)
      BY <1>14 DEF Base, Changed, ChangedDisabled
    <2>3. Moved(conf, tuns, q.tun) \in Seq(Tags)
      BY <1>0, StripFacts
    <2>4. q.dis \o Moved(conf, tuns, q.tun) \in Seq(Tags)
      BY <1>0, <2>3, SetOfConcat
    <2> QED BY <1>2, <1>14, <2>2, <2>4 DEF Edited, Saves
  <1>15. CASE q.kind = "batch"
    <2>1. q.tag \in ToSet(conf.inb)
      BY <1>15 DEF Accepts
    <2>2. /\ Base(q) = conf /\ Changed(q) = AttachUsers(conf, q.tag, q.tun, q.ids, listen)
          /\ ChangedDisabled(q) = q.dis
      BY <1>15 DEF Base, Changed, ChangedDisabled
    <2> QED BY <1>0, <1>1, <1>2, <1>15, <2>1, <2>2 DEF Edited, Homes, Saves, Lost, Target
  <1>16. CASE q.kind = "sync"
    <2>2. Base(q) = conf /\ Changed(q) = conf /\ ChangedDisabled(q) = q.dis
      BY <1>16 DEF Base, Changed, ChangedDisabled
    <2> QED BY <1>0, <1>2, <1>16, <2>2 DEF Edited, Homes, Saves, Lost
  <1> QED BY <1>1, <1>7, <1>8, <1>9, <1>10, <1>11, <1>12, <1>13, <1>14, <1>15, <1>16 DEF Kinds

(* It is a configuration again, its rules in order and its lists without   *)
(* a loss.                                                                 *)
LEMMA EditedFacts ==
  ASSUME TypeInv, NEW q \in Handlers, NEW c, NEW made, Same(c), Edited(q, c, made)
  PROVE  /\ made \in Confs /\ (UsersBefore(conf.rules) => UsersBefore(made.rules))
         /\ q.kind # "strip" => made.inb = c.inb
  <1>0. c \in Confs /\ c.rules = conf.rules /\ q.ids \in SUBSET Users /\ listen \in Ports
    BY DEF Same, Handlers, TypeInv
  <1>1. CASE made = c
    BY <1>0, <1>1
  <1>2. CASE Target(q, c) /\ made = Attach(c, q.tag, q.tun, listen)
    BY <1>0, <1>2, AttachFacts DEF Target
  <1>3. CASE made = Detach(c, q.tag)
    BY <1>0, <1>3, DetachFacts
  <1>4. CASE q.kind = "strip" /\ made = Strip(c, tuns, q.tun)
    BY <1>0, <1>4, StripFacts
  <1>5. CASE Target(q, c) /\ made = AttachUsers(c, q.tag, q.tun, q.ids, listen)
    <2>1. q.tag \in Tags /\ q.tun \in Tunnels /\ q.ids \in SUBSET Users
      BY <1>0, <1>5 DEF Target
    <2> DEFINE e == AttachUsers(c, q.tag, q.tun, q.ids, listen)
    <2>2. e \in Confs /\ e.inb = c.inb /\ (UsersBefore(c.rules) => UsersBefore(e.rules))
      <3>1. e.inb = c.inb
        BY <1>0 DEF AttachUsers, Confs
      <3>2. e \in Confs
        BY <1>0, <2>1, AttachUsersFacts
      <3>3. UsersBefore(c.rules) => UsersBefore(e.rules)
        BY <1>0, <2>1, AttachUsersFacts
      <3> QED BY <3>1, <3>2, <3>3
    <2> QED BY <1>0, <1>5, <2>2
  <1> QED BY <1>1, <1>2, <1>3, <1>4, <1>5 DEF Edited

(* What every change gives: a configuration, the order of the rules, and   *)
(* all inbounds but a deleted one.                                         *)
LEMMA ChangedFacts ==
  ASSUME TypeInv, NEW q \in Handlers, HandlerOK(q), q.pc = "apply", Accepts(q)
  PROVE  /\ Changed(q) \in Confs /\ ChangedDisabled(q) \in Seq(Tags)
         /\ UsersBefore(conf.rules) => UsersBefore(Changed(q).rules)
         /\ Homes(conf, q.dis) \subseteq Homes(Changed(q), ChangedDisabled(q)) \cup Lost(q)
  <1>1. /\ Same(Base(q)) /\ Edited(q, Base(q), Changed(q)) /\ ChangedDisabled(q) \in Seq(Tags)
        /\ q.kind # "strip" => Homes(conf, q.dis) \subseteq Homes(Base(q), ChangedDisabled(q)) \cup Lost(q)
        /\ q.kind = "strip" => ChangedDisabled(q) = q.dis \o Moved(conf, tuns, q.tun)
    BY ChangedCases
  <1>2. /\ Changed(q) \in Confs /\ (UsersBefore(conf.rules) => UsersBefore(Changed(q).rules))
        /\ q.kind # "strip" => Changed(q).inb = Base(q).inb
    BY <1>1, EditedFacts
  <1>3. CASE q.kind = "strip"
    <2>1. Changed(q) = Strip(conf, tuns, q.tun)
      BY <1>3 DEF Changed
    <2>2. /\ Moved(conf, tuns, q.tun) \in Seq(Tags)
          /\ ToSet(Strip(conf, tuns, q.tun).inb) \cup ToSet(Moved(conf, tuns, q.tun)) = ToSet(conf.inb)
      BY StripFacts DEF TypeInv
    <2>3. ToSet(ChangedDisabled(q)) = ToSet(q.dis) \cup ToSet(Moved(conf, tuns, q.tun))
      BY <1>1, <1>3, <2>2, SetOfConcat DEF Handlers
    <2> QED BY <1>1, <1>2, <2>1, <2>2, <2>3 DEF Homes
  <1>4. CASE q.kind # "strip"
    BY <1>1, <1>2, <1>4 DEF Homes
  <1> QED BY <1>3, <1>4

-----------------------------------------------------------------------------
(* The steps of applySingBox and after it.                                 *)

Steady == UNCHANGED <<disabled, tuns, live, listen>>

(* applySingBox loads and changes.                                         *)
Applied(q) ==
  [q EXCEPT !.pc = IF q.kind = "sync" THEN "jobs" ELSE "inbounds", !.new = Changed(q), !.dis = ChangedDisabled(q)]

(* Apply takes the free lock and holds the changed configuration.          *)
LEMMA ApplyFacts ==
  ASSUME TypeInv, NEW r \in Requests, Apply(r)
  PROVE  /\ lock = NoReq /\ lock' = r /\ conf' = conf /\ pending' = pending /\ Steady
         /\ req[r].pc = "apply" /\ Accepts(req[r])
         /\ Becomes(r, Applied(req[r])) /\ Applied(req[r]) \in Handlers /\ HandlerOK(Applied(req[r]))
         /\ Applied(req[r]).pc = IF req[r].kind = "sync" THEN "jobs" ELSE "inbounds"
         /\ Applied(req[r]).kind = req[r].kind /\ Applied(req[r]).tag = req[r].tag
         /\ Applied(req[r]).jobs = req[r].jobs /\ Applied(req[r]).tun = req[r].tun
         /\ Applied(req[r]).new = Changed(req[r]) /\ Applied(req[r]).dis = ChangedDisabled(req[r])
  <1> DEFINE q == req[r]
             p == Applied(q)
  <1>1. q \in Handlers /\ HandlerOK(q) /\ q.pc = "apply" /\ Accepts(q)
    BY ReqFacts DEF Apply
  <1>2. Becomes(r, p)
    BY DEF Apply, Becomes, Applied
  <1>3. Changed(q) \in Confs /\ ChangedDisabled(q) \in Seq(Tags)
    BY <1>1, ChangedFacts
  <1>4. /\ p \in Handlers /\ p.pc = (IF q.kind = "sync" THEN "jobs" ELSE "inbounds")
        /\ p.kind = q.kind /\ p.tag = q.tag /\ p.jobs = q.jobs /\ p.tun = q.tun /\ p.ids = q.ids
        /\ p.new = Changed(q) /\ p.dis = ChangedDisabled(q)
    <2> HIDE DEF q
    <2> QED BY <1>1, <1>3 DEF Applied, Handlers, Writing
  <1> HIDE DEF p, q
  <1>5. HandlerOK(p)
    BY <1>1, <1>3, <1>4 DEF HandlerOK, Writing
  <1> QED BY <1>1, <1>2, <1>4, <1>5 DEF p, q, Apply, Steady

Worked(q, j) ==
  [q EXCEPT !.pc = IF q.jobs = {j} THEN "inbounds" ELSE "jobs", !.new = Attach(@, j.tag, j.tun, listen), !.jobs = @ \ {j}]

(* A round of the synchronisation binds one entry and drops its job.       *)
LEMMA SyncEntryFacts ==
  ASSUME TypeInv, NEW r \in Requests, SyncEntry(r)
  PROVE  /\ lock' = lock /\ lock = r /\ conf' = conf /\ pending' = pending /\ Steady
         /\ req[r].pc = "jobs" /\ req[r].new \in Confs /\ req[r].kind = "sync"
         /\ \E j \in req[r].jobs : LET p == Worked(req[r], j) IN
              /\ j.tag \in Tags /\ j.tun \in Tunnels
              /\ Becomes(r, p) /\ p \in Handlers /\ HandlerOK(p)
              /\ p.pc = IF req[r].jobs = {j} THEN "inbounds" ELSE "jobs"
              /\ p.kind = req[r].kind /\ p.tag = req[r].tag /\ p.tun = req[r].tun /\ p.jobs = req[r].jobs \ {j} /\ p.dis = req[r].dis
              /\ p.new = Attach(req[r].new, j.tag, j.tun, listen)
  <1> DEFINE q == req[r]
  <1>1. q \in Handlers /\ HandlerOK(q) /\ q.pc = "jobs" /\ q.new \in Confs /\ lock = r /\ q.kind = "sync"
    BY ReqFacts DEF SyncEntry, Writing, HandlerOK
  <1>2. PICK j \in q.jobs : Becomes(r, Worked(q, j))
    <2>1. PICK j \in req[r].jobs :
            req' = [req EXCEPT ![r].pc = IF req[r].jobs = {j} THEN "inbounds" ELSE "jobs",
                               ![r].new = Attach(@, j.tag, j.tun, listen), ![r].jobs = @ \ {j}]
      BY DEF SyncEntry
    <2>2. req' = [req EXCEPT ![r] = [req[r] EXCEPT
                    !.pc = IF req[r].jobs = {j} THEN "inbounds" ELSE "jobs",
                    !.new = Attach(req[r].new, j.tag, j.tun, listen), !.jobs = req[r].jobs \ {j}]]
      BY <2>1
    <2> QED BY <2>1, <2>2 DEF Becomes, Worked
  <1> DEFINE p == Worked(q, j)
  <1>3. j.tag \in Tags /\ j.tun \in Tunnels
    BY <1>1 DEF Handlers
  <1>4. Attach(q.new, j.tag, j.tun, listen) \in Confs
    BY <1>1, <1>3, AttachFacts DEF TypeInv
  <1>5. /\ p \in Handlers /\ p.pc = (IF q.jobs = {j} THEN "inbounds" ELSE "jobs")
        /\ p.kind = q.kind /\ p.tag = q.tag /\ p.jobs = q.jobs \ {j} /\ p.dis = q.dis /\ p.tun = q.tun
        /\ p.new = Attach(q.new, j.tag, j.tun, listen)
    <2> HIDE DEF q
    <2> QED BY <1>1, <1>4 DEF Worked, Handlers, Writing
  <1>6. HandlerOK(p)
    <2> HIDE DEF p, q
    <2>1. p.jobs = {} \/ p.pc = "jobs"
      BY <1>5
    <2> QED BY <1>1, <1>4, <1>5, <2>1 DEF HandlerOK, Writing
  <1> HIDE DEF p
  <1>7. conf' = conf /\ pending' = pending /\ Steady /\ lock' = lock
    BY DEF SyncEntry, Steady
  <1> QED BY <1>1, <1>2, <1>3, <1>5, <1>6, <1>7 DEF p

(* One file.                                                               *)
At(q, pc) == [q EXCEPT !.pc = pc]

(* One file more is the new configuration's.                               *)
LEMMA WriteFacts ==
  ASSUME TypeInv, NEW r \in Requests, WriteSB(r)
  PROVE  /\ lock' = lock /\ lock = r /\ pending' = pending /\ Steady
         /\ req[r].pc \in Writing /\ req[r].new \in Confs /\ conf' \in Confs
         /\ \E next \in {"outbounds", "route", "restart"} :
              /\ Becomes(r, At(req[r], next)) /\ At(req[r], next) \in Handlers /\ HandlerOK(At(req[r], next))
              /\ At(req[r], next).pc = next /\ WrittenOK(conf', At(req[r], next))
              /\ At(req[r], next).kind = req[r].kind /\ At(req[r], next).tag = req[r].tag
              /\ At(req[r], next).tun = req[r].tun /\ At(req[r], next).jobs = req[r].jobs
              /\ At(req[r], next).new = req[r].new /\ At(req[r], next).dis = req[r].dis
              /\ req[r].pc = CASE next = "outbounds" -> "inbounds" [] next = "route" -> "outbounds" [] next = "restart" -> "route"
              /\ \/ next = "outbounds" /\ conf'.inb = req[r].new.inb /\ conf'.obs = conf.obs /\ conf'.rules = conf.rules
                 \/ next = "route" /\ conf'.inb = conf.inb /\ conf'.obs = req[r].new.obs /\ conf'.rules = conf.rules
                 \/ next = "restart" /\ conf'.inb = conf.inb /\ conf'.obs = conf.obs /\ conf'.rules = req[r].new.rules
                    /\ conf' = req[r].new
  <1> DEFINE q == req[r]
  <1>1. q \in Handlers /\ HandlerOK(q) /\ WrittenOK(conf, q) /\ (q.pc \in Writing <=> lock = r) /\ conf \in Confs
    BY ReqFacts DEF TypeInv
  <1>2. PICK next \in {"outbounds", "route", "restart"} :
           /\ \/ next = "outbounds" /\ q.pc = "inbounds" /\ conf' = [conf EXCEPT !.inb = q.new.inb]
              \/ next = "route" /\ q.pc = "outbounds" /\ conf' = [conf EXCEPT !.obs = q.new.obs]
              \/ next = "restart" /\ q.pc = "route" /\ conf' = [conf EXCEPT !.rules = q.new.rules]
           /\ req' = [req EXCEPT ![r].pc = next]
    BY DEF WriteSB, WriteFile
  <1>3. lock' = lock /\ pending' = pending /\ Steady
    BY DEF WriteSB, WriteFile, Steady
  <1> DEFINE p == At(q, next)
  <1>4. Becomes(r, p)
    BY <1>2 DEF Becomes, At
  <1> HIDE DEF q
  <1>5. /\ p \in Handlers /\ p.pc = next /\ p.kind = q.kind /\ p.tag = q.tag /\ p.tun = q.tun
        /\ p.jobs = q.jobs /\ p.new = q.new /\ p.dis = q.dis
    BY <1>1 DEF At, Handlers, Writing
  <1> HIDE DEF p
  <1>6. q.pc \in Writing \ {"jobs"} /\ q.new \in Confs /\ lock = r
    BY <1>1, <1>2 DEF HandlerOK, Writing
  <1>7. HandlerOK(p)
    BY <1>1, <1>2, <1>5, <1>6 DEF HandlerOK, Writing
  <1>8. /\ \/ next = "outbounds" /\ conf'.inb = q.new.inb /\ conf'.obs = conf.obs /\ conf'.rules = conf.rules
           \/ next = "route" /\ conf'.inb = conf.inb /\ conf'.obs = q.new.obs /\ conf'.rules = conf.rules
           \/ next = "restart" /\ conf'.inb = conf.inb /\ conf'.obs = conf.obs /\ conf'.rules = q.new.rules
        /\ conf' \in Confs
    BY <1>1, <1>2, <1>6 DEF Confs
  <1>9. WrittenOK(conf', p)
    BY <1>1, <1>2, <1>5, <1>8 DEF WrittenOK
  <1>10. next = "restart" => conf' = q.new
    <2>1. SUFFICES ASSUME next = "restart" PROVE conf' = q.new
      OBVIOUS
    <2>2. conf'.inb = q.new.inb /\ conf'.obs = q.new.obs /\ conf'.rules = q.new.rules
      BY <1>5, <1>9, <2>1 DEF WrittenOK
    <2> QED BY <1>6, <1>8, <2>2 DEF Confs
  <1>11. q.pc = CASE next = "outbounds" -> "inbounds" [] next = "route" -> "outbounds" [] next = "restart" -> "route"
    BY <1>2
  <1> QED BY <1>3, <1>4, <1>5, <1>6, <1>7, <1>8, <1>9, <1>10, <1>11 DEF p, q

(* The end of a handler, with or without the list to save.                 *)
LEMMA AnswerFacts ==
  ASSUME TypeInv, NEW r \in Requests, NEW ok \in BOOLEAN, Answer(r, ok)
  PROVE  Becomes(r, Free) /\ pending' \in BOOLEAN /\ (pending => pending')
         /\ (pending' => pending \/ req[r].kind \in {"clone", "strip", "sync"})
         /\ (req[r].kind \in {"clone", "strip"} => pending')
  <1>1. pending \in BOOLEAN
    BY DEF TypeInv
  <1> QED BY <1>1 DEF Answer, Becomes

(* A refused change leaves the files alone.                                *)
LEMMA RefuseFacts ==
  ASSUME TypeInv, NEW r \in Requests, Refuse(r)
  PROVE  /\ req[r].pc = "apply" /\ lock' = lock /\ conf' = conf /\ Steady /\ Answer(r, FALSE) /\ Becomes(r, Free)
         /\ lock # r
  <1>1. req[r].pc = "apply" /\ lock' = lock /\ conf' = conf /\ Steady /\ Answer(r, FALSE) /\ lock = NoReq
    BY DEF Refuse, Steady
  <1> QED BY <1>1, AnswerFacts, ConstantsAssumption

(* At its restart of sing-box a handler has written all it meant to.       *)
LEMMA RestartFacts ==
  ASSUME TypeInv, NEW r \in Requests, RestartSingBox(r)
  PROVE  /\ req[r].pc = "restart" /\ lock = r /\ lock' = NoReq /\ conf' = conf /\ Steady
         /\ conf = req[r].new /\ req[r].new \in Confs
         /\ \/ /\ req[r].kind \in Saves /\ pending' = pending
               /\ Becomes(r, At(req[r], "save")) /\ At(req[r], "save") \in Handlers /\ HandlerOK(At(req[r], "save"))
               /\ At(req[r], "save").pc = "save" /\ At(req[r], "save").kind = req[r].kind
               /\ At(req[r], "save").tag = req[r].tag /\ At(req[r], "save").tun = req[r].tun /\ At(req[r], "save").jobs = {}
               /\ At(req[r], "save").new = req[r].new /\ At(req[r], "save").dis = req[r].dis
            \/ req[r].kind \notin Saves /\ Answer(r, TRUE) /\ Becomes(r, Free)
  <1> DEFINE q == req[r]
             p == At(q, "save")
  <1>1. /\ q \in Handlers /\ HandlerOK(q) /\ WrittenOK(conf, q) /\ lock = r /\ q.pc = "restart" /\ conf \in Confs
        /\ q.new \in Confs /\ q.jobs = {}
    BY ReqFacts DEF RestartSingBox, Writing, TypeInv, HandlerOK
  <1>2. lock' = NoReq /\ conf' = conf /\ Steady
    BY DEF RestartSingBox, Steady
  <1>3. conf = q.new
    BY <1>1 DEF WrittenOK, Confs
  <1>4. CASE q.kind \notin Saves
    <2>1. Answer(r, TRUE)
      BY <1>4 DEF RestartSingBox
    <2> QED BY <1>1, <1>2, <1>3, <1>4, <2>1, AnswerFacts
  <1>5. CASE q.kind \in Saves
    <2>1. Becomes(r, p) /\ pending' = pending
      BY <1>5 DEF RestartSingBox, Becomes, At
    <2> HIDE DEF q
    <2>2. /\ p \in Handlers /\ p.pc = "save" /\ p.kind = q.kind /\ p.tag = q.tag /\ p.tun = q.tun
          /\ p.jobs = q.jobs /\ p.new = q.new /\ p.dis = q.dis
      BY <1>1 DEF At, Handlers
    <2> HIDE DEF p
    <2>3. HandlerOK(p)
      BY <1>1, <1>5, <2>2 DEF HandlerOK, Writing
    <2> QED BY <1>1, <1>2, <1>3, <1>5, <2>1, <2>2, <2>3 DEF p, q
  <1> QED BY <1>4, <1>5

(* So it has when sing-box does not come up.                               *)
LEMMA FailsFacts ==
  ASSUME TypeInv, NEW r \in Requests, RestartFails(r)
  PROVE  /\ "restart" \in Faults /\ req[r].pc = "restart" /\ lock = r /\ lock' = NoReq /\ conf' = conf /\ Steady
         /\ conf = req[r].new /\ Answer(r, FALSE) /\ Becomes(r, Free)
  <1>1. /\ "restart" \in Faults /\ req[r].pc = "restart" /\ lock' = NoReq /\ conf' = conf /\ Steady /\ Answer(r, FALSE)
    BY DEF RestartFails, Steady
  <1>2. lock = r /\ conf = req[r].new
    <2> DEFINE q == req[r]
    <2>1. HandlerOK(q) /\ WrittenOK(conf, q) /\ lock = r /\ conf \in Confs
      BY <1>1, ReqFacts DEF Writing, TypeInv
    <2>2. q.new \in Confs /\ conf.inb = q.new.inb /\ conf.obs = q.new.obs /\ conf.rules = q.new.rules
      BY <1>1, <2>1 DEF HandlerOK, WrittenOK, Writing
    <2> QED BY <2>1, <2>2 DEF Confs
  <1> QED BY <1>1, <1>2, AnswerFacts

(* The list of disabled inbounds is the handler's copy.                    *)
LEMMA SaveFacts ==
  ASSUME TypeInv, NEW r \in Requests, SaveDisabled(r)
  PROVE  /\ req[r].pc = "save" /\ lock' = lock /\ lock # r /\ conf' = conf /\ disabled' = req[r].dis
         /\ tuns' = tuns /\ live' = live /\ listen' = listen /\ Answer(r, TRUE) /\ Becomes(r, Free)
         /\ req[r].kind \in Saves
  <1>1. /\ req[r].pc = "save" /\ lock' = lock /\ conf' = conf /\ disabled' = req[r].dis
        /\ tuns' = tuns /\ live' = live /\ listen' = listen /\ Answer(r, TRUE)
    BY DEF SaveDisabled
  <1>2. lock # r /\ req[r].kind \in Saves
    BY <1>1, ReqFacts DEF Writing, HandlerOK
  <1> QED BY <1>1, <1>2, AnswerFacts

(* A file that cannot be written ends the handler where it is, and leaves  *)
(* all files as they are; the lock is free again.                          *)
LEMMA WriteFailsFacts ==
  ASSUME TypeInv, NEW r \in Requests, WriteFails(r)
  PROVE  /\ "write" \in Faults /\ conf' = conf /\ Steady /\ Becomes(r, Free) /\ pending' \in BOOLEAN
         /\ \/ /\ req[r].pc \in {"inbounds", "outbounds", "route"} /\ lock = r /\ lock' = NoReq
               /\ torn' = IF HalfWritten(r) THEN torn \cup About(req[r]) ELSE torn
            \/ req[r].pc = "save" /\ lock' = lock /\ lock # r /\ torn' = torn
  <1>1. /\ "write" \in Faults /\ conf' = conf /\ Steady
        /\ \/ /\ req[r].pc \in {"inbounds", "outbounds", "route"} /\ lock' = NoReq /\ Answer(r, FALSE)
              /\ torn' = IF HalfWritten(r) THEN torn \cup About(req[r]) ELSE torn
           \/ req[r].pc = "save" /\ Answer(r, TRUE) /\ lock' = lock /\ torn' = torn
    BY DEF WriteFails, Steady
  <1>2. req[r].pc \in Writing <=> lock = r
    BY ReqFacts
  <1> QED BY <1>1, <1>2, AnswerFacts DEF Writing

(* The process ends: no handler is left.                                   *)
LEMMA ProxyEndsFacts ==
  ASSUME TypeInv, ProxyEnds
  PROVE  /\ conf' = conf /\ disabled' = disabled /\ live' = live /\ listen' = listen /\ tuns' = live /\ pending' = FALSE
         /\ lock' = NoReq /\ req' \in [Requests -> Handlers] /\ \A r \in Requests : req'[r] = Free
         /\ torn' = torn \cup UNION {About(req[r]) : r \in {q \in Requests : HalfWritten(q)}}
  BY FreeFacts DEF ProxyEnds

(* The proxy restarts, when it was asked to.                               *)
LEMMA RestartProxyFacts ==
  ASSUME TypeInv, RestartProxy
  PROVE  /\ pending /\ (Turns => Resting) /\ ProxyEnds
         /\ conf' = conf /\ disabled' = disabled /\ live' = live /\ listen' = listen /\ tuns' = live /\ pending' = FALSE
         /\ lock' = NoReq /\ req' \in [Requests -> Handlers] /\ \A r \in Requests : req'[r] = Free
  BY ProxyEndsFacts DEF RestartProxy, Turns, Resting

-----------------------------------------------------------------------------
(* Types.                                                                  *)

(* The start.                                                              *)
LEMMA StartFacts ==
  ASSUME Init
  PROVE  /\ conf \in Starts /\ conf \in Confs /\ disabled = <<>> /\ listen = StartPort /\ live = tuns /\ pending = FALSE
         /\ tuns = TunsOf(conf.obs) \cup {DefaultTunnel} /\ tuns \in SUBSET Tunnels
         /\ lock = NoReq /\ req = [r \in Requests |-> Free] /\ Resting
  <1>1. conf \in Confs /\ IsConf(conf)
    BY ConstantsAssumption, ConfSet DEF Init
  <1>2. \A o \in DOMAIN conf.obs : conf.obs[o].tun \in Tunnels
    BY <1>1, ConfFacts DEF Outs
  <1>3. tuns \in SUBSET Tunnels
    BY <1>2, ConstantsAssumption DEF Init
  <1> QED BY <1>1, <1>3, FreeFacts DEF Init, TunsOf, Resting

(* The start is well typed.                                                *)
LEMMA TypeInit == Init => TypeInv
  <1> SUFFICES ASSUME Init PROVE TypeInv
    OBVIOUS
  <1>1. lock = NoReq /\ \A r \in Requests : req[r] = Free
    BY StartFacts
  <1>2. \A r \in Requests : HandlerOK(req[r]) /\ WrittenOK(conf, req[r]) /\ (req[r].pc \in Writing <=> lock = r)
    BY <1>1, FreeFacts, ConstantsAssumption DEF WrittenOK, Writing
  <1>3. req \in [Requests -> Handlers]
    BY StartFacts, FreeFacts
  <1> QED BY <1>2, <1>3, StartFacts, ConstantsAssumption DEF TypeInv

(* Every step keeps the types.                                             *)
LEMMA TypeStep == TypeInv /\ [Next]_vars => TypeInv'
  <1> SUFFICES ASSUME TypeInv, [Next]_vars PROVE TypeInv'
    OBVIOUS
  <1>0. /\ conf \in Confs /\ disabled \in Seq(Tags) /\ live \in SUBSET Tunnels /\ listen \in Ports
        /\ pending \in BOOLEAN /\ NoReq \notin Requests /\ lock \in Requests \cup {NoReq}
    BY ConstantsAssumption DEF TypeInv
  <1>1. ASSUME NEW r \in Requests, Asks(r) PROVE TypeInv'
    <2>1. /\ req[r].pc = "idle" /\ conf' = conf /\ disabled' = disabled /\ tuns' = tuns /\ lock' = lock
          /\ live' \in SUBSET Tunnels /\ listen' \in Ports /\ (Postponed \/ \E q : Started(r, q))
      BY <1>1, AsksFacts
    <2>2. CASE Postponed
      BY <1>0, <2>1, <2>2 DEF Postponed, TypeInv
    <2>3. CASE \E q : Started(r, q)
      <3>1. PICK q : Started(r, q)
        BY <2>3
      <3>2. q.pc \notin Writing /\ WrittenOK(conf', q) /\ lock # r
        BY <2>1, <3>1, ReqFacts DEF Started, Writing, WrittenOK
      <3> QED BY <1>0, <2>1, <3>1, <3>2, TypeKept DEF Started, Becomes
    <2> QED BY <2>1, <2>2, <2>3
  <1>2. ASSUME NEW r \in Requests, Apply(r) PROVE TypeInv'
    <2> DEFINE q == Applied(req[r])
    <2>1. /\ lock = NoReq /\ lock' = r /\ conf' = conf /\ pending' = pending /\ Steady
          /\ Becomes(r, q) /\ q \in Handlers /\ HandlerOK(q) /\ q.pc = IF req[r].kind = "sync" THEN "jobs" ELSE "inbounds"
      BY <1>2, ApplyFacts
    <2> HIDE DEF q
    <2>2. q.pc \in Writing /\ WrittenOK(conf', q)
      BY <2>1 DEF Writing, WrittenOK
    <2> QED BY <1>0, <2>1, <2>2, TypeKept DEF Steady, Becomes
  <1>3. ASSUME NEW r \in Requests, SyncEntry(r) PROVE TypeInv'
    <2>1. lock' = lock /\ lock = r /\ conf' = conf /\ pending' = pending /\ Steady
      BY <1>3, SyncEntryFacts
    <2>2. PICK q \in Handlers : Becomes(r, q) /\ HandlerOK(q) /\ q.pc \in {"inbounds", "jobs"}
      <3>1. PICK j \in req[r].jobs : LET p == Worked(req[r], j) IN
              /\ Becomes(r, p) /\ p \in Handlers /\ HandlerOK(p)
              /\ p.pc = IF req[r].jobs = {j} THEN "inbounds" ELSE "jobs"
        BY <1>3, SyncEntryFacts
      <3> QED BY <3>1
    <2>3. q.pc \in Writing /\ WrittenOK(conf', q)
      BY <2>2 DEF Writing, WrittenOK
    <2> QED BY <1>0, <2>1, <2>2, <2>3, TypeKept DEF Steady, Becomes
  <1>4. ASSUME NEW r \in Requests, Refuse(r) PROVE TypeInv'
    <2>1. lock' = lock /\ conf' = conf /\ Steady /\ Becomes(r, Free) /\ lock # r /\ pending' \in BOOLEAN
      BY <1>4, RefuseFacts, AnswerFacts
    <2>2. Free.pc \notin Writing /\ WrittenOK(conf', Free)
      BY FreeFacts DEF Writing, WrittenOK
    <2> QED BY <1>0, <2>1, <2>2, FreeFacts, TypeKept DEF Steady, Becomes
  <1>5. ASSUME NEW r \in Requests, WriteSB(r) PROVE TypeInv'
    <2>1. lock' = lock /\ lock = r /\ pending' = pending /\ Steady /\ conf' \in Confs
      BY <1>5, WriteFacts
    <2>2. PICK q \in Handlers : /\ Becomes(r, q) /\ HandlerOK(q) /\ q.pc \in {"outbounds", "route", "restart"}
                                /\ WrittenOK(conf', q)
      <3>1. PICK next \in {"outbounds", "route", "restart"} :
              /\ Becomes(r, At(req[r], next)) /\ At(req[r], next) \in Handlers /\ HandlerOK(At(req[r], next))
              /\ At(req[r], next).pc = next /\ WrittenOK(conf', At(req[r], next))
        BY <1>5, WriteFacts
      <3> QED BY <3>1
    <2>3. q.pc \in Writing
      BY <2>2 DEF Writing
    <2> QED BY <1>0, <2>1, <2>2, <2>3, TypeKept DEF Steady, Becomes
  <1>6. ASSUME NEW r \in Requests, RestartSingBox(r) PROVE TypeInv'
    <2>1. lock = r /\ lock' = NoReq /\ conf' = conf /\ Steady
      BY <1>6, RestartFacts
    <2>2. PICK q \in Handlers : Becomes(r, q) /\ HandlerOK(q) /\ q.pc \in {"save", "idle"} /\ pending' \in BOOLEAN
      <3>1. \/ /\ pending' = pending /\ Becomes(r, At(req[r], "save"))
               /\ At(req[r], "save") \in Handlers /\ HandlerOK(At(req[r], "save")) /\ At(req[r], "save").pc = "save"
            \/ Answer(r, TRUE) /\ Becomes(r, Free)
        BY <1>6, RestartFacts
      <3> QED BY <1>0, <3>1, FreeFacts, AnswerFacts
    <2>3. q.pc \notin Writing /\ WrittenOK(conf', q)
      BY <2>2 DEF Writing, WrittenOK
    <2> QED BY <1>0, <2>1, <2>2, <2>3, TypeKept DEF Steady, Becomes
  <1>7. ASSUME NEW r \in Requests, RestartFails(r) PROVE TypeInv'
    <2>1. lock = r /\ lock' = NoReq /\ conf' = conf /\ Steady /\ Becomes(r, Free) /\ pending' \in BOOLEAN
      BY <1>7, FailsFacts, AnswerFacts
    <2>2. Free.pc \notin Writing /\ WrittenOK(conf', Free)
      BY FreeFacts DEF Writing, WrittenOK
    <2> QED BY <1>0, <2>1, <2>2, FreeFacts, TypeKept DEF Steady, Becomes
  <1>8. ASSUME NEW r \in Requests, SaveDisabled(r) PROVE TypeInv'
    <2>1. /\ lock' = lock /\ lock # r /\ conf' = conf /\ disabled' = req[r].dis
          /\ tuns' = tuns /\ live' = live /\ listen' = listen /\ Becomes(r, Free) /\ pending' \in BOOLEAN
      BY <1>8, SaveFacts, AnswerFacts
    <2>2. Free.pc \notin Writing /\ WrittenOK(conf', Free) /\ disabled' \in Seq(Tags)
      BY <2>1, FreeFacts, ReqFacts DEF Writing, WrittenOK, Handlers
    <2> QED BY <1>0, <2>1, <2>2, FreeFacts, TypeKept DEF Becomes
  <1>9. ASSUME RestartProxy \/ Kill PROVE TypeInv'
    <2>1. /\ conf' = conf /\ disabled' = disabled /\ live' = live /\ listen' = listen /\ tuns' = live /\ pending' = FALSE
          /\ lock' = NoReq /\ req' \in [Requests -> Handlers] /\ \A r \in Requests : req'[r] = Free
      BY <1>9, ProxyEndsFacts DEF RestartProxy, Kill
    <2>2. \A r \in Requests : HandlerOK(req'[r]) /\ WrittenOK(conf', req'[r]) /\ (req'[r].pc \in Writing <=> lock' = r)
      BY <1>0, <2>1, FreeFacts DEF WrittenOK, Writing
    <2>3. \A r \in Requests : HandlerOK(req[r])' /\ WrittenOK(conf, req[r])' /\ (req[r].pc \in Writing <=> lock = r)'
      BY <2>2
    <2> QED BY <1>0, <2>1, <2>3 DEF TypeInv
  <1>10. ASSUME NEW r \in Requests, WriteFails(r) PROVE TypeInv'
    <2>1. /\ conf' = conf /\ Steady /\ Becomes(r, Free) /\ pending' \in BOOLEAN
          /\ (lock = r /\ lock' = NoReq) \/ (lock' = lock /\ lock # r)
      BY <1>10, WriteFailsFacts
    <2>2. Free.pc \notin Writing /\ WrittenOK(conf', Free)
      BY FreeFacts DEF Writing, WrittenOK
    <2> QED BY <1>0, <2>1, <2>2, FreeFacts, TypeKept DEF Steady, Becomes
  <1>11. ASSUME UNCHANGED vars PROVE TypeInv'
    BY <1>11 DEF vars, TypeInv
  <1> QED BY <1>1, <1>2, <1>3, <1>4, <1>5, <1>6, <1>7, <1>8, <1>9, <1>10, <1>11, NextCases

(* The state is well typed, and sbMu is held from a handler's check of its *)
(* change to its restart of sing-box, whatever the operator and sing-box   *)
(* do.                                                                     *)
THEOREM TypeInvariant == Spec => []TypeInv
  <1>1. Init => TypeInv
    BY TypeInit
  <1>2. TypeInv /\ [Next]_vars => TypeInv'
    BY TypeStep
  <1> QED BY <1>1, <1>2, PTL DEF Spec

(* The configuration files and the lists hold what they should, and sbMu   *)
(* is held by the one handler between its check and its restart of         *)
(* sing-box.                                                               *)
THEOREM TypeCorrect == Spec => []TypeOK
  <1>1. TypeInv => TypeOK
    BY ConfSet DEF TypeInv, TypeOK, Writing
  <1> QED BY <1>1, TypeInvariant, PTL

-----------------------------------------------------------------------------
(* A step seen from one of the handlers, and from the files.               *)

(* What a step may do to one request.                                      *)
LEMMA StepOf ==
  ASSUME TypeInv, [Next]_vars, NEW p \in Requests
  PROVE  \/ req'[p] = req[p]
         \/ req'[p] = Free /\ (Refuse(p) \/ RestartFails(p) \/ SaveDisabled(p) \/ WriteFails(p) \/ RestartProxy \/ Kill)
         \/ Asks(p) \/ Apply(p) \/ SyncEntry(p) \/ WriteSB(p) \/ RestartSingBox(p)
  <1> DEFINE Goal == \/ req'[p] = req[p]
                     \/ req'[p] = Free /\ (Refuse(p) \/ RestartFails(p) \/ SaveDisabled(p) \/ WriteFails(p) \/ RestartProxy \/ Kill)
                     \/ Asks(p) \/ Apply(p) \/ SyncEntry(p) \/ WriteSB(p) \/ RestartSingBox(p)
  <1>1. ASSUME NEW r \in Requests, NEW q \in Handlers, Becomes(r, q), p # r PROVE Goal
    BY <1>1, OneChanges DEF Others
  <1>2. ASSUME NEW r \in Requests, Asks(r) PROVE Goal
    <2>1. Postponed \/ \E q : Started(r, q)
      BY <1>2, AsksFacts
    <2> HIDE DEF Goal
    <2>2. CASE Postponed
      BY <2>2 DEF Postponed, Goal
    <2>3. CASE \E q : Started(r, q)
      <3>1. PICK q \in Handlers : Becomes(r, q)
        BY <2>3 DEF Started
      <3> QED BY <1>1, <1>2, <3>1 DEF Goal
    <2> QED BY <2>1, <2>2, <2>3
  <1>3. ASSUME NEW r \in Requests, Apply(r) PROVE Goal
    <2>1. Becomes(r, Applied(req[r])) /\ Applied(req[r]) \in Handlers
      BY <1>3, ApplyFacts
    <2> HIDE DEF Goal
    <2> QED BY <1>1, <1>3, <2>1 DEF Goal
  <1>4. ASSUME NEW r \in Requests, SyncEntry(r) PROVE Goal
    <2>1. PICK j \in req[r].jobs : Becomes(r, Worked(req[r], j)) /\ Worked(req[r], j) \in Handlers
      BY <1>4, SyncEntryFacts
    <2> HIDE DEF Goal
    <2> QED BY <1>1, <1>4, <2>1 DEF Goal
  <1>5. ASSUME NEW r \in Requests, WriteSB(r) PROVE Goal
    <2>1. PICK next \in {"outbounds", "route", "restart"} : Becomes(r, At(req[r], next)) /\ At(req[r], next) \in Handlers
      BY <1>5, WriteFacts
    <2> HIDE DEF Goal
    <2> QED BY <1>1, <1>5, <2>1 DEF Goal
  <1>6. ASSUME NEW r \in Requests, Becomes(r, Free), p # r PROVE Goal
    BY <1>6, <1>1, FreeFacts
  <1>7. ASSUME NEW r \in Requests, RestartSingBox(r) PROVE Goal
    <2>1. \/ Becomes(r, At(req[r], "save")) /\ At(req[r], "save") \in Handlers
          \/ Becomes(r, Free)
      BY <1>7, RestartFacts
    <2> HIDE DEF Goal
    <2> QED BY <1>1, <1>6, <1>7, <2>1 DEF Goal
  <1>8. ASSUME NEW r \in Requests, Refuse(r) \/ RestartFails(r) \/ SaveDisabled(r) \/ WriteFails(r) PROVE Goal
    <2>1. Becomes(r, Free)
      BY <1>8, RefuseFacts, FailsFacts, SaveFacts, WriteFailsFacts
    <2> HIDE DEF Goal
    <2> QED BY <1>6, <1>8, <2>1, FreeFacts, OneChanges DEF Goal
  <1>9. CASE RestartProxy \/ Kill
    BY <1>9, ProxyEndsFacts DEF RestartProxy, Kill
  <1>10. CASE UNCHANGED vars
    BY <1>10 DEF vars
  <1> HIDE DEF Goal
  <1>11. Goal
    BY <1>2, <1>3, <1>4, <1>5, <1>7, <1>8, <1>9, <1>10, NextCases DEF Goal
  <1> QED BY <1>11 DEF Goal

(* Only writeSB changes the files.                                         *)
LEMMA ConfCases ==
  ASSUME TypeInv, [Next]_vars
  PROVE  conf' = conf \/ \E r \in Requests : WriteSB(r)
  <1>1. ASSUME NEW r \in Requests, ~WriteSB(r),
               \/ Asks(r) \/ Apply(r) \/ SyncEntry(r) \/ Refuse(r)
               \/ RestartSingBox(r) \/ RestartFails(r) \/ SaveDisabled(r) \/ WriteFails(r)
        PROVE  conf' = conf
    BY <1>1, AsksFacts, ApplyFacts, SyncEntryFacts, RefuseFacts, RestartFacts, FailsFacts, SaveFacts, WriteFailsFacts
  <1>2. RestartProxy \/ Kill => conf' = conf
    BY ProxyEndsFacts DEF RestartProxy, Kill
  <1>3. UNCHANGED vars => conf' = conf
    BY DEF vars
  <1> QED BY <1>1, <1>2, <1>3, NextCases

(* A handler that writes has its configuration from before, or it has just *)
(* loaded and changed one, or it is at the jobs of a sync.                 *)
LEMMA NewCases ==
  ASSUME TypeInv, [Next]_vars, NEW p \in Requests, req'[p].pc \in Writing \cup {"save"}
  PROVE  \/ /\ req[p].pc \in Writing \cup {"save"} /\ req'[p].new = req[p].new /\ req'[p].dis = req[p].dis
            /\ req'[p].jobs = req[p].jobs /\ req'[p].kind = req[p].kind /\ req'[p].tag = req[p].tag
            /\ req[p].pc = "jobs" => req'[p].pc = "jobs"
            /\ req'[p].pc = "jobs" => req[p].pc = "jobs"
            /\ req'[p].pc \in Writing => req[p].pc \in Writing
         \/ Apply(p) /\ req'[p] = Applied(req[p])
         \/ SyncEntry(p) /\ \E j \in req[p].jobs : req'[p] = Worked(req[p], j)
  <1> DEFINE Kept1 == /\ req[p].pc \in Writing \cup {"save"} /\ req'[p].new = req[p].new /\ req'[p].dis = req[p].dis
                      /\ req'[p].jobs = req[p].jobs /\ req'[p].kind = req[p].kind /\ req'[p].tag = req[p].tag
                      /\ req[p].pc = "jobs" => req'[p].pc = "jobs"
                      /\ req'[p].pc = "jobs" => req[p].pc = "jobs"
                      /\ req'[p].pc \in Writing => req[p].pc \in Writing
  <1>1. CASE req'[p] = req[p]
    BY <1>1
  <1>2. CASE req'[p] = Free
    BY <1>2, FreeFacts DEF Writing
  <1>3. CASE Asks(p)
    <2>1. req[p].pc = "idle" /\ (Postponed \/ \E q : Started(p, q))
      BY <1>3, AsksFacts
    <2>2. ~\E q : Started(p, q)
      BY OneChanges DEF Started, Writing
    <2> QED BY <2>1, <2>2 DEF Postponed, Writing
  <1>4. CASE Apply(p)
    BY <1>4, ApplyFacts, OneChanges
  <1>5. CASE SyncEntry(p)
    <2>1. PICK j \in req[p].jobs : Becomes(p, Worked(req[p], j)) /\ Worked(req[p], j) \in Handlers
      BY <1>5, SyncEntryFacts
    <2> QED BY <1>5, <2>1, OneChanges
  <1>6. CASE WriteSB(p)
    <2>1. PICK next \in {"outbounds", "route", "restart"} :
              /\ Becomes(p, At(req[p], next)) /\ At(req[p], next) \in Handlers
              /\ At(req[p], next).pc = next
              /\ At(req[p], next).kind = req[p].kind /\ At(req[p], next).tag = req[p].tag
              /\ At(req[p], next).jobs = req[p].jobs
              /\ At(req[p], next).new = req[p].new /\ At(req[p], next).dis = req[p].dis
      BY <1>6, WriteFacts
    <2>2. req'[p] = At(req[p], next)
      BY <2>1, OneChanges
    <2>3. req[p].pc \in {"inbounds", "outbounds", "route"}
      BY <1>6 DEF WriteSB, WriteFile
    <2> QED BY <2>1, <2>2, <2>3 DEF Writing
  <1>7. CASE RestartSingBox(p)
    <2>1. req[p].pc = "restart"
      BY <1>7, RestartFacts
    <2>2. \/ /\ Becomes(p, At(req[p], "save")) /\ At(req[p], "save") \in Handlers
             /\ At(req[p], "save").pc = "save" /\ At(req[p], "save").kind = req[p].kind
             /\ At(req[p], "save").tag = req[p].tag /\ At(req[p], "save").jobs = req[p].jobs
             /\ At(req[p], "save").new = req[p].new /\ At(req[p], "save").dis = req[p].dis
          \/ Becomes(p, Free)
      <3>1. req[p].jobs = {}
        BY <2>1, ReqFacts DEF HandlerOK
      <3> QED BY <1>7, <3>1, RestartFacts
    <2>3. CASE Becomes(p, Free)
      <3>1. req'[p] = Free
        BY <2>3, FreeFacts, OneChanges
      <3> QED BY <1>2, <3>1
    <2>4. CASE /\ Becomes(p, At(req[p], "save")) /\ At(req[p], "save") \in Handlers
               /\ At(req[p], "save").pc = "save" /\ At(req[p], "save").kind = req[p].kind
               /\ At(req[p], "save").tag = req[p].tag /\ At(req[p], "save").jobs = req[p].jobs
               /\ At(req[p], "save").new = req[p].new /\ At(req[p], "save").dis = req[p].dis
      <3>1. req'[p] = At(req[p], "save")
        BY <2>4, OneChanges
      <3> QED BY <2>1, <2>4, <3>1 DEF Writing
    <2> QED BY <2>2, <2>3, <2>4
  <1> QED BY <1>1, <1>2, <1>3, <1>4, <1>5, <1>6, <1>7, StepOf

-----------------------------------------------------------------------------
(* The order of the rules.                                                 *)

(* The rules are in order at the start.                                    *)
LEMMA OrderInit == Init => OrderInv
  <1>1. Init => \A c \in Starts : UsersBefore(c.rules)
    BY StartsAssumption
  <1>2. Init => conf \in Starts /\ \A r \in Requests : req[r] = Free
    BY StartFacts
  <1> QED BY <1>1, <1>2, FreeFacts DEF OrderInv, Writing

(* Every step keeps their order: route.json is written whole, and every    *)
(* change keeps it.                                                        *)
LEMMA OrderStep == TypeInv /\ OrderInv /\ [Next]_vars => OrderInv'
  <1> SUFFICES ASSUME TypeInv, OrderInv, [Next]_vars PROVE OrderInv'
    OBVIOUS
  <1>1. UsersBefore(conf'.rules)
    <2>1. ASSUME NEW r \in Requests, WriteSB(r) PROVE UsersBefore(conf'.rules)
      <3>1. req[r].pc \in Writing /\ (conf'.rules = conf.rules \/ conf'.rules = req[r].new.rules)
        BY <2>1, WriteFacts
      <3> QED BY <3>1 DEF OrderInv
    <2> QED BY <2>1, ConfCases DEF OrderInv
  <1>2. ASSUME NEW p \in Requests, req'[p].pc \in Writing PROVE UsersBefore(req'[p].new.rules)
    <2>1. CASE req[p].pc \in Writing /\ req'[p].new = req[p].new
      BY <2>1 DEF OrderInv
    <2>2. CASE Apply(p) /\ req'[p] = Applied(req[p])
      <3>1. req'[p].new = Changed(req[p]) /\ req[p].pc = "apply" /\ Accepts(req[p]) /\ req[p] \in Handlers /\ HandlerOK(req[p])
        BY <2>2, ApplyFacts, ReqFacts
      <3> QED BY <3>1, ChangedFacts DEF OrderInv
    <2>3. CASE SyncEntry(p) /\ \E j \in req[p].jobs : req'[p] = Worked(req[p], j)
      <3>1. PICK j \in req[p].jobs : /\ j.tag \in Tags /\ j.tun \in Tunnels
                                     /\ Becomes(p, Worked(req[p], j)) /\ Worked(req[p], j) \in Handlers
                                     /\ Worked(req[p], j).new = Attach(req[p].new, j.tag, j.tun, listen)
        BY <2>3, SyncEntryFacts
      <3>2. req'[p].new = Attach(req[p].new, j.tag, j.tun, listen)
        BY <3>1, OneChanges
      <3>3. req[p].new \in Confs /\ UsersBefore(req[p].new.rules) /\ listen \in Ports
        BY <2>3, SyncEntryFacts DEF OrderInv, Writing, TypeInv
      <3> QED BY <3>1, <3>2, <3>3, AttachFacts
    <2> QED BY <1>2, <2>1, <2>2, <2>3, NewCases
  <1>3. \A p \in Requests : (req[p].pc \in Writing => UsersBefore(req[p].new.rules))'
    BY <1>2
  <1> QED BY <1>1, <1>3 DEF OrderInv

(* No plain rule of an inbound ever stands before the rule of one of its   *)
(* users, in whatever order the handlers run and whatever fails.           *)
THEOREM UsersAlwaysFirst == Spec => []UsersFirst
  <1>1. Init => TypeInv /\ OrderInv
    BY TypeInit, OrderInit
  <1>2. TypeInv /\ OrderInv /\ [Next]_vars => (TypeInv /\ OrderInv)'
    BY TypeStep, OrderStep
  <1>3. OrderInv => UsersFirst
    BY DEF OrderInv, UsersFirst
  <1> QED BY <1>1, <1>2, <1>3, PTL DEF Spec

-----------------------------------------------------------------------------
(* Taking turns.                                                           *)

(* Nothing is cut short.                                                   *)
LEMMA Whole ==
  ASSUME CalmInv
  PROVE  Intact /\ ~Kill /\ \A r \in Requests : ~WriteFails(r)
  BY DEF CalmInv, Intact, Kill, WriteFails

(* Nobody is at work at the start.                                         *)
LEMMA CalmInit == Init /\ Uncut => CalmInv
  BY StartFacts, FreeFacts DEF CalmInv, Alone, Uncut

(* Turns last: a request is made when all others are over.                 *)
LEMMA CalmStep ==
  ASSUME TypeInv, CalmInv, Uncut, [Next]_vars
  PROVE  CalmInv'
  <1>1. CASE Turns
    <2>1. SUFFICES ASSUME NEW p \in Requests, NEW r \in Requests, req'[p].pc # "idle", req'[r].pc # "idle", p # r
                   PROVE  FALSE
      BY <1>1, Whole DEF CalmInv, Alone, Turns
    <2>2. Alone
      BY <1>1 DEF CalmInv
    <2>3. ASSUME NEW s \in Requests, req'[s].pc # "idle" PROVE req[s].pc # "idle" \/ Resting
      <3>1. CASE Asks(s)
        BY <1>1, <3>1, AsksFacts
      <3> QED BY <2>3, <3>1, StepOf, FreeFacts, ApplyFacts, SyncEntryFacts, WriteFacts, RestartFacts DEF Writing
    <2>4. Resting
      BY <2>1, <2>2, <2>3 DEF Alone
    <2>5. ASSUME NEW s \in Requests, req'[s].pc # "idle" PROVE Asks(s)
      <3>1. req[s].pc = "idle"
        BY <2>4 DEF Resting
      <3> QED BY <2>5, <3>1, Whole, StepOf, FreeFacts, ApplyFacts, SyncEntryFacts, WriteFacts, RestartFacts DEF Writing
    <2>6. \E q : Started(p, q)
      <3>1. Asks(p) /\ req[p].pc = "idle"
        BY <2>1, <2>4, <2>5 DEF Resting
      <3>2. ~Postponed
        BY <2>1, <3>1 DEF Postponed
      <3> QED BY <3>1, <3>2, AsksFacts
    <2>7. req'[r] = req[r]
      BY <2>1, <2>6, OneChanges DEF Started, Others
    <2> QED BY <2>1, <2>4, <2>7 DEF Resting
  <1>2. CASE ~Turns
    <2>1. Changes \cap {"clone", "strip", "sync"} = {} /\ ~pending
      BY <1>2 DEF Uncut, CalmInv
    <2>2. \A r \in Requests : req[r].kind \notin {"clone", "strip", "sync"}
      BY <2>1, ReqFacts, FreeFacts DEF HandlerOK
    <2>3. ASSUME NEW r \in Requests, Asks(r) PROVE ~pending'
      BY <2>1, <2>3, AsksFacts DEF Postponed, Started
    <2>4. ASSUME NEW r \in Requests, NEW ok \in BOOLEAN, Answer(r, ok) PROVE ~pending'
      BY <2>1, <2>2, <2>4, AnswerFacts
    <2>5. ASSUME NEW r \in Requests, Refuse(r) \/ RestartFails(r) \/ SaveDisabled(r) \/ RestartSingBox(r) PROVE ~pending'
      BY <2>1, <2>4, <2>5, RefuseFacts, FailsFacts, SaveFacts, RestartFacts
    <2>6. ASSUME NEW r \in Requests, Apply(r) \/ SyncEntry(r) \/ WriteSB(r) PROVE ~pending'
      BY <2>1, <2>6, ApplyFacts, SyncEntryFacts, WriteFacts
    <2>7. ~pending'
      BY <2>1, <2>3, <2>5, <2>6, NextCases, Whole, RestartProxyFacts DEF vars
    <2> QED BY <1>2, <2>7, Whole DEF CalmInv, Turns
  <1> QED BY <1>1, <1>2

(* So a restart of the proxy finds no handler at work, and one that has    *)
(* begun to write goes on until sing-box is restarted.                     *)
LEMMA CalmRestart ==
  ASSUME TypeInv, CalmInv, RestartProxy
  PROVE  Turns /\ Resting
  BY RestartProxyFacts DEF CalmInv

(* A handler that writes is not cut short.                                 *)
LEMMA CalmWriting ==
  ASSUME TypeInv, CalmInv, [Next]_vars, NEW p \in Requests, req[p].pc \in {"jobs", "inbounds", "outbounds", "route"}
  PROVE  req'[p] = req[p] \/ SyncEntry(p) \/ WriteSB(p)
  <1>1. ~RestartProxy
    BY CalmRestart DEF Resting
  <1> QED BY <1>1, Whole, StepOf, AsksFacts, ApplyFacts, RefuseFacts, FailsFacts, SaveFacts, RestartFacts

-----------------------------------------------------------------------------
(* Rules and outbounds fit.                                                *)

(* Linked asks nothing of the order of rules.                              *)
LEMMA LinkedSame ==
  ASSUME NEW c, NEW d, Linked(c), d.obs = c.obs, ToSet(d.rules) = ToSet(c.rules)
  PROVE  Linked(d)
  BY LinkedFacts, LinkedMade

(* Every change keeps rules and outbounds together.                        *)
LEMMA ChangedLinked ==
  ASSUME TypeInv, Linked(conf), NEW q \in Handlers, HandlerOK(q), q.pc = "apply", Accepts(q)
  PROVE  Linked(Changed(q))
  <1> DEFINE c == Base(q)
             d == Changed(q)
  <1>1. Same(c) /\ Edited(q, c, d)
    BY ChangedCases
  <1> HIDE DEF c, d
  <1>2. c \in Confs /\ Linked(c) /\ q.ids \in SUBSET Users /\ listen \in Ports
    BY <1>1, LinkedSame DEF Same, Handlers, TypeInv
  <1>3. CASE d = c
    BY <1>2, <1>3 DEF d
  <1>4. CASE Target(q, c) /\ d = Attach(c, q.tag, q.tun, listen)
    BY <1>2, <1>4, AttachLinked DEF d, Target
  <1>5. CASE d = Detach(c, q.tag)
    BY <1>2, <1>5, DetachLinked DEF d
  <1>6. CASE d = Strip(c, tuns, q.tun)
    BY <1>2, <1>6, StripLinked DEF d
  <1>7. CASE Target(q, c) /\ d = AttachUsers(c, q.tag, q.tun, q.ids, listen)
    BY <1>2, <1>7, UsersLinked DEF d, Target
  <1> QED BY <1>1, <1>3, <1>4, <1>5, <1>6, <1>7 DEF Edited, d

(* They are together at the start.                                         *)
LEMMA LinkInit == Init => LinkInv
  <1>1. Init => \A c \in Starts : Linked(c)
    BY StartsAssumption
  <1>2. Init => conf \in Starts /\ \A r \in Requests : req[r] = Free
    BY StartFacts
  <1> QED BY <1>1, <1>2, FreeFacts DEF LinkInv, Writing

(* Nobody is about to write rules when a handler loads or begins.          *)
LEMMA LockedOut ==
  ASSUME TypeInv, NEW r \in Requests, NEW s \in Requests, req[r].pc \in Writing
  PROVE  req[s].pc \in Writing => s = r
  BY ReqFacts

(* They are again once route.json is written, as a handler that has begun  *)
(* to write goes on.                                                       *)
LEMMA LinkStep ==
  ASSUME TypeInv, CalmInv, LinkInv, [Next]_vars
  PROVE  LinkInv'
  <1>1. ASSUME \A r \in Requests : req'[r].pc # "route" PROVE Linked(conf')
    <2>1. CASE \E r \in Requests : WriteSB(r)
      <3>1. PICK r \in Requests : WriteSB(r)
        BY <2>1
      <3>2. PICK next \in {"outbounds", "route", "restart"} :
              /\ Becomes(r, At(req[r], next)) /\ At(req[r], next) \in Handlers /\ At(req[r], next).pc = next
              /\ req[r].pc = CASE next = "outbounds" -> "inbounds" [] next = "route" -> "outbounds" [] next = "restart" -> "route"
              /\ \/ next = "outbounds" /\ conf'.inb = req[r].new.inb /\ conf'.obs = conf.obs /\ conf'.rules = conf.rules
                 \/ next = "route"
                 \/ next = "restart" /\ conf' = req[r].new
        BY <3>1, WriteFacts
      <3>3. req'[r].pc = next /\ req[r].pc \in Writing /\ Others(r)
        BY <3>1, <3>2, OneChanges, WriteFacts
      <3>4. CASE next = "outbounds"
        <4>1. \A s \in Requests : req[s].pc # "route"
          <5>1. req[r].pc # "route"
            BY <3>2, <3>4
          <5>2. \A s \in Requests \ {r} : req[s].pc \notin Writing
            BY <3>3, LockedOut
          <5> QED BY <5>1, <5>2 DEF Writing
        <4> QED BY <3>2, <3>4, <4>1, LinkedSame DEF LinkInv
      <3>5. CASE next = "restart"
        BY <3>2, <3>3, <3>5 DEF LinkInv
      <3> QED BY <1>1, <3>2, <3>3, <3>4, <3>5
    <2>2. CASE ~\E r \in Requests : WriteSB(r)
      <3>1. conf' = conf
        BY <2>2, ConfCases
      <3>2. ASSUME NEW p \in Requests, req[p].pc = "route" PROVE FALSE
        BY <1>1, <2>2, <3>2, CalmWriting, SyncEntryFacts
      <3> QED BY <3>1, <3>2 DEF LinkInv
    <2> QED BY <2>1, <2>2
  <1>2. ASSUME NEW p \in Requests, req'[p].pc \in Writing PROVE Linked(req'[p].new)
    <2>1. CASE req[p].pc \in Writing /\ req'[p].new = req[p].new
      BY <2>1 DEF LinkInv
    <2>2. CASE Apply(p) /\ req'[p] = Applied(req[p])
      <3>1. /\ req'[p].new = Changed(req[p]) /\ req[p].pc = "apply" /\ Accepts(req[p])
            /\ req[p] \in Handlers /\ HandlerOK(req[p]) /\ lock = NoReq
        BY <2>2, ApplyFacts, ReqFacts
      <3>2. \A r \in Requests : req[r].pc # "route"
        BY <3>1, ReqFacts, ConstantsAssumption DEF Writing
      <3> QED BY <3>1, <3>2, ChangedLinked DEF LinkInv
    <2>3. CASE SyncEntry(p) /\ \E j \in req[p].jobs : req'[p] = Worked(req[p], j)
      <3>1. PICK j \in req[p].jobs : /\ j.tag \in Tags /\ j.tun \in Tunnels
                                     /\ Becomes(p, Worked(req[p], j)) /\ Worked(req[p], j) \in Handlers
                                     /\ Worked(req[p], j).new = Attach(req[p].new, j.tag, j.tun, listen)
        BY <2>3, SyncEntryFacts
      <3>2. req'[p].new = Attach(req[p].new, j.tag, j.tun, listen)
        BY <3>1, OneChanges
      <3>3. req[p].new \in Confs /\ Linked(req[p].new) /\ listen \in Ports
        BY <2>3, SyncEntryFacts DEF LinkInv, Writing, TypeInv
      <3> QED BY <3>1, <3>2, <3>3, AttachLinked
    <2> QED BY <1>2, <2>1, <2>2, <2>3, NewCases
  <1>3. \A p \in Requests : (req[p].pc \in Writing => Linked(req[p].new))'
    BY <1>2
  <1> QED BY <1>1, <1>3 DEF LinkInv

-----------------------------------------------------------------------------
(* What a request holds from the start.                                    *)

Asked(q) ==
  /\ q.pc = "apply"
  /\ q.kind = "strip" => q.tun \in tuns \cap live /\ live' = live \ {q.tun}
  /\ q.kind = "clone" => live' = live \cup {q.tun}
  /\ q.kind \notin {"strip", "clone"} => live' = live
  /\ q.kind = "add" => q.tun \in tuns \cup {NoTun}
  /\ q.kind = "batch" => q.tun # NoTun /\ q.tun = OutboundTunnel(conf.obs, tuns, OutboundOf(conf.rules, q.tag))
  /\ q.kind = "sync" => q.jobs = Jobs(conf, disabled, tuns, listen')
  /\ q.kind # "sync" => q.jobs = {} /\ listen' = listen

(* The proxy restarts for a new tunnel, or its address, only.              *)
Spared ==
  \/ listen' = listen /\ live \subseteq live'
  \/ live' = live /\ Jobs(conf, disabled, tuns, listen') = {}

(* What a request that was just made holds.                                *)
LEMMA AskReq ==
  ASSUME TypeInv, NEW r \in Requests, NEW kind, NEW t, NEW n, NEW ids, NEW jobs, Ask(r, kind, t, n, ids, jobs)
  PROVE  /\ req'[r].pc = "apply" /\ req'[r].kind = kind /\ req'[r].tag = t /\ req'[r].tun = n /\ req'[r].jobs = jobs
  <1>1. req' = [req EXCEPT ![r] = Asker(kind, t, n, ids, jobs)]
    BY DEF Ask, Asker
  <1>2. req'[r] = Asker(kind, t, n, ids, jobs)
    BY <1>1 DEF TypeInv
  <1> QED BY <1>2, AskerFacts

(* Which request a handler makes, and what it has read.                    *)
LEMMA AskedFacts ==
  ASSUME TypeInv, NEW r \in Requests, Asks(r)
  PROVE  (req' = req /\ Spared) \/ Asked(req'[r])
  <1> DEFINE q == req'[r]
  <1>1. ASSUME NEW t \in Tags, NEW kind \in Changes, PutInbound(r, kind, t) PROVE Asked(q)
    <2>1. q.pc = "apply" /\ q.kind \in {"disable", "enable", "unbind", "delete"} /\ q.jobs = {}
      BY <1>1, AskReq DEF PutInbound
    <2> HIDE DEF q
    <2> QED BY <1>1, <2>1 DEF PutInbound, Asked
  <1>2. ASSUME NEW t \in Tags, NEW n \in Tunnels, Rebind(r, t, n) PROVE Asked(q)
    <2>1. q.pc = "apply" /\ q.kind = "bind" /\ q.jobs = {}
      BY <1>2, AskReq DEF Rebind
    <2> HIDE DEF q
    <2> QED BY <1>2, <2>1 DEF Rebind, Asked
  <1>3. ASSUME NEW t \in Tags, NEW n \in Tunnels, AddTunnel(r, t, n) PROVE (req' = req /\ Spared) \/ Asked(q)
    <2>1. CASE conf.inb = <<>>
      BY <1>3, <2>1 DEF AddTunnel, Spared
    <2>2. CASE conf.inb # <<>>
      <3>1. q.pc = "apply" /\ q.kind = "clone" /\ q.tun = n /\ q.jobs = {}
        BY <1>3, <2>2, AskReq DEF AddTunnel
      <3> HIDE DEF q
      <3> QED BY <1>3, <3>1 DEF AddTunnel, Asked
    <2> QED BY <2>1, <2>2
  <1>4. ASSUME NEW t \in Tags, NEW n \in Tunnels \cup {NoTun}, AddInbound(r, t, n) PROVE Asked(q)
    <2>1. q.pc = "apply" /\ q.kind = "add" /\ q.tun = n /\ q.jobs = {}
      BY <1>4, AskReq DEF AddInbound
    <2> HIDE DEF q
    <2> QED BY <1>4, <2>1 DEF AddInbound, Asked
  <1>5. ASSUME NEW t \in Tags, NEW ids \in SUBSET Users \ {{}}, BatchUsers(r, t, ids) PROVE Asked(q)
    <2> DEFINE n == OutboundTunnel(conf.obs, tuns, OutboundOf(conf.rules, t))
    <2>1. n # NoTun /\ Ask(r, "batch", t, n, ids, {})
      BY <1>5 DEF BatchUsers
    <2>2. q.pc = "apply" /\ q.kind = "batch" /\ q.tun = n /\ q.jobs = {} /\ q.tag = t
      BY <2>1, AskReq
    <2> HIDE DEF q
    <2> QED BY <1>5, <2>1, <2>2 DEF BatchUsers, Asked
  <1>6. ASSUME NEW n \in Tunnels, DelTunnel(r, n) PROVE Asked(q)
    <2>1. q.pc = "apply" /\ q.kind = "strip" /\ q.tun = n /\ q.jobs = {}
      BY <1>6, AskReq DEF DelTunnel
    <2> HIDE DEF q
    <2> QED BY <1>6, <2>1 DEF DelTunnel, Asked
  <1>7. ASSUME NEW p \in Ports, PutSocks(r, p) PROVE (req' = req /\ Spared) \/ Asked(q)
    <2> DEFINE jobs == Jobs(conf, disabled, tuns, p)
    <2>1. CASE jobs = {}
      BY <1>7, <2>1 DEF PutSocks, Spared
    <2>2. CASE jobs # {}
      <3>1. Ask(r, "sync", NoTag, NoTun, {}, jobs) /\ listen' = p
        BY <1>7, <2>2 DEF PutSocks
      <3>2. q.pc = "apply" /\ q.kind = "sync" /\ q.jobs = Jobs(conf, disabled, tuns, listen')
        BY <3>1, AskReq
      <3> HIDE DEF q
      <3> QED BY <1>7, <3>2 DEF PutSocks, Asked
    <2> QED BY <2>1, <2>2
  <1> QED BY <1>1, <1>2, <1>3, <1>4, <1>5, <1>6, <1>7 DEF Asks

(* One that has not loaded yet is as it was, or has just come.             *)
LEMMA ApplyCases ==
  ASSUME TypeInv, [Next]_vars, NEW p \in Requests, req'[p].pc = "apply"
  PROVE  \/ req'[p] = req[p]
         \/ /\ Asks(p) /\ Asked(req'[p]) /\ req'[p].dis = disabled /\ pending' = pending
            /\ conf' = conf /\ disabled' = disabled /\ Others(p)
  <1>1. req'[p].pc \notin Writing \cup {"save"}
    BY DEF Writing
  <1>2. ~Apply(p) /\ ~SyncEntry(p)
    <2>1. ASSUME Apply(p) PROVE FALSE
      BY <1>1, <2>1, ApplyFacts, OneChanges DEF Writing
    <2>2. ASSUME SyncEntry(p) PROVE FALSE
      <3>1. PICK j \in req[p].jobs : /\ Becomes(p, Worked(req[p], j)) /\ Worked(req[p], j) \in Handlers
                                     /\ Worked(req[p], j).pc \in {"inbounds", "jobs"}
        BY <2>2, SyncEntryFacts
      <3> QED BY <1>1, <3>1, OneChanges DEF Writing
    <2> QED BY <2>1, <2>2
  <1>3. ~WriteSB(p) /\ ~RestartSingBox(p)
    <2>1. ASSUME WriteSB(p) PROVE FALSE
      <3>1. PICK next \in {"outbounds", "route", "restart"} :
              /\ Becomes(p, At(req[p], next)) /\ At(req[p], next) \in Handlers /\ At(req[p], next).pc = next
        BY <2>1, WriteFacts
      <3> QED BY <1>1, <3>1, OneChanges DEF Writing
    <2>2. ASSUME RestartSingBox(p) PROVE FALSE
      <3>1. \/ Becomes(p, At(req[p], "save")) /\ At(req[p], "save") \in Handlers /\ At(req[p], "save").pc = "save"
            \/ Becomes(p, Free)
        BY <2>2, RestartFacts
      <3> QED BY <1>1, <3>1, OneChanges, FreeFacts
    <2> QED BY <2>1, <2>2
  <1>4. req'[p] = req[p] \/ Asks(p)
    BY <1>2, <1>3, StepOf, FreeFacts
  <1>5. CASE Asks(p) /\ req'[p] # req[p]
    <2>1. Asked(req'[p]) /\ conf' = conf /\ disabled' = disabled /\ ~Postponed
      BY <1>5, AsksFacts, AskedFacts DEF Postponed
    <2>2. PICK q : Started(p, q)
      BY <1>5, <2>1, AsksFacts
    <2>3. req'[p] = q /\ Others(p)
      BY <2>2, OneChanges DEF Started
    <2> QED BY <1>5, <2>1, <2>2, <2>3 DEF Started
  <1> QED BY <1>4, <1>5

-----------------------------------------------------------------------------
(* Users follow their entry.                                               *)

(* All that outboundOf finds for an entry is on the tunnel of its shared   *)
(* outbound.                                                               *)
LEMMA SharedTunnel ==
  ASSUME NEW c \in Confs, Linked(c), Follow(c.obs), NEW t, Ps(t) \in DOMAIN c.obs,
         OutboundOf(c.rules, t) \in DOMAIN c.obs
  PROVE  c.obs[Ps(t)].tun = c.obs[OutboundOf(c.rules, t)].tun
  <1> DEFINE o == OutboundOf(c.rules, t)
  <1>1. c.rules \in Seq(Rules) /\ o # Direct
    BY ConfFacts, ObTagFacts
  <1>2. PICK x \in ToSet(c.rules) : x.inb = t /\ o = x.ob
    BY <1>1, OutboundOfFacts
  <1> HIDE DEF o
  <1>3. RuleSound(x)
    BY LinkedFacts
  <1>4. CASE x.user # NoUser
    <2>1. o = Psu(t, x.user)
      BY <1>2, <1>3, <1>4 DEF RuleSound
    <2>2. IsSocks(o) /\ o[2] = t
      BY <2>1, TagFacts
    <2> QED BY <2>2, FollowFacts DEF o
  <1>5. CASE x.user = NoUser
    <2>1. PICK y \in ToSet(c.rules) : y.ob = Ps(t)
      BY LinkedFacts, TagFacts
    <2>2. y.inb = t /\ y.user = NoUser
      BY <2>1, LinkedFacts, RuleSoundFacts DEF IsPlain
    <2>3. x.ob = y.ob
      BY <1>2, <1>5, <2>2, LinkedFacts
    <2> QED BY <1>2, <2>1, <2>3 DEF o
  <1> QED BY <1>4, <1>5

(* Every change keeps users on the tunnel of their entry, a batch if its   *)
(* tunnel is that of the entry still.                                      *)
LEMMA ChangedFollow ==
  ASSUME TypeInv, Follow(conf.obs), NEW q \in Handlers, HandlerOK(q), q.pc = "apply", Accepts(q),
         q.kind = "batch" => (Ps(q.tag) \in DOMAIN conf.obs => conf.obs[Ps(q.tag)].tun = q.tun)
  PROVE  Follow(Changed(q).obs)
  <1> DEFINE c == Base(q)
             d == Changed(q)
  <1>1. Same(c) /\ Edited(q, c, d)
    BY ChangedCases
  <1> HIDE DEF c, d
  <1>2. c \in Confs /\ c.obs = conf.obs /\ Follow(c.obs) /\ q.ids \in SUBSET Users /\ listen \in Ports
    BY <1>1 DEF Same, Handlers, TypeInv
  <1>3. CASE d = c
    BY <1>2, <1>3 DEF d
  <1>4. CASE Target(q, c) /\ d = Attach(c, q.tag, q.tun, listen)
    BY <1>2, <1>4, AttachFollow DEF d, Target
  <1>5. CASE d = Detach(c, q.tag)
    <2>1. DOMAIN d.obs \subseteq DOMAIN c.obs /\ \A o \in DOMAIN d.obs : d.obs[o] = c.obs[o]
      BY <1>2, <1>5, DetachFacts
    <2> QED BY <1>2, <2>1, LessFollow DEF d
  <1>6. CASE d = Strip(c, tuns, q.tun)
    <2>1. DOMAIN d.obs \subseteq DOMAIN c.obs /\ \A o \in DOMAIN d.obs : d.obs[o] = c.obs[o]
      BY <1>2, <1>6, StripFacts
    <2> QED BY <1>2, <2>1, LessFollow DEF d
  <1>7. CASE q.kind = "batch" /\ Target(q, c) /\ d = AttachUsers(c, q.tag, q.tun, q.ids, listen)
    BY <1>2, <1>7, UsersFollowShared DEF d, Target
  <1> QED BY <1>1, <1>3, <1>4, <1>5, <1>6, <1>7 DEF Edited, d

(* Users follow at the start.                                              *)
LEMMA FollowInit == Init => FollowInv
  <1>1. Init => \A c \in Starts : Follow(c.obs)
    BY StartsAssumption
  <1>2. Init => conf \in Starts /\ \A r \in Requests : req[r] = Free
    BY StartFacts
  <1> QED BY <1>1, <1>2, FreeFacts DEF FollowInv, Writing

(* Taking turns, the one at work sees the files only itself changes.       *)
LEMMA TurnsConf ==
  ASSUME TypeInv, Turns, CalmInv, [Next]_vars, NEW p \in Requests, req[p].pc # "idle", ~WriteSB(p)
  PROVE  conf' = conf
  <1>1. ASSUME NEW r \in Requests, WriteSB(r) PROVE r = p
    <2>1. req[r].pc # "idle"
      BY <1>1, WriteFacts DEF Writing
    <2> QED BY <2>1 DEF CalmInv, Alone
  <1> QED BY <1>1, ConfCases

(* They follow after every step: when requests take turns, a batch's       *)
(* tunnel is not outdated.                                                 *)
LEMMA FollowStep ==
  ASSUME TypeInv, Turns, CalmInv, LinkInv, FollowInv, [Next]_vars
  PROVE  FollowInv'
  <1>1. Follow(conf'.obs)
    <2>1. ASSUME NEW r \in Requests, WriteSB(r) PROVE Follow(conf'.obs)
      <3>1. req[r].pc \in Writing /\ (conf'.obs = conf.obs \/ conf'.obs = req[r].new.obs)
        BY <2>1, WriteFacts
      <3> QED BY <3>1 DEF FollowInv
    <2> QED BY <2>1, ConfCases DEF FollowInv
  <1>2. ASSUME NEW p \in Requests, req'[p].pc \in Writing PROVE Follow(req'[p].new.obs)
    <2>1. CASE req[p].pc \in Writing /\ req'[p].new = req[p].new
      BY <2>1 DEF FollowInv
    <2>2. CASE Apply(p) /\ req'[p] = Applied(req[p])
      <3>1. /\ req'[p].new = Changed(req[p]) /\ req[p].pc = "apply" /\ Accepts(req[p])
            /\ req[p] \in Handlers /\ HandlerOK(req[p])
        BY <2>2, ApplyFacts, ReqFacts
      <3> QED BY <3>1, ChangedFollow DEF FollowInv
    <2>3. CASE SyncEntry(p) /\ \E j \in req[p].jobs : req'[p] = Worked(req[p], j)
      <3>1. PICK j \in req[p].jobs : /\ j.tag \in Tags /\ j.tun \in Tunnels
                                     /\ Becomes(p, Worked(req[p], j)) /\ Worked(req[p], j) \in Handlers
                                     /\ Worked(req[p], j).new = Attach(req[p].new, j.tag, j.tun, listen)
        BY <2>3, SyncEntryFacts
      <3>2. req'[p].new = Attach(req[p].new, j.tag, j.tun, listen)
        BY <3>1, OneChanges
      <3>3. req[p].new \in Confs /\ Follow(req[p].new.obs) /\ listen \in Ports
        BY <2>3, SyncEntryFacts DEF FollowInv, Writing, TypeInv
      <3> QED BY <3>1, <3>2, <3>3, AttachFollow
    <2> QED BY <1>2, <2>1, <2>2, <2>3, NewCases
  <1>3. ASSUME NEW p \in Requests, req'[p].pc = "apply", req'[p].kind = "batch", Ps(req'[p].tag) \in DOMAIN conf'.obs
        PROVE  conf'.obs[Ps(req'[p].tag)].tun = req'[p].tun
    <2>1. CASE req'[p] = req[p]
      <3>1. req[p].pc # "idle" /\ ~WriteSB(p)
        BY <1>3, <2>1, WriteFacts DEF Writing
      <3>2. conf' = conf
        BY <3>1, TurnsConf
      <3> QED BY <1>3, <2>1, <3>2 DEF FollowInv
    <2>2. CASE Asks(p) /\ Asked(req'[p])
      <3>1. conf' = conf /\ Resting /\ Asked(req'[p])
        BY <2>2, AsksFacts
      <3> DEFINE o == OutboundOf(conf.rules, req'[p].tag)
      <3>2. o \in DOMAIN conf.obs /\ req'[p].tun = conf.obs[o].tun
        BY <1>3, <3>1, OutboundTunnelFacts DEF Asked
      <3>3. Linked(conf) /\ Follow(conf.obs) /\ conf \in Confs
        BY <3>1 DEF LinkInv, FollowInv, Resting, TypeInv
      <3> QED BY <1>3, <3>1, <3>2, <3>3, SharedTunnel
    <2> QED BY <1>3, <2>1, <2>2, ApplyCases
  <1>4. \A p \in Requests :
          /\ (req[p].pc \in Writing => Follow(req[p].new.obs))'
          /\ (req[p].pc = "apply" /\ req[p].kind = "batch" =>
                (Ps(req[p].tag) \in DOMAIN conf.obs => conf.obs[Ps(req[p].tag)].tun = req[p].tun))'
    BY <1>2, <1>3
  <1> QED BY <1>1, <1>4 DEF FollowInv

(* Between requests the users of an entry are on the tunnel of its shared  *)
(* outbound, if the operator takes one thing at a time.                    *)
THEOREM UsersAlwaysFollow ==
  ASSUME Turns, Intact
  PROVE  Spec => []UsersFollow
  <1> DEFINE Inv == TypeInv /\ CalmInv /\ LinkInv /\ FollowInv
  <1>1. Init => Inv
    BY TypeInit, CalmInit, LinkInit, FollowInit DEF Uncut
  <1>2. Inv /\ [Next]_vars => Inv'
    BY TypeStep, CalmStep, LinkStep, FollowStep DEF Uncut
  <1>3. Inv => UsersFollow
    BY DEF FollowInv, UsersFollow
  <1> QED BY <1>1, <1>2, <1>3, PTL DEF Spec

-----------------------------------------------------------------------------
(* The two lists of inbounds.                                              *)

(* Only saveDisabled changes the list of disabled inbounds.                *)
LEMMA DisabledCases ==
  ASSUME TypeInv, [Next]_vars
  PROVE  disabled' = disabled \/ \E r \in Requests : SaveDisabled(r)
  <1>1. ASSUME NEW r \in Requests,
               \/ Asks(r) \/ Apply(r) \/ SyncEntry(r) \/ Refuse(r) \/ WriteSB(r) \/ RestartSingBox(r) \/ RestartFails(r)
               \/ WriteFails(r)
        PROVE  disabled' = disabled
    BY <1>1, AsksFacts, ApplyFacts, SyncEntryFacts, RefuseFacts, WriteFacts, RestartFacts, FailsFacts, WriteFailsFacts
       DEF Steady
  <1>2. RestartProxy \/ Kill => disabled' = disabled
    BY ProxyEndsFacts DEF RestartProxy, Kill
  <1>3. UNCHANGED vars => disabled' = disabled
    BY DEF vars
  <1> QED BY <1>1, <1>2, <1>3, NextCases

(* So nobody changes it under a handler at work.                           *)
LEMMA TurnsDisabled ==
  ASSUME TypeInv, Turns, CalmInv, [Next]_vars, NEW p \in Requests, req[p].pc # "idle", req[p].pc # "save" \/ req'[p].pc # "idle"
  PROVE  disabled' = disabled
  <1>1. ASSUME NEW r \in Requests, SaveDisabled(r) PROVE FALSE
    <2>1. req[r].pc = "save" /\ Becomes(r, Free)
      BY <1>1, SaveFacts
    <2>2. r = p
      BY <2>1 DEF CalmInv, Alone
    <2>3. req'[p].pc = "idle"
      BY <2>1, <2>2, FreeFacts, OneChanges
    <2> QED BY <2>1, <2>2, <2>3
  <1> QED BY <1>1, DisabledCases

(* There are no copies at the start.                                       *)
LEMMA CopyInit == Init => CopyInv
  BY StartFacts, FreeFacts DEF CopyInv, Writing

(* When requests take turns, a copy is as good as the list.                *)
LEMMA CopyStep ==
  ASSUME TypeInv, Turns, CalmInv, CopyInv, [Next]_vars
  PROVE  CopyInv'
  <1>1. ASSUME NEW p \in Requests, req'[p].pc = "apply" PROVE req'[p].dis = disabled'
    <2>1. CASE req'[p] = req[p]
      <3>1. disabled' = disabled
        BY <1>1, <2>1, TurnsDisabled
      <3> QED BY <1>1, <2>1, <3>1 DEF CopyInv
    <2> QED BY <1>1, <2>1, ApplyCases
  <1>2. ASSUME NEW p \in Requests, req'[p].pc \in Writing, req'[p].kind \notin Saves PROVE req'[p].dis = disabled'
    <2>1. CASE req[p].pc \in Writing /\ req'[p].kind = req[p].kind /\ req'[p].dis = req[p].dis
      <3>1. disabled' = disabled
        BY <2>1, TurnsDisabled DEF Writing
      <3> QED BY <1>2, <2>1, <3>1 DEF CopyInv
    <2>2. CASE Apply(p) /\ req'[p] = Applied(req[p])
      <3>1. /\ req'[p].dis = ChangedDisabled(req[p]) /\ req'[p].kind = req[p].kind /\ disabled' = disabled
            /\ req[p].pc = "apply" /\ Accepts(req[p]) /\ req[p] \in Handlers /\ HandlerOK(req[p])
        BY <2>2, ApplyFacts, ReqFacts DEF Steady
      <3>2. ChangedDisabled(req[p]) = req[p].dis
        BY <1>2, <3>1, ChangedCases
      <3> QED BY <3>1, <3>2 DEF CopyInv
    <2>3. CASE SyncEntry(p) /\ \E j \in req[p].jobs : req'[p] = Worked(req[p], j)
      <3>1. PICK j \in req[p].jobs : /\ Becomes(p, Worked(req[p], j)) /\ Worked(req[p], j) \in Handlers
                                     /\ Worked(req[p], j).dis = req[p].dis
        BY <2>3, SyncEntryFacts
      <3>2. req'[p].dis = req[p].dis /\ disabled' = disabled
        BY <2>3, <3>1, OneChanges, SyncEntryFacts DEF Steady
      <3>3. req[p].pc \in Writing /\ req[p].kind \notin Saves
        BY <2>3, SyncEntryFacts DEF Writing, Saves
      <3> QED BY <3>2, <3>3 DEF CopyInv
    <2> QED BY <1>2, <2>1, <2>2, <2>3, NewCases
  <1>3. ASSUME NEW p \in Requests, req'[p].pc = "save" PROVE conf' = req'[p].new
    <2>1. /\ req[p].pc \in Writing \cup {"save"} /\ req'[p].new = req[p].new
      <3>1. ASSUME Apply(p), req'[p] = Applied(req[p]) PROVE FALSE
        BY <1>3, <3>1, ApplyFacts
      <3>2. ASSUME SyncEntry(p) PROVE FALSE
        <4>1. PICK j \in req[p].jobs : /\ Becomes(p, Worked(req[p], j)) /\ Worked(req[p], j) \in Handlers
                                       /\ Worked(req[p], j).pc \in {"inbounds", "jobs"}
          BY <3>2, SyncEntryFacts
        <4> QED BY <1>3, <4>1, OneChanges
      <3> QED BY <1>3, <3>1, <3>2, NewCases
    <2>2. CASE WriteSB(p)
      <3>1. PICK next \in {"outbounds", "route", "restart"} :
              /\ Becomes(p, At(req[p], next)) /\ At(req[p], next) \in Handlers /\ At(req[p], next).pc = next
        BY <2>2, WriteFacts
      <3> QED BY <1>3, <3>1, OneChanges
    <2>3. CASE ~WriteSB(p)
      <3>1. conf' = conf
        BY <2>1, <2>3, TurnsConf DEF Writing
      <3>2. CASE req[p].pc = "save"
        BY <2>1, <3>1, <3>2 DEF CopyInv
      <3>3. CASE req[p].pc # "save"
        <4>1. RestartSingBox(p)
          <5>1. ~SyncEntry(p)
            <6>1. ASSUME SyncEntry(p) PROVE FALSE
              <7>1. PICK j \in req[p].jobs : /\ Becomes(p, Worked(req[p], j)) /\ Worked(req[p], j) \in Handlers
                                             /\ Worked(req[p], j).pc \in {"inbounds", "jobs"}
                BY <6>1, SyncEntryFacts
              <7> QED BY <1>3, <7>1, OneChanges
            <6> QED BY <6>1
          <5> QED BY <1>3, <2>1, <2>3, <3>3, <5>1, StepOf, FreeFacts, AsksFacts, ApplyFacts DEF Writing
        <4> QED BY <2>1, <3>1, <4>1, RestartFacts
      <3> QED BY <3>2, <3>3
    <2> QED BY <2>2, <2>3
  <1>4. \A p \in Requests :
          /\ (req[p].pc = "apply" => req[p].dis = disabled)'
          /\ (req[p].pc \in Writing /\ req[p].kind \notin Saves => req[p].dis = disabled)'
          /\ (req[p].pc = "save" => conf = req[p].new)'
    BY <1>1, <1>2, <1>3
  <1> QED BY <1>4 DEF CopyInv

(* Neither the list on disk nor a copy loses an inbound.                   *)
LEMMA KeepInit == Init => KeepInv
  BY StartFacts, FreeFacts DEF KeepInv, Writing

(* What a handler is about to write keeps the inbounds there are.          *)
LEMMA KeepStep ==
  ASSUME TypeInv, Turns, CalmInv, CopyInv, KeepInv, [Next]_vars
  PROVE  KeepInv'
  <1>1. ASSUME NEW p \in Requests, req'[p].pc \in Writing \cup {"save"}
        PROVE  Homes(conf', disabled') \subseteq
                 Homes(req'[p].new, req'[p].dis) \cup (IF req'[p].kind = "delete" THEN {req'[p].tag} ELSE {})
    <2>1. CASE /\ req[p].pc \in Writing \cup {"save"} /\ req'[p].new = req[p].new /\ req'[p].dis = req[p].dis
               /\ req'[p].kind = req[p].kind /\ req'[p].tag = req[p].tag
      <3>1. req[p].pc # "idle" /\ req'[p].pc # "idle"
        BY <1>1, <2>1 DEF Writing
      <3>2. disabled' = disabled
        BY <3>1, TurnsDisabled
      <3>3. conf'.inb = conf.inb \/ conf'.inb = req[p].new.inb
        <4>1. CASE WriteSB(p)
          BY <4>1, WriteFacts
        <4>2. CASE ~WriteSB(p)
          BY <3>1, <4>2, TurnsConf
        <4> QED BY <4>1, <4>2
      <3>4. Homes(conf', disabled') \subseteq Homes(conf, disabled) \cup Homes(req[p].new, req[p].dis)
        BY <3>2, <3>3 DEF Homes
      <3> QED BY <2>1, <3>4 DEF KeepInv
    <2>2. CASE Apply(p) /\ req'[p] = Applied(req[p])
      <3>1. /\ req'[p].dis = ChangedDisabled(req[p]) /\ req'[p].new = Changed(req[p])
            /\ req'[p].kind = req[p].kind /\ req'[p].tag = req[p].tag /\ disabled' = disabled /\ conf' = conf
            /\ req[p].pc = "apply" /\ Accepts(req[p]) /\ req[p] \in Handlers /\ HandlerOK(req[p])
        BY <2>2, ApplyFacts, ReqFacts DEF Steady
      <3>2. req[p].dis = disabled
        BY <3>1 DEF CopyInv
      <3>3. Homes(conf, req[p].dis) \subseteq Homes(Changed(req[p]), ChangedDisabled(req[p])) \cup Lost(req[p])
        BY <3>1, ChangedFacts
      <3> QED BY <3>1, <3>2, <3>3 DEF Lost
    <2>3. CASE SyncEntry(p) /\ \E j \in req[p].jobs : req'[p] = Worked(req[p], j)
      <3>1. PICK j \in req[p].jobs : /\ j.tag \in Tags /\ j.tun \in Tunnels
                                     /\ Becomes(p, Worked(req[p], j)) /\ Worked(req[p], j) \in Handlers
                                     /\ Worked(req[p], j).dis = req[p].dis /\ Worked(req[p], j).kind = req[p].kind
                                     /\ Worked(req[p], j).tag = req[p].tag
                                     /\ Worked(req[p], j).new = Attach(req[p].new, j.tag, j.tun, listen)
        BY <2>3, SyncEntryFacts
      <3>2. req'[p] = Worked(req[p], j)
        BY <3>1, OneChanges
      <3>3. /\ disabled' = disabled /\ conf' = conf /\ req[p].pc \in Writing /\ req[p].new \in Confs /\ listen \in Ports
            /\ req[p].kind # "delete"
        BY <2>3, SyncEntryFacts DEF Steady, Writing, TypeInv
      <3>4. Attach(req[p].new, j.tag, j.tun, listen).inb = req[p].new.inb
        BY <3>1, <3>3, AttachFacts
      <3> QED BY <3>1, <3>2, <3>3, <3>4 DEF KeepInv, Homes
    <2> QED BY <1>1, <2>1, <2>2, <2>3, NewCases
  <1>2. \A p \in Requests :
          (req[p].pc \in Writing \cup {"save"} =>
             Homes(conf, disabled) \subseteq
               Homes(req[p].new, req[p].dis) \cup (IF req[p].kind = "delete" THEN {req[p].tag} ELSE {}))'
    BY <1>1
  <1> QED BY <1>2 DEF KeepInv

(* A configuration there is, or not yet.                                   *)
LEMMA NewFacts ==
  ASSUME TypeInv, NEW p \in Requests
  PROVE  req[p].new # <<>> <=> req[p].pc \in Writing \cup {"save"}
  <1>1. \A c \in Confs : DOMAIN c # DOMAIN <<>>
    BY DEF Confs
  <1>2. req[p].new \in Confs => req[p].new # <<>>
    BY <1>1
  <1>3. req[p] \in Handlers /\ HandlerOK(req[p])
    BY ReqFacts
  <1>4. req[p].pc = "idle" => req[p].new = <<>>
    BY <1>3, FreeFacts DEF HandlerOK
  <1> QED BY <1>2, <1>3, <1>4 DEF HandlerOK, Handlers

(* Kept, by where an inbound may be.                                       *)
LEMMA KeptFacts ==
  ASSUME TypeInv, NEW t
  PROVE  t \in Kept <=> \/ t \in Homes(conf, disabled)
                        \/ \E p \in Requests : req[p].pc \in Writing \cup {"save"} /\ t \in Homes(req[p].new, req[p].dis)
  <1>1. \A p \in Requests : req[p].new # <<>> <=> req[p].pc \in Writing \cup {"save"}
    BY NewFacts
  <1> QED BY <1>1 DEF Kept, Homes

(* No step loses an inbound other than the one to be deleted: either the   *)
(* files have it, or a handler that will write it.                         *)
LEMMA LostStep ==
  ASSUME TypeInv, Turns, CalmInv, CopyInv, KeepInv, [Next]_vars, "restart" \notin Faults, NEW t \in Kept
  PROVE  t \in Kept' \/ \E r \in Requests : req[r].kind = "delete" /\ req[r].tag = t
  <1> SUFFICES ASSUME ~\E r \in Requests : req[r].kind = "delete" /\ req[r].tag = t
               PROVE  t \in Kept'
    OBVIOUS
  <1>1. TypeInv'
    BY TypeStep
  <1>2. ASSUME \/ t \in Homes(conf', disabled')
               \/ \E p \in Requests : req'[p].pc \in Writing \cup {"save"} /\ t \in Homes(req'[p].new, req'[p].dis)
        PROVE  t \in Kept'
    <2>1. (t \in Kept <=> \/ t \in Homes(conf, disabled)
                          \/ \E p \in Requests : req[p].pc \in Writing \cup {"save"} /\ t \in Homes(req[p].new, req[p].dis))'
      BY <1>1, KeptFacts, PTL
    <2> QED BY <1>2, <2>1
  <1>3. ASSUME NEW p \in Requests, req[p].pc \in Writing \cup {"save"}, t \in Homes(conf, disabled)
        PROVE  t \in Homes(req[p].new, req[p].dis)
    BY <1>3 DEF KeepInv
  <1>4. ASSUME NEW p \in Requests, WriteSB(p), t \in Homes(req[p].new, req[p].dis) PROVE t \in Kept'
    <2>1. PICK next \in {"outbounds", "route", "restart"} :
            /\ Becomes(p, At(req[p], next)) /\ At(req[p], next) \in Handlers /\ At(req[p], next).pc = next
            /\ At(req[p], next).new = req[p].new /\ At(req[p], next).dis = req[p].dis
      BY <1>4, WriteFacts
    <2>2. req'[p].pc \in Writing /\ req'[p].new = req[p].new /\ req'[p].dis = req[p].dis
      BY <2>1, OneChanges DEF Writing
    <2> QED BY <1>2, <1>4, <2>2
  <1>5. ASSUME NEW p \in Requests, SaveDisabled(p), t \in Homes(req[p].new, req[p].dis) PROVE t \in Kept'
    <2>1. conf' = req[p].new /\ disabled' = req[p].dis
      BY <1>5, SaveFacts DEF CopyInv
    <2> QED BY <1>2, <1>5, <2>1
  <1>6. CASE t \in Homes(conf, disabled)
    <2>1. CASE \E p \in Requests : WriteSB(p)
      BY <1>3, <1>4, <1>6, <2>1, WriteFacts
    <2>2. CASE \E p \in Requests : SaveDisabled(p)
      BY <1>3, <1>5, <1>6, <2>2, SaveFacts
    <2>3. CASE conf' = conf /\ disabled' = disabled
      BY <1>2, <1>6, <2>3
    <2> QED BY <2>1, <2>2, <2>3, ConfCases, DisabledCases
  <1>7. ASSUME NEW p \in Requests, req[p].pc \in Writing \cup {"save"}, t \in Homes(req[p].new, req[p].dis)
        PROVE  t \in Kept'
    <2>1. CASE req'[p] = req[p]
      BY <1>2, <1>7, <2>1
    <2>2. CASE SaveDisabled(p)
      BY <1>5, <1>7, <2>2
    <2>3. CASE WriteSB(p)
      BY <1>4, <1>7, <2>3
    <2>4. CASE SyncEntry(p)
      <3>1. PICK j \in req[p].jobs : /\ j.tag \in Tags /\ j.tun \in Tunnels
                                     /\ Becomes(p, Worked(req[p], j)) /\ Worked(req[p], j) \in Handlers
                                     /\ Worked(req[p], j).pc \in {"inbounds", "jobs"}
                                     /\ Worked(req[p], j).dis = req[p].dis
                                     /\ Worked(req[p], j).new = Attach(req[p].new, j.tag, j.tun, listen)
        BY <2>4, SyncEntryFacts
      <3>2. req'[p] = Worked(req[p], j)
        BY <3>1, OneChanges
      <3>3. req[p].new \in Confs /\ listen \in Ports
        BY <2>4, SyncEntryFacts DEF TypeInv
      <3>4. Attach(req[p].new, j.tag, j.tun, listen).inb = req[p].new.inb
        BY <3>1, <3>3, AttachFacts
      <3>5. t \in Homes(req'[p].new, req'[p].dis) /\ req'[p].pc \in Writing
        BY <1>7, <3>1, <3>2, <3>4 DEF Homes, Writing
      <3> QED BY <1>2, <3>5
    <2>5. CASE RestartSingBox(p)
      <3>1. /\ req[p].pc = "restart" /\ conf' = conf /\ disabled' = disabled /\ conf = req[p].new
            /\ \/ /\ Becomes(p, At(req[p], "save")) /\ At(req[p], "save") \in Handlers
                  /\ At(req[p], "save").pc = "save"
                  /\ At(req[p], "save").new = req[p].new /\ At(req[p], "save").dis = req[p].dis
               \/ req[p].kind \notin Saves
        BY <2>5, RestartFacts DEF Steady
      <3>2. CASE req[p].kind \notin Saves
        <4>1. req[p].dis = disabled
          BY <3>1, <3>2 DEF CopyInv, Writing
        <4> QED BY <1>2, <1>7, <3>1, <4>1
      <3>3. CASE req[p].kind \in Saves
        <4>1. req'[p].pc = "save" /\ req'[p].new = req[p].new /\ req'[p].dis = req[p].dis
          BY <3>1, <3>3, OneChanges
        <4> QED BY <1>2, <1>7, <4>1
      <3> QED BY <3>2, <3>3
    <2>6. ~Refuse(p) /\ ~RestartFails(p) /\ ~WriteFails(p) /\ ~RestartProxy /\ ~Kill /\ ~Asks(p) /\ ~Apply(p)
      BY <1>7, Whole, RefuseFacts, FailsFacts, CalmRestart, AsksFacts, ApplyFacts DEF Writing, Resting
    <2> QED BY <2>1, <2>2, <2>3, <2>4, <2>5, <2>6, StepOf
  <1> QED BY <1>6, <1>7, KeptFacts

(* No inbound is lost but the one the operator deletes, if he takes one    *)
(* thing at a time and sing-box restarts when told to: disabling one, and  *)
(* taking its tunnel away, move it between the lists.                      *)
THEOREM NothingLost ==
  ASSUME Turns, Intact, "restart" \notin Faults
  PROVE  Spec => NeverLost
  <1> DEFINE Inv == TypeInv /\ CalmInv /\ CopyInv /\ KeepInv
  <1>1. Init => Inv
    BY TypeInit, CalmInit, CopyInit, KeepInit DEF Uncut
  <1>2. Inv /\ [Next]_vars => Inv'
    BY TypeStep, CalmStep, CopyStep, KeepStep DEF Uncut
  <1>3. Inv /\ [Next]_vars => [\A t \in Kept \ Kept' : \E r \in Requests : req[r].kind = "delete" /\ req[r].tag = t]_vars
    BY LostStep
  <1> QED BY <1>1, <1>2, <1>3, PTL DEF Spec, NeverLost

-----------------------------------------------------------------------------
(* Every outbound belongs to an inbound of one of the lists.               *)

(* Owned, by the outbounds.                                                *)
LEMMA OwnedFacts ==
  ASSUME NEW c, NEW dis
  PROVE  Owned(c, dis) <=> \A o \in DOMAIN c.obs : IsSocks(o) => o[2] \in Homes(c, dis)
  BY DEF Owned, Homes, Socks

(* A change leaves no outbound without an inbound, if its copy of the      *)
(* disabled inbounds is right.                                             *)
LEMMA ChangedOwned ==
  ASSUME TypeInv, NEW q \in Handlers, HandlerOK(q), q.pc = "apply", Accepts(q), Owned(conf, q.dis)
  PROVE  Owned(Changed(q), ChangedDisabled(q))
  <1> DEFINE c == Base(q)
             d == Changed(q)
             dis == ChangedDisabled(q)
  <1>1. Same(c) /\ Edited(q, c, d) /\ Homes(conf, q.dis) \subseteq Homes(d, dis) \cup Lost(q)
    BY ChangedCases, ChangedFacts
  <1> HIDE DEF c, d, dis
  <1>2. c \in Confs /\ c.obs = conf.obs /\ q.ids \in SUBSET Users /\ listen \in Ports
    BY <1>1 DEF Same, Handlers, TypeInv
  <1>3. SUFFICES ASSUME NEW o \in DOMAIN d.obs, IsSocks(o) PROVE o[2] \in Homes(d, dis)
    BY OwnedFacts DEF d, dis
  <1>4. o \in DOMAIN conf.obs => o[2] \in Homes(d, dis) \cup Lost(q)
    BY <1>1, <1>3, OwnedFacts
  <1>5. q.kind # "delete" => Lost(q) = {}
    BY DEF Lost
  <1>6. CASE d = c /\ q.kind # "delete"
    BY <1>2, <1>3, <1>4, <1>5, <1>6
  <1>7. CASE q.kind # "delete" /\ Target(q, c) /\ d = Attach(c, q.tag, q.tun, listen)
    <2>1. DOMAIN d.obs \subseteq DOMAIN c.obs \cup {Ps(q.tag)} /\ d.inb = c.inb
      BY <1>2, <1>7, AttachFacts DEF Target
    <2>2. q.tag \in Homes(d, dis)
      BY <1>7, <2>1 DEF Target, Homes
    <2> QED BY <1>2, <1>3, <1>4, <1>5, <1>7, <2>1, <2>2, TagFacts
  <1>8. CASE d = Detach(c, q.tag)
    <2>1. o \in DOMAIN c.obs /\ o[2] # q.tag
      BY <1>2, <1>3, <1>8, DetachFacts
    <2> QED BY <1>2, <1>4, <2>1 DEF Lost
  <1>9. CASE q.kind = "strip" /\ d = Strip(c, tuns, q.tun)
    <2>1. o \in DOMAIN c.obs
      BY <1>2, <1>3, <1>9, StripFacts
    <2> QED BY <1>2, <1>4, <1>5, <1>9, <2>1
  <1>10. CASE q.kind = "batch" /\ Target(q, c) /\ d = AttachUsers(c, q.tag, q.tun, q.ids, listen)
    <2>1. DOMAIN d.obs = DOMAIN c.obs \cup NewObs(q.tag, q.ids) /\ d.inb = c.inb
      <3> DEFINE e == AttachUsers(c, q.tag, q.tun, q.ids, listen)
      <3>1. q.tag \in Tags /\ q.tun \in Tunnels
        BY <1>10 DEF Target
      <3>2. e.inb = c.inb
        BY <1>2 DEF AttachUsers, Confs
      <3>3. DOMAIN e.obs = DOMAIN c.obs \cup NewObs(q.tag, q.ids)
        BY <1>2, <3>1, AttachUsersFacts
      <3> QED BY <1>10, <3>2, <3>3
    <2>2. q.tag \in Homes(d, dis)
      BY <1>10, <2>1 DEF Target, Homes
    <2>3. \A u \in NewObs(q.tag, q.ids) : u[2] = q.tag
      BY TagFacts DEF NewObs
    <2> QED BY <1>2, <1>3, <1>4, <1>5, <1>10, <2>1, <2>2, <2>3
  <1> QED BY <1>1, <1>6, <1>7, <1>8, <1>9, <1>10 DEF Edited

(* Nor does binding an entry of one of the lists.                          *)
LEMMA AttachOwned ==
  ASSUME NEW c \in Confs, NEW t \in Tags, NEW n \in Tunnels, NEW port \in Ports, NEW dis,
         Owned(c, dis), t \in Homes(c, dis)
  PROVE  Owned(Attach(c, t, n, port), dis) /\ Homes(Attach(c, t, n, port), dis) = Homes(c, dis)
  <1> DEFINE d == Attach(c, t, n, port)
  <1>1. DOMAIN d.obs \subseteq DOMAIN c.obs \cup {Ps(t)} /\ d.inb = c.inb
    BY AttachFacts
  <1> HIDE DEF d
  <1>2. Homes(d, dis) = Homes(c, dis)
    BY <1>1 DEF Homes
  <1>3. \A o \in DOMAIN d.obs : IsSocks(o) => o[2] \in Homes(d, dis)
    BY <1>1, <1>2, OwnedFacts, TagFacts
  <1> QED BY <1>2, <1>3, OwnedFacts DEF d

(* Outbounds have their inbounds at the start.                             *)
LEMMA OwnInit == Init => OwnInv
  <1>1. Init => \A c \in Starts : Owned(c, <<>>)
    BY StartsAssumption
  <1>2. Init => conf \in Starts /\ disabled = <<>> /\ \A r \in Requests : req[r] = Free
    BY StartFacts
  <1> QED BY <1>1, <1>2, FreeFacts DEF OwnInv, Writing

(* They have them between requests, and in what a handler is about to      *)
(* write.                                                                  *)
LEMMA OwnStep ==
  ASSUME TypeInv, Turns, CalmInv, CopyInv, OwnInv, [Next]_vars, "restart" \notin Faults
  PROVE  OwnInv'
  <1>1. ASSUME \A r \in Requests : req'[r].pc \in {"idle", "apply"} PROVE Owned(conf', disabled')
    <2>1. CASE \A r \in Requests : req[r].pc \in {"idle", "apply"}
      <3>1. \A r \in Requests : ~WriteSB(r) /\ ~SaveDisabled(r)
        BY <2>1, WriteFacts, SaveFacts DEF Writing
      <3>2. conf' = conf /\ disabled' = disabled
        BY <3>1, ConfCases, DisabledCases
      <3> QED BY <2>1, <3>2 DEF OwnInv
    <2>2. CASE \E r \in Requests : req[r].pc \notin {"idle", "apply"}
      <3>1. PICK p \in Requests : req[p].pc \notin {"idle", "apply"}
        BY <2>2
      <3>2. req[p].pc \in Writing \cup {"save"} /\ req'[p].pc \notin Writing \cup {"save"}
        <4>1. req[p] \in Handlers /\ req'[p].pc \in {"idle", "apply"}
          BY <1>1, ReqFacts
        <4> QED BY <3>1, <4>1 DEF Handlers, Writing
      <3>3. CASE SaveDisabled(p)
        <4>1. conf' = req[p].new /\ disabled' = req[p].dis
          BY <3>3, SaveFacts DEF CopyInv
        <4> QED BY <3>2, <4>1 DEF OwnInv
      <3>4. CASE RestartSingBox(p)
        <4>1. /\ req[p].pc = "restart" /\ conf' = conf /\ disabled' = disabled /\ conf = req[p].new
              /\ \/ /\ Becomes(p, At(req[p], "save")) /\ At(req[p], "save") \in Handlers
                    /\ At(req[p], "save").pc = "save"
                 \/ req[p].kind \notin Saves
          BY <3>4, RestartFacts DEF Steady
        <4>2. req[p].kind \notin Saves
          BY <3>2, <4>1, OneChanges
        <4>3. req[p].dis = disabled
          BY <4>1, <4>2 DEF CopyInv, Writing
        <4> QED BY <3>2, <4>1, <4>3 DEF OwnInv
      <3>5. /\ req'[p] # req[p] /\ ~Refuse(p) /\ ~RestartFails(p) /\ ~RestartProxy /\ ~Asks(p) /\ ~Apply(p)
            /\ ~WriteFails(p) /\ ~Kill
        BY <3>1, <3>2, Whole, RefuseFacts, FailsFacts, CalmRestart, AsksFacts, ApplyFacts DEF Resting
      <3>6. ~SyncEntry(p)
        <4>1. ASSUME SyncEntry(p) PROVE FALSE
          <5>1. PICK j \in req[p].jobs : /\ Becomes(p, Worked(req[p], j)) /\ Worked(req[p], j) \in Handlers
                                         /\ Worked(req[p], j).pc \in {"inbounds", "jobs"}
            BY <4>1, SyncEntryFacts
          <5> QED BY <3>2, <5>1, OneChanges DEF Writing
        <4> QED BY <4>1
      <3>7. ~WriteSB(p)
        <4>1. ASSUME WriteSB(p) PROVE FALSE
          <5>1. PICK next \in {"outbounds", "route", "restart"} :
                  /\ Becomes(p, At(req[p], next)) /\ At(req[p], next) \in Handlers /\ At(req[p], next).pc = next
            BY <4>1, WriteFacts
          <5> QED BY <3>2, <5>1, OneChanges DEF Writing
        <4> QED BY <4>1
      <3> QED BY <3>3, <3>4, <3>5, <3>6, <3>7, StepOf
    <2> QED BY <2>1, <2>2
  <1>2. ASSUME NEW p \in Requests, req'[p].pc = "apply" PROVE \A j \in req'[p].jobs : j.tag \in Homes(conf', disabled')
    <2>1. CASE req'[p] = req[p]
      <3>1. req[p].pc # "idle" /\ ~WriteSB(p)
        BY <1>2, <2>1, WriteFacts DEF Writing
      <3>2. conf' = conf /\ disabled' = disabled
        BY <1>2, <2>1, <3>1, TurnsConf, TurnsDisabled
      <3> QED BY <1>2, <2>1, <3>2 DEF OwnInv
    <2>2. CASE Asked(req'[p]) /\ conf' = conf /\ disabled' = disabled
      <3>1. \A j \in Jobs(conf, disabled, tuns, listen') : j.tag \in Homes(conf, disabled)
        BY JobsFacts DEF TypeInv
      <3> QED BY <2>2, <3>1 DEF Asked
    <2> QED BY <1>2, <2>1, <2>2, ApplyCases
  <1>3. ASSUME NEW p \in Requests, req'[p].pc \in Writing \cup {"save"}
        PROVE  /\ Owned(req'[p].new, req'[p].dis)
               /\ req'[p].pc = "jobs" => \A j \in req'[p].jobs : j.tag \in Homes(req'[p].new, req'[p].dis)
    <2>1. CASE /\ req[p].pc \in Writing \cup {"save"} /\ req'[p].new = req[p].new /\ req'[p].dis = req[p].dis
               /\ req'[p].jobs = req[p].jobs /\ (req'[p].pc = "jobs" => req[p].pc = "jobs")
      BY <2>1 DEF OwnInv
    <2>2. CASE Apply(p) /\ req'[p] = Applied(req[p])
      <3>1. /\ req'[p].dis = ChangedDisabled(req[p]) /\ req'[p].new = Changed(req[p])
            /\ req'[p].jobs = req[p].jobs /\ req'[p].pc = (IF req[p].kind = "sync" THEN "jobs" ELSE "inbounds")
            /\ req[p].pc = "apply" /\ Accepts(req[p]) /\ req[p] \in Handlers /\ HandlerOK(req[p])
        BY <2>2, ApplyFacts, ReqFacts
      <3>2. req[p].dis = disabled /\ \A r \in Requests : req[r].pc \in {"idle", "apply"}
        BY <3>1 DEF CopyInv, CalmInv, Alone
      <3>3. Owned(conf, req[p].dis) /\ \A j \in req[p].jobs : j.tag \in Homes(conf, disabled)
        BY <3>1, <3>2 DEF OwnInv
      <3>4. Owned(Changed(req[p]), ChangedDisabled(req[p]))
        BY <3>1, <3>3, ChangedOwned
      <3>5. req[p].kind = "sync" => Changed(req[p]) = conf /\ ChangedDisabled(req[p]) = req[p].dis
        BY DEF Changed, ChangedDisabled
      <3> QED BY <3>1, <3>2, <3>3, <3>4, <3>5
    <2>3. CASE SyncEntry(p) /\ \E j \in req[p].jobs : req'[p] = Worked(req[p], j)
      <3>1. PICK j \in req[p].jobs : /\ j.tag \in Tags /\ j.tun \in Tunnels
                                     /\ Becomes(p, Worked(req[p], j)) /\ Worked(req[p], j) \in Handlers
                                     /\ Worked(req[p], j).dis = req[p].dis
                                     /\ Worked(req[p], j).jobs = req[p].jobs \ {j}
                                     /\ Worked(req[p], j).new = Attach(req[p].new, j.tag, j.tun, listen)
        BY <2>3, SyncEntryFacts
      <3>2. req'[p] = Worked(req[p], j)
        BY <3>1, OneChanges
      <3>3. req[p].pc = "jobs" /\ req[p].new \in Confs /\ listen \in Ports
        BY <2>3, SyncEntryFacts DEF TypeInv
      <3>4. Owned(req[p].new, req[p].dis) /\ \A i \in req[p].jobs : i.tag \in Homes(req[p].new, req[p].dis)
        BY <3>3 DEF OwnInv, Writing
      <3>5. /\ Owned(Attach(req[p].new, j.tag, j.tun, listen), req[p].dis)
            /\ Homes(Attach(req[p].new, j.tag, j.tun, listen), req[p].dis) = Homes(req[p].new, req[p].dis)
        BY <3>1, <3>3, <3>4, AttachOwned
      <3> QED BY <3>1, <3>2, <3>4, <3>5
    <2> QED BY <1>3, <2>1, <2>2, <2>3, NewCases
  <1>4. \A p \in Requests :
          /\ (req[p].pc = "apply" => \A j \in req[p].jobs : j.tag \in Homes(conf, disabled))'
          /\ (req[p].pc \in Writing \cup {"save"} => Owned(req[p].new, req[p].dis))'
          /\ (req[p].pc = "jobs" => \A j \in req[p].jobs : j.tag \in Homes(req[p].new, req[p].dis))'
    BY <1>2, <1>3 DEF Writing
  <1>5. ((\A r \in Requests : req[r].pc \in {"idle", "apply"}) => Owned(conf, disabled))'
    BY <1>1
  <1> QED BY <1>4, <1>5 DEF OwnInv

(* At rest nothing dangles, and no account of an entry is left to the idle *)
(* reaper.                                                                 *)
LEMMA RestFacts ==
  ASSUME TypeInv, Resting, Linked(conf), Owned(conf, disabled)
  PROVE  NoDangling /\ EntriesProtected
  <1>1. NoDangling
    <2>1. \A o \in SocksObs : o[2] \in Homes(conf, disabled)
      BY OwnedFacts DEF SocksObs, Socks
    <2> QED BY <2>1, LinkedFacts DEF NoDangling, Homes
  <1>2. ASSUME NEW o \in SocksObs, conf.obs[o].tun \in tuns
        PROVE  o \in EntryAccounts(conf, disabled, tuns)
    <2>1. o \in DOMAIN conf.obs /\ IsSocks(o) /\ o[2] \in Homes(conf, disabled)
      BY <1>2, OwnedFacts DEF SocksObs, Socks
    <2>2. PICK x \in ToSet(conf.rules) : x.ob = o
      BY <2>1, LinkedFacts
    <2>3. x.inb = o[2]
      BY <2>1, <2>2, LinkedFacts, RuleSoundFacts
    <2>4. OutboundOf(conf.rules, o[2]) # Direct
      <3>1. conf.rules \in Seq(Rules)
        BY ConfFacts DEF TypeInv
      <3>2. \A y \in ToSet(conf.rules) : y.ob # Direct
        BY LinkedFacts, RuleSoundFacts
      <3> QED BY <2>3, <3>1, <3>2, OutboundOfFacts
    <2> QED BY <1>2, <2>1, <2>4 DEF EntryAccounts, Homes
  <1> QED BY <1>1, <1>2 DEF EntriesProtected, Protected

(* Between requests every rule leads to an outbound there is and every     *)
(* outbound of the proxy belongs to an inbound of the lists, if the        *)
(* operator takes one thing at a time and sing-box restarts when told to.  *)
THEOREM NothingDangles ==
  ASSUME Turns, Intact, "restart" \notin Faults
  PROVE  Spec => []NoDangling
  <1> DEFINE Inv == TypeInv /\ CalmInv /\ LinkInv /\ CopyInv /\ OwnInv
  <1>1. Init => Inv
    BY TypeInit, CalmInit, LinkInit, CopyInit, OwnInit DEF Uncut
  <1>2. Inv /\ [Next]_vars => Inv'
    BY TypeStep, CalmStep, LinkStep, CopyStep, OwnStep DEF Uncut
  <1>3. Inv => NoDangling
    <2>1. Inv /\ Resting => Linked(conf) /\ Owned(conf, disabled)
      BY DEF Resting, LinkInv, OwnInv
    <2> QED BY <2>1, RestFacts DEF NoDangling
  <1> QED BY <1>1, <1>2, <1>3, PTL DEF Spec

(* Then the idle reaper finds the account of no entry, enabled or not.     *)
THEOREM EntriesAlwaysProtected ==
  ASSUME Turns, Intact, "restart" \notin Faults
  PROVE  Spec => []EntriesProtected
  <1> DEFINE Inv == TypeInv /\ CalmInv /\ LinkInv /\ CopyInv /\ OwnInv
  <1>1. Init => Inv
    BY TypeInit, CalmInit, LinkInit, CopyInit, OwnInit DEF Uncut
  <1>2. Inv /\ [Next]_vars => Inv'
    BY TypeStep, CalmStep, LinkStep, CopyStep, OwnStep DEF Uncut
  <1>3. Inv => EntriesProtected
    <2>1. Inv /\ Resting => Linked(conf) /\ Owned(conf, disabled)
      BY DEF Resting, LinkInv, OwnInv
    <2> QED BY <2>1, RestFacts DEF EntriesProtected
  <1> QED BY <1>1, <1>2, <1>3, PTL DEF Spec

-----------------------------------------------------------------------------
(* Several handlers at once, as long as no inbound is ever disabled.       *)

EnabledOnly == Changes \subseteq {"bind", "unbind", "add", "delete", "batch"}

(* A configuration is sound but for the inbounds of T.                     *)
Leads(c, T)  == \A x \in ToSet(c.rules) : RuleSound(x) /\ (x.inb \notin T => x.ob \in DOMAIN c.obs)
Housed(c, T) == \A o \in DOMAIN c.obs : IsSocks(o) /\ o[2] \notin T => o[2] \in ToSet(c.inb)
Sound(c, T)  == Leads(c, T) /\ Housed(c, T)

(* What c has of inbounds other than t, d has.                             *)
Beside(c, d, t) ==
  /\ \A x \in ToSet(c.rules) : x.inb # t => x \in ToSet(d.rules)
  /\ ToSet(c.inb) \subseteq ToSet(d.inb) \cup {t}

(* What is on disk, c, and what handler q writes differ in its inbound     *)
(* alone; until it has begun, what is on disk is sound.                    *)
RivalOK(q, c, T) ==
  /\ q.dis = <<>>
  /\ q.pc \in Writing => Sound(q.new, T) /\ Beside(c, q.new, q.tag) /\ Sound(c, T \cup {q.tag})
  /\ q.pc = "inbounds" => Sound(c, T)

RivalInv ==
  /\ disabled = <<>>
  /\ (\A r \in Requests : req[r].pc \notin Writing) => Sound(conf, torn)
  /\ \A r \in Requests : RivalOK(req[r], conf, torn)

(* More inbounds are excepted all the more.                                *)
LEMMA SoundMore ==
  ASSUME NEW T, NEW U, T \subseteq U
  PROVE  /\ \A c : Sound(c, T) => Sound(c, U)
         /\ \A q, c : RivalOK(q, c, T) => RivalOK(q, c, U)
  <1>1. \A c : Sound(c, T) => Sound(c, U)
    BY DEF Sound, Leads, Housed
  <1>2. ASSUME NEW t, NEW c, Sound(c, T \cup {t}) PROVE Sound(c, U \cup {t})
    BY <1>2 DEF Sound, Leads, Housed
  <1> QED BY <1>1, <1>2 DEF RivalOK

(* Binding and unbinding keep a configuration sound, and touch nothing of  *)
(* other inbounds.                                                         *)
LEMMA EditSound ==
  ASSUME NEW c \in Confs, NEW t \in Tags, NEW n \in Tunnels, NEW port \in Ports, NEW T, Leads(c, T),
         NEW d, d = Attach(c, t, n, port) \/ d = Detach(c, t)
  PROVE  Leads(d, T) /\ d.inb = c.inb /\ \A x \in ToSet(c.rules) : x.inb # t => x \in ToSet(d.rules)
  <1>1. CASE d = Attach(c, t, n, port)
    <2> DEFINE p == PlainRule(t, Ps(t))
    <2>1. /\ ToSet(d.rules) = {x \in ToSet(c.rules) : ~IsPlain(x, t)} \cup {p} /\ d.inb = c.inb
          /\ \A o \in DOMAIN c.obs \cup {Ps(t)} :
               o \in DOMAIN d.obs \/ (~IsSocks(o) /\ \A x \in ToSet(d.rules) : x.ob # o)
      BY <1>1, AttachFacts
    <2>2. RuleSound(p) /\ p.ob = Ps(t)
      BY DEF PlainRule, RuleSound
    <2> HIDE DEF p
    <2>3. \A x \in ToSet(d.rules) : RuleSound(x) /\ (x.inb \notin T => x.ob \in DOMAIN c.obs \cup {Ps(t)})
      BY <2>1, <2>2 DEF Leads
    <2>4. Leads(d, T)
      BY <2>1, <2>3 DEF Leads
    <2> QED BY <2>1, <2>4 DEF IsPlain
  <1>2. CASE d = Detach(c, t)
    <2>1. /\ d.inb = c.inb /\ ToSet(d.rules) = {x \in ToSet(c.rules) : x.inb # t}
          /\ DOMAIN d.obs = {o \in DOMAIN c.obs : ~(IsSocks(o) /\ o[2] = t)}
      BY <1>2, DetachFacts
    <2>2. Leads(d, T)
      BY <2>1, RuleSoundFacts DEF Leads
    <2> QED BY <2>1, <2>2
  <1> QED BY <1>1, <1>2

(* So does generating users.                                               *)
LEMMA UsersSound ==
  ASSUME NEW c \in Confs, NEW t \in Tags, NEW n \in Tunnels, NEW ids \in SUBSET Users, NEW port \in Ports,
         NEW T, Leads(c, T)
  PROVE  LET d == AttachUsers(c, t, n, ids, port) IN
         /\ Leads(d, T) /\ d.inb = c.inb /\ ToSet(c.rules) \subseteq ToSet(d.rules)
         /\ DOMAIN d.obs = DOMAIN c.obs \cup NewObs(t, ids)
  <1> DEFINE d == AttachUsers(c, t, n, ids, port)
             new == NewObs(t, ids)
             R == NewRules(t, ids)
  <1>1. ToSet(d.rules) = R \cup ToSet(c.rules) /\ DOMAIN d.obs = DOMAIN c.obs \cup new
    BY AttachUsersFacts
  <1>2. d.inb = c.inb
    BY DEF AttachUsers, Confs
  <1>3. \A x \in R : RuleSound(x) /\ x.ob \in new
    BY ConstantsAssumption DEF UserRule, RuleSound, NewRules, NewObs
  <1> HIDE DEF d, R
  <1>4. Leads(d, T)
    <2> HIDE DEF new
    <2> QED BY <1>1, <1>3 DEF Leads
  <1> QED BY <1>1, <1>2, <1>4 DEF d

(* What a handler makes of a sound configuration is sound, and differs     *)
(* from it in the handler's own inbound alone.                             *)
LEMMA ChangedSound ==
  ASSUME TypeInv, NEW q \in Handlers, HandlerOK(q), q.pc = "apply", Accepts(q), q.dis = <<>>,
         q.kind \in {"bind", "unbind", "add", "delete", "batch"}, ChangedDisabled(q) = <<>>,
         NEW T, Sound(conf, T)
  PROVE  Sound(Changed(q), T) /\ Beside(conf, Changed(q), q.tag)
  <1> DEFINE c == Base(q)
             d == Changed(q)
  <1>1. Same(c) /\ Edited(q, c, d) /\ Homes(conf, <<>>) \subseteq Homes(c, <<>>) \cup Lost(q)
    BY ChangedCases
  <1>2. q.tag \in Tags /\ q.ids \in SUBSET Users /\ listen \in Ports
    BY DEF HandlerOK, Handlers, TypeInv
  <1> HIDE DEF c, d
  <1>3. ToSet(conf.inb) \subseteq ToSet(c.inb) \cup Lost(q)
    BY <1>1 DEF Homes, ToSet
  <1>4. c \in Confs /\ c.obs = conf.obs /\ c.rules = conf.rules /\ Leads(c, T)
    BY <1>1 DEF Same, Sound, Leads
  <1>5. \A o \in DOMAIN c.obs : IsSocks(o) /\ o[2] \notin T => o[2] \in ToSet(c.inb) \cup Lost(q)
    BY <1>3, <1>4 DEF Sound, Housed
  <1>6. Lost(q) \subseteq {q.tag} /\ (q.kind # "delete" => Lost(q) = {})
    BY DEF Lost
  <1> DEFINE Goal == Sound(d, T) /\ Beside(conf, d, q.tag)
  <1>7. ASSUME Leads(d, T), d.inb = c.inb, \A x \in ToSet(c.rules) : x.inb # q.tag => x \in ToSet(d.rules),
               \A o \in DOMAIN d.obs : IsSocks(o) => (o \in DOMAIN c.obs /\ o[2] \notin Lost(q)) \/ o[2] \in ToSet(c.inb)
        PROVE  Goal
    <2>1. Housed(d, T)
      BY <1>5, <1>7 DEF Housed
    <2>2. Beside(conf, d, q.tag)
      BY <1>3, <1>4, <1>6, <1>7 DEF Beside
    <2> QED BY <1>7, <2>1, <2>2 DEF Sound
  <1> SUFFICES Goal
    BY DEF d
  <1> HIDE DEF Goal
  <1>8. CASE d = c /\ q.kind # "delete"
    BY <1>4, <1>6, <1>7, <1>8
  <1>9. CASE q.kind # "delete" /\ Target(q, c) /\ d = Attach(c, q.tag, q.tun, listen)
    <2>1. q.tun \in Tunnels /\ q.tag \in ToSet(c.inb)
      BY <1>9 DEF Target
    <2>2. DOMAIN d.obs \subseteq DOMAIN c.obs \cup {Ps(q.tag)}
      BY <1>2, <1>4, <1>9, <2>1, AttachFacts
    <2>3. Leads(d, T) /\ d.inb = c.inb /\ \A x \in ToSet(c.rules) : x.inb # q.tag => x \in ToSet(d.rules)
      BY <1>2, <1>4, <1>9, <2>1, EditSound
    <2> QED BY <1>6, <1>7, <1>9, <2>1, <2>2, <2>3, TagFacts
  <1>10. CASE d = Detach(c, q.tag)
    <2>1. DOMAIN d.obs = {o \in DOMAIN c.obs : ~(IsSocks(o) /\ o[2] = q.tag)}
      BY <1>4, <1>10, DetachFacts
    <2>2. PICK n : n \in Tunnels
      BY ConstantsAssumption
    <2>3. Leads(d, T) /\ d.inb = c.inb /\ \A x \in ToSet(c.rules) : x.inb # q.tag => x \in ToSet(d.rules)
      BY <1>2, <1>4, <1>10, <2>2, EditSound
    <2> QED BY <1>6, <1>7, <2>1, <2>3
  <1>11. CASE q.kind = "batch" /\ Target(q, c) /\ d = AttachUsers(c, q.tag, q.tun, q.ids, listen)
    <2>1. q.tun \in Tunnels /\ q.tag \in ToSet(c.inb)
      BY <1>11 DEF Target
    <2> DEFINE e == AttachUsers(c, q.tag, q.tun, q.ids, listen)
    <2>2. /\ Leads(d, T) /\ d.inb = c.inb /\ ToSet(c.rules) \subseteq ToSet(d.rules)
          /\ DOMAIN d.obs = DOMAIN c.obs \cup NewObs(q.tag, q.ids)
      <3>1. Leads(e, T)
        BY <1>2, <1>4, <2>1, UsersSound
      <3>2. e.inb = c.inb
        BY <1>2, <1>4, <2>1, UsersSound
      <3>3. ToSet(c.rules) \subseteq ToSet(e.rules)
        BY <1>2, <1>4, <2>1, UsersSound
      <3>4. DOMAIN e.obs = DOMAIN c.obs \cup NewObs(q.tag, q.ids)
        BY <1>2, <1>4, <2>1, UsersSound
      <3> HIDE DEF e
      <3> QED BY <1>11, <3>1, <3>2, <3>3, <3>4 DEF e
    <2>3. \A u \in NewObs(q.tag, q.ids) : u[2] = q.tag
      BY TagFacts DEF NewObs
    <2> QED BY <1>6, <1>7, <1>11, <2>1, <2>2, <2>3
  <1> QED BY <1>1, <1>8, <1>9, <1>10, <1>11 DEF Edited

(* The one handler that writes is the only one whose files may be halves.  *)
LEMMA RivalSound ==
  ASSUME TypeInv, EnabledOnly, RivalInv, NEW T, torn \subseteq T,
         \A r \in Requests : HalfWritten(r) => req[r].tag \in T
  PROVE  Sound(conf, T)
  <1>1. CASE \A r \in Requests : req[r].pc \notin Writing
    BY <1>1, SoundMore DEF RivalInv
  <1>2. ASSUME NEW r \in Requests, req[r].pc \in Writing PROVE Sound(conf, T)
    <2>1. HandlerOK(req[r]) /\ WrittenOK(conf, req[r]) /\ RivalOK(req[r], conf, torn)
      BY ReqFacts DEF RivalInv
    <2>2. req[r].pc # "jobs"
      BY <1>2, <2>1 DEF HandlerOK, EnabledOnly, Writing
    <2>3. CASE req[r].pc = "inbounds"
      BY <2>1, <2>3, SoundMore DEF RivalOK
    <2>4. CASE HalfWritten(r)
      <3>1. torn \cup {req[r].tag} \subseteq T
        BY <2>4
      <3>2. Sound(conf, torn \cup {req[r].tag})
        BY <1>2, <2>1 DEF RivalOK
      <3> QED BY <3>1, <3>2, SoundMore
    <2>5. CASE req[r].pc = "restart"
      <3>1. req[r].new \in Confs /\ conf \in Confs
        BY <1>2, <2>1 DEF HandlerOK, TypeInv
      <3>2. conf = req[r].new
        BY <2>1, <2>5, <3>1 DEF WrittenOK, Confs
      <3> QED BY <1>2, <2>1, <3>2, SoundMore DEF RivalOK
    <2> QED BY <1>2, <2>2, <2>3, <2>4, <2>5 DEF Writing, HalfWritten
  <1> QED BY <1>1, <1>2

(* The start is sound.                                                     *)
LEMMA RivalInit == Init => RivalInv
  <1> SUFFICES ASSUME Init PROVE RivalInv
    OBVIOUS
  <1>1. conf \in Starts /\ disabled = <<>> /\ \A r \in Requests : req[r] = Free
    BY StartFacts
  <1>2. Linked(conf) /\ Owned(conf, <<>>)
    BY <1>1, StartsAssumption
  <1>3. Sound(conf, torn)
    BY <1>2, LinkedFacts, OwnedFacts DEF Sound, Leads, Housed, Homes, ToSet
  <1> QED BY <1>1, <1>3, FreeFacts DEF RivalInv, RivalOK, Writing

(* A step that leaves the files alone and after which its handler does not *)
(* write.                                                                  *)
LEMMA RivalOver ==
  ASSUME TypeInv, RivalInv, NEW r \in Requests, NEW q \in Handlers, Becomes(r, q), q.pc \notin Writing, q.dis = <<>>,
         disabled' = disabled, conf' = conf, torn \subseteq torn',
         (\A p \in Requests \ {r} : req[p].pc \notin Writing) => Sound(conf, torn')
  PROVE  RivalInv'
  <1>1. req'[r] = q /\ Others(r)
    BY OneChanges
  <1>2. ASSUME NEW p \in Requests PROVE RivalOK(req'[p], conf', torn')
    <2>1. CASE p = r
      BY <1>1, <2>1 DEF RivalOK, Writing
    <2>2. CASE p # r
      BY <1>1, <2>2, SoundMore DEF RivalInv, Others
    <2> QED BY <2>1, <2>2
  <1>3. ASSUME \A p \in Requests : req'[p].pc \notin Writing PROVE Sound(conf', torn')
    BY <1>1, <1>3 DEF Others
  <1>4. \A p \in Requests : RivalOK(req[p], conf, torn)'
    BY <1>2
  <1>5. ((\A p \in Requests : req[p].pc \notin Writing) => Sound(conf, torn))'
    BY <1>3
  <1> QED BY <1>4, <1>5 DEF RivalInv

(* One after which its handler writes, and no other does.                  *)
LEMMA RivalWrites ==
  ASSUME TypeInv, RivalInv, NEW r \in Requests, NEW q \in Handlers, Becomes(r, q), q.pc \in Writing,
         \A p \in Requests \ {r} : req[p].pc \notin Writing,
         disabled' = disabled, torn' = torn, RivalOK(q, conf', torn)
  PROVE  RivalInv'
  <1>1. req'[r] = q /\ Others(r)
    BY OneChanges
  <1>2. ASSUME NEW p \in Requests PROVE RivalOK(req'[p], conf', torn')
    <2>1. CASE p = r
      BY <1>1, <2>1
    <2>2. CASE p # r
      <3>1. req'[p] = req[p] /\ req[p].pc \notin Writing /\ req[p].dis = <<>>
        BY <1>1, <2>2 DEF RivalInv, RivalOK, Others
      <3> QED BY <3>1 DEF RivalOK, Writing
    <2> QED BY <2>1, <2>2
  <1>3. \A p \in Requests : RivalOK(req[p], conf, torn)'
    BY <1>2
  <1>4. ~\A p \in Requests : req'[p].pc \notin Writing
    BY <1>1
  <1>5. ((\A p \in Requests : req[p].pc \notin Writing) => Sound(conf, torn))'
    BY <1>4
  <1> QED BY <1>3, <1>5 DEF RivalInv

(* A request made tears nothing.                                           *)
LEMMA AsksTorn ==
  ASSUME NEW r \in Requests, Asks(r)
  PROVE  torn' = torn
  <1>1. ASSUME NEW t \in Tags PROVE /\ \A kind \in Changes : PutInbound(r, kind, t) => torn' = torn
                                    /\ \A n \in Tunnels : Rebind(r, t, n) \/ AddTunnel(r, t, n) => torn' = torn
                                    /\ \A n \in Tunnels \cup {NoTun} : AddInbound(r, t, n) => torn' = torn
                                    /\ \A ids \in SUBSET Users \ {{}} : BatchUsers(r, t, ids) => torn' = torn
    BY DEF PutInbound, Rebind, AddTunnel, AddInbound, BatchUsers
  <1>2. /\ \A n \in Tunnels : DelTunnel(r, n) => torn' = torn
        /\ \A p \in Ports : PutSocks(r, p) => torn' = torn
    BY DEF DelTunnel, PutSocks
  <1> QED BY <1>1, <1>2 DEF Asks

(* The files written one after the other stay sound but for the inbound of *)
(* the handler that writes them.                                           *)
LEMMA FileSound ==
  ASSUME TypeInv, EnabledOnly, RivalInv, NEW r \in Requests, WriteSB(r)
  PROVE  Sound(conf', torn \cup {req[r].tag}) /\ Beside(conf', req[r].new, req[r].tag)
  <1> DEFINE c == conf
             d == req[r].new
             t == req[r].tag
  <1>1. PICK next \in {"outbounds", "route", "restart"} :
          /\ req[r].pc = CASE next = "outbounds" -> "inbounds" [] next = "route" -> "outbounds" [] next = "restart" -> "route"
          /\ \/ next = "outbounds" /\ conf'.inb = d.inb /\ conf'.obs = c.obs /\ conf'.rules = c.rules
             \/ next = "route" /\ conf'.inb = c.inb /\ conf'.obs = d.obs /\ conf'.rules = c.rules
             \/ next = "restart" /\ conf' = d
    BY WriteFacts
  <1>2. req[r].pc \in Writing /\ WrittenOK(conf, req[r]) /\ RivalOK(req[r], conf, torn)
    BY WriteFacts, ReqFacts DEF RivalInv
  <1>3. Sound(d, torn) /\ Beside(c, d, t) /\ Sound(c, torn \cup {t})
    BY <1>2 DEF RivalOK
  <1>4. req[r].pc = "outbounds" => c.inb = d.inb
    BY <1>2 DEF WrittenOK
  <1>5. req[r].pc = "inbounds" => Sound(c, torn)
    BY <1>2 DEF RivalOK
  <1>6. Sound(d, torn \cup {t})
    BY <1>3, SoundMore
  <1> HIDE DEF c, d, t
  <1>7. CASE next = "outbounds"
    <2>1. Leads(conf', torn \cup {t})
      BY <1>1, <1>3, <1>7 DEF Sound, Leads
    <2>2. Housed(conf', torn \cup {t})
      BY <1>1, <1>3, <1>7 DEF Sound, Housed, Beside
    <2>3. Beside(conf', d, t)
      BY <1>1, <1>3, <1>7 DEF Beside
    <2> QED BY <2>1, <2>2, <2>3 DEF Sound, d, t
  <1>8. CASE next = "route"
    <2>0. c.inb = d.inb
      BY <1>1, <1>4, <1>8
    <2>1. Leads(conf', torn \cup {t})
      BY <1>1, <1>3, <1>6, <1>8 DEF Sound, Leads, Beside
    <2>2. Housed(conf', torn \cup {t})
      BY <1>1, <1>6, <1>8, <2>0 DEF Sound, Housed
    <2>3. Beside(conf', d, t)
      BY <1>1, <1>3, <1>8 DEF Beside
    <2> QED BY <2>1, <2>2, <2>3 DEF Sound, d, t
  <1>9. CASE next = "restart"
    BY <1>1, <1>6, <1>9 DEF Beside, d, t
  <1> QED BY <1>1, <1>7, <1>8, <1>9

(* Every step keeps the files sound but for what was cut short: the lock   *)
(* alone is enough for the others.                                         *)
LEMMA RivalStep ==
  ASSUME TypeInv, EnabledOnly, RivalInv, [Next]_vars
  PROVE  RivalInv'
  <1>0. ASSUME NEW p \in Requests, req[p].pc # "idle"
        PROVE  req[p].kind \in {"bind", "unbind", "add", "delete", "batch"} /\ About(req[p]) = {req[p].tag}
    BY <1>0, ReqFacts DEF HandlerOK, EnabledOnly, About
  <1>1. ASSUME NEW r \in Requests, req[r].pc \notin Writing, \A p \in Requests \ {r} : req[p].pc \notin Writing
        PROVE  Sound(conf, torn)
    BY <1>1 DEF RivalInv
  <1>2. ASSUME NEW r \in Requests, Asks(r) PROVE RivalInv'
    <2>1. /\ req[r].pc = "idle" /\ conf' = conf /\ disabled' = disabled /\ torn' = torn
          /\ Postponed \/ \E q : Started(r, q)
      BY <1>2, AsksFacts, AsksTorn
    <2>2. ~Postponed
      BY DEF Postponed, EnabledOnly
    <2>3. PICK q : Started(r, q)
      BY <2>1, <2>2
    <2>4. q \in Handlers /\ Becomes(r, q) /\ q.pc \notin Writing /\ q.dis = <<>> /\ req[r].pc \notin Writing
      BY <2>1, <2>3 DEF Started, RivalInv, Writing
    <2> QED BY <1>1, <2>1, <2>4, RivalOver
  <1>3. ASSUME NEW r \in Requests, Apply(r) PROVE RivalInv'
    <2> DEFINE q == Applied(req[r])
    <2>1. /\ lock = NoReq /\ conf' = conf /\ Steady /\ req[r].pc = "apply" /\ Accepts(req[r])
          /\ Becomes(r, q) /\ q \in Handlers /\ HandlerOK(q) /\ q.pc = IF req[r].kind = "sync" THEN "jobs" ELSE "inbounds"
          /\ q.tag = req[r].tag /\ q.new = Changed(req[r]) /\ q.dis = ChangedDisabled(req[r])
      BY <1>3, ApplyFacts
    <2> HIDE DEF q
    <2>2. req[r].kind \in {"bind", "unbind", "add", "delete", "batch"} /\ req[r].dis = <<>>
      BY <1>0, <2>1 DEF RivalInv, RivalOK
    <2>3. ChangedDisabled(req[r]) = <<>>
      <3>1. req[r].kind = "delete" => req[r].tag \in ToSet(conf.inb)
        BY <2>1, <2>2 DEF Accepts, ToSet
      <3> QED BY <2>2, <3>1 DEF ChangedDisabled
    <2>4. \A p \in Requests : req[p].pc \notin Writing
      BY <2>1, ReqFacts, ConstantsAssumption
    <2>5. Sound(conf, torn) /\ Sound(conf, torn \cup {q.tag})
      BY <2>4, SoundMore DEF RivalInv
    <2>6. Sound(q.new, torn) /\ Beside(conf, q.new, q.tag)
      BY <2>1, <2>2, <2>3, <2>5, ReqFacts, ChangedSound
    <2>7. RivalOK(q, conf', torn)
      BY <2>1, <2>3, <2>5, <2>6 DEF RivalOK
    <2>8. q.pc \in Writing /\ torn' = torn
      BY <1>3, <2>1, <2>2 DEF Apply, Writing
    <2> QED BY <2>1, <2>4, <2>7, <2>8, RivalWrites DEF Steady
  <1>4. ASSUME NEW r \in Requests, SyncEntry(r) PROVE FALSE
    BY <1>0, <1>4, SyncEntryFacts
  <1>5. ASSUME NEW r \in Requests, Refuse(r) PROVE RivalInv'
    <2>1. torn' = torn
      BY <1>5 DEF Refuse
    <2>2. req[r].pc \notin Writing /\ conf' = conf /\ disabled' = disabled /\ Becomes(r, Free)
      BY <1>5, RefuseFacts DEF Steady, Writing
    <2> QED BY <1>1, <2>1, <2>2, FreeFacts, RivalOver DEF Writing
  <1>6. ASSUME NEW r \in Requests, WriteSB(r) PROVE RivalInv'
    <2>1. lock = r /\ Steady /\ req[r].pc \in Writing
      BY <1>6, WriteFacts
    <2>2. PICK q \in Handlers : /\ Becomes(r, q) /\ q.pc \in {"outbounds", "route", "restart"}
                                /\ q.tag = req[r].tag /\ q.new = req[r].new /\ q.dis = req[r].dis
      <3>1. PICK next \in {"outbounds", "route", "restart"} :
              /\ Becomes(r, At(req[r], next)) /\ At(req[r], next) \in Handlers /\ At(req[r], next).pc = next
              /\ At(req[r], next).tag = req[r].tag /\ At(req[r], next).new = req[r].new /\ At(req[r], next).dis = req[r].dis
        BY <1>6, WriteFacts
      <3> QED BY <3>1
    <2>3. RivalOK(q, conf', torn)
      <3>1. Sound(conf', torn \cup {req[r].tag}) /\ Beside(conf', req[r].new, req[r].tag)
        BY <1>6, FileSound
      <3>2. req[r].dis = <<>> /\ Sound(req[r].new, torn)
        BY <2>1 DEF RivalInv, RivalOK
      <3> QED BY <2>2, <3>1, <3>2 DEF RivalOK
    <2>4. \A p \in Requests \ {r} : req[p].pc \notin Writing
      BY <2>1, LockedOut
    <2>5. torn' = torn
      BY <1>6 DEF WriteSB, WriteFile
    <2> QED BY <2>1, <2>2, <2>3, <2>4, <2>5, RivalWrites DEF Writing, Steady
  <1>7. ASSUME NEW r \in Requests, req[r].pc = "restart" PROVE Sound(conf, torn)
    <2>1. \A p \in Requests : HalfWritten(p) => p = r
      BY <1>7, LockedOut DEF HalfWritten, Writing
    <2>2. \A p \in Requests : ~HalfWritten(p)
      BY <1>7, <2>1 DEF HalfWritten
    <2> QED BY <2>2, RivalSound
  <1>8. ASSUME NEW r \in Requests, RestartSingBox(r) PROVE RivalInv'
    <2>1. req[r].pc = "restart" /\ conf' = conf /\ disabled' = disabled /\ torn' = torn
      BY <1>8, RestartFacts DEF Steady, RestartSingBox
    <2>2. PICK q \in Handlers : Becomes(r, q) /\ q.pc \in {"save", "idle"} /\ q.dis = <<>>
      <3>1. \/ /\ Becomes(r, At(req[r], "save")) /\ At(req[r], "save") \in Handlers /\ At(req[r], "save").pc = "save"
               /\ At(req[r], "save").dis = req[r].dis
            \/ Becomes(r, Free)
        BY <1>8, RestartFacts
      <3>2. req[r].dis = <<>>
        BY DEF RivalInv, RivalOK
      <3> QED BY <3>1, <3>2, FreeFacts
    <2> QED BY <1>7, <2>1, <2>2, RivalOver DEF Writing
  <1>9. ASSUME NEW r \in Requests, RestartFails(r) PROVE RivalInv'
    <2>1. req[r].pc = "restart" /\ conf' = conf /\ disabled' = disabled /\ torn' = torn /\ Becomes(r, Free)
      BY <1>9, FailsFacts DEF Steady, RestartFails
    <2> QED BY <1>7, <2>1, FreeFacts, RivalOver DEF Writing
  <1>10. ASSUME NEW r \in Requests, SaveDisabled(r) PROVE RivalInv'
    <2>1. /\ req[r].pc \notin Writing /\ conf' = conf /\ disabled' = disabled /\ torn' = torn /\ Becomes(r, Free)
      <3>1. torn' = torn
        BY <1>10 DEF SaveDisabled
      <3>2. req[r].pc = "save" /\ conf' = conf /\ disabled' = req[r].dis /\ Becomes(r, Free)
        BY <1>10, SaveFacts
      <3> QED BY <3>1, <3>2 DEF RivalInv, RivalOK, Writing
    <2> QED BY <1>1, <2>1, FreeFacts, RivalOver DEF Writing
  <1>11. ASSUME NEW r \in Requests, WriteFails(r) PROVE RivalInv'
    <2>1. conf' = conf /\ disabled' = disabled /\ Becomes(r, Free) /\ torn \subseteq torn'
      BY <1>11, WriteFailsFacts DEF Steady
    <2>2. CASE req[r].pc = "save" /\ torn' = torn
      <3>1. req[r].pc \notin Writing
        BY <2>2 DEF Writing
      <3> QED BY <1>1, <2>1, <2>2, <3>1, FreeFacts, RivalOver DEF Writing
    <2>3. CASE /\ req[r].pc \in {"inbounds", "outbounds", "route"}
               /\ torn' = IF HalfWritten(r) THEN torn \cup About(req[r]) ELSE torn
      <3>1. \A p \in Requests : HalfWritten(p) => p = r
        BY <2>3, LockedOut DEF HalfWritten, Writing
      <3>2. HalfWritten(r) => req[r].tag \in torn'
        BY <1>0, <2>3
      <3>3. Sound(conf, torn')
        BY <2>1, <3>1, <3>2, RivalSound
      <3> QED BY <2>1, <3>3, FreeFacts, RivalOver DEF Writing
    <2> QED BY <1>11, <2>2, <2>3, WriteFailsFacts
  <1>12. CASE RestartProxy \/ Kill
    <2>1. ProxyEnds
      BY <1>12 DEF RestartProxy, Kill
    <2>2. /\ conf' = conf /\ disabled' = disabled /\ \A r \in Requests : req'[r] = Free
          /\ torn' = torn \cup UNION {About(req[r]) : r \in {q \in Requests : HalfWritten(q)}}
      BY <2>1, ProxyEndsFacts
    <2>3. \A r \in Requests : HalfWritten(r) => req[r].tag \in torn'
      BY <1>0, <2>2 DEF HalfWritten
    <2>4. Sound(conf', torn')
      BY <2>2, <2>3, RivalSound
    <2>5. \A r \in Requests : RivalOK(req'[r], conf', torn')
      BY <2>2, FreeFacts DEF RivalOK, Writing
    <2>6. \A r \in Requests : RivalOK(req[r], conf, torn)'
      BY <2>5
    <2>7. ((\A r \in Requests : req[r].pc \notin Writing) => Sound(conf, torn))'
      BY <2>4
    <2> QED BY <2>2, <2>6, <2>7 DEF RivalInv
  <1>13. CASE UNCHANGED vars
    BY <1>13 DEF vars, RivalInv
  <1> QED BY <1>2, <1>3, <1>4, <1>5, <1>6, <1>8, <1>9, <1>10, <1>11, <1>12, <1>13, NextCases

(* The same of several handlers at once, whatever sing-box answers,        *)
(* whichever file cannot be written and whenever the process is killed, if *)
(* they bind, unbind, add and delete entries and generate their users: a   *)
(* rule or an outbound is left over only for inbounds whose own handler    *)
(* ended between its first file and its last.                              *)
THEOREM RivalsLeaveNothing ==
  ASSUME EnabledOnly
  PROVE  Spec => []NoDangling
  <1>1. Init => TypeInv /\ RivalInv
    BY TypeInit, RivalInit
  <1>2. TypeInv /\ RivalInv /\ [Next]_vars => (TypeInv /\ RivalInv)'
    BY TypeStep, RivalStep
  <1>3. TypeInv /\ RivalInv => NoDangling
    <2>1. TypeInv /\ RivalInv /\ Resting => Sound(conf, torn)
      BY DEF Resting, RivalInv, Writing
    <2> QED BY <2>1 DEF NoDangling, Sound, Leads, Housed, SocksObs, Socks
  <1> QED BY <1>1, <1>2, <1>3, PTL DEF Spec

-----------------------------------------------------------------------------
(* Outbounds lead to the address the proxy listens on.                     *)

(* Fresh, by the outbounds.                                                *)
LEMMA FreshFacts ==
  ASSUME NEW obs, NEW port, NEW jobs
  PROVE  Fresh(obs, port, jobs) <=>
           \A o \in DOMAIN obs : IsSocks(o) => obs[o].port = port \/ \E j \in jobs : j.tag = o[2]
  BY DEF Fresh, Socks

(* TunsOf, by the outbounds.                                               *)
LEMMA TunsOfFacts ==
  ASSUME NEW obs, NEW S
  PROVE  TunsOf(obs) \subseteq S <=> \A o \in DOMAIN obs : obs[o].tun \in S
  BY DEF TunsOf

(* syncEntryOutbounds has a job for every entry with a stale outbound, if  *)
(* all outbounds are of tunnels in memory.                                 *)
LEMMA FreshJobs ==
  ASSUME NEW c \in Confs, NEW dis, NEW T \in SUBSET Tunnels, NEW port, TunsOf(c.obs) \subseteq T, Owned(c, dis)
  PROVE  Fresh(c.obs, port, Jobs(c, dis, T, port))
  <1>1. SUFFICES ASSUME NEW o \in DOMAIN c.obs, IsSocks(o), c.obs[o].port # port
                 PROVE  \E j \in Jobs(c, dis, T, port) : j.tag = o[2]
    BY FreshFacts
  <1> DEFINE t == o[2]
             ofUsers == {OutboundTunnel(c.obs, T, u) : u \in UserObs(c.obs, t)} \ {NoTun}
             n == EntryTunnel(c, T, t)
  <1>2. o \in UserObs(c.obs, t) \cup {Ps(t)} /\ t \in Homes(c, dis)
    BY <1>1, OwnObs, OwnedFacts
  <1>3. NoTun \notin T
    BY ConstantsAssumption
  <1>4. \A u \in DOMAIN c.obs : OutboundTunnel(c.obs, T, u) = c.obs[u].tun /\ c.obs[u].tun \in T
    BY TunsOfFacts DEF OutboundTunnel
  <1>5. \A u : OutboundTunnel(c.obs, T, u) # NoTun => OutboundTunnel(c.obs, T, u) \in T
    BY <1>4, OutboundTunnelFacts
  <1>6. n \in T
    <2>1. CASE OutboundTunnel(c.obs, T, Ps(t)) # NoTun
      BY <1>5, <2>1 DEF EntryTunnel
    <2>2. CASE OutboundTunnel(c.obs, T, Ps(t)) = NoTun
      <3>1. o # Ps(t)
        BY <1>1, <1>3, <1>4, <2>2
      <3>2. OutboundTunnel(c.obs, T, o) \in ofUsers
        BY <1>1, <1>2, <1>3, <1>4, <3>1
      <3>3. \A m \in ofUsers : m \in T
        BY <1>5
      <3>4. n = CHOOSE m \in ofUsers : TRUE
        BY <2>2, <3>2 DEF EntryTunnel
      <3> HIDE DEF ofUsers, n
      <3>5. n \in ofUsers
        BY <3>2, <3>4
      <3> QED BY <3>3, <3>5
    <2> QED BY <2>1, <2>2
  <1>7. EntryStale(c, T, t, port)
    BY <1>1, <1>2 DEF EntryStale
  <1> HIDE DEF n, t
  <1>8. [tag |-> t, tun |-> n] \in Jobs(c, dis, T, port)
    BY <1>2, <1>6, <1>7 DEF Jobs, Homes, n
  <1> QED BY <1>8 DEF t

(* A change makes no outbound of an unknown tunnel or another port, but    *)
(* those its jobs will bind.                                               *)
LEMMA ChangedFresh ==
  ASSUME TypeInv, NEW q \in Handlers, HandlerOK(q), q.pc = "apply", Accepts(q),
         Underway(q, conf, pending, tuns, live, listen)
  PROVE  TunsOf(Changed(q).obs) \subseteq live /\ Fresh(Changed(q).obs, listen, q.jobs)
  <1> DEFINE c == Base(q)
             d == Changed(q)
  <1>1. Same(c) /\ Edited(q, c, d) /\ (q.kind = "bind" => q.tun \in tuns)
    BY ChangedCases
  <1> HIDE DEF c, d
  <1>2. c \in Confs /\ c.obs = conf.obs /\ q.ids \in SUBSET Users /\ listen \in Ports /\ NoTun \notin Tunnels
    BY <1>1, ConstantsAssumption DEF Same, Handlers, TypeInv
  <1>3. \A o \in DOMAIN c.obs : c.obs[o].tun \in tuns /\ (IsSocks(o) => c.obs[o].port = listen \/ \E j \in q.jobs : j.tag = o[2])
    BY <1>2, TunsOfFacts, FreshFacts DEF Underway
  <1>4. q.kind # "strip" => tuns \subseteq live
    BY DEF Underway
  <1>5. q.kind \in {"bind", "add", "clone", "batch"} /\ q.tun \in Tunnels => q.tun \in live
    BY <1>1, <1>2, <1>4 DEF Underway
  <1>6. SUFFICES ASSUME NEW o \in DOMAIN d.obs
                 PROVE  /\ d.obs[o].tun \in live
                        /\ IsSocks(o) => d.obs[o].port = listen \/ \E j \in q.jobs : j.tag = o[2]
    BY TunsOfFacts, FreshFacts DEF d
  <1>7. CASE q.kind # "strip" /\ d = c
    BY <1>3, <1>4, <1>6, <1>7
  <1>8. CASE q.kind \in {"bind", "add", "clone"} /\ Target(q, c) /\ d = Attach(c, q.tag, q.tun, listen)
    <2>1. /\ DOMAIN d.obs \subseteq DOMAIN c.obs \cup {Ps(q.tag)}
          /\ d.obs[o] = IF IsSocks(o) /\ o[2] = q.tag THEN Out(q.tun, listen) ELSE c.obs[o]
      BY <1>2, <1>6, <1>8, AttachFacts DEF Target
    <2>2. CASE IsSocks(o) /\ o[2] = q.tag
      BY <1>5, <1>8, <2>1, <2>2, OutFacts DEF Target
    <2>3. CASE ~(IsSocks(o) /\ o[2] = q.tag)
      <3>1. o \in DOMAIN c.obs /\ d.obs[o] = c.obs[o]
        BY <1>6, <2>1, <2>3, TagFacts
      <3> QED BY <1>3, <1>4, <1>8, <3>1
    <2> QED BY <2>2, <2>3
  <1>9. CASE q.kind # "strip" /\ d = Detach(c, q.tag)
    <2>1. o \in DOMAIN c.obs /\ d.obs[o] = c.obs[o]
      BY <1>2, <1>6, <1>9, DetachFacts
    <2> QED BY <1>3, <1>4, <1>9, <2>1
  <1>10. CASE q.kind = "strip" /\ c = conf /\ d = Strip(c, tuns, q.tun)
    <2>1. o \in DOMAIN c.obs \ Stripped(c, tuns, q.tun) /\ d.obs[o] = c.obs[o]
      BY <1>2, <1>6, <1>10, StripFacts
    <2>2. OutboundTunnel(c.obs, tuns, o) = c.obs[o].tun
      BY <1>3, <2>1 DEF OutboundTunnel
    <2>3. c.obs[o].tun # q.tun
      BY <2>1, <2>2 DEF Stripped
    <2>4. c.obs[o].tun \in live
      BY <1>3, <1>10, <2>1, <2>3 DEF Underway
    <2> QED BY <1>3, <2>1, <2>4
  <1>11. CASE q.kind = "batch" /\ Target(q, c) /\ d = AttachUsers(c, q.tag, q.tun, q.ids, listen)
    <2> DEFINE e == AttachUsers(c, q.tag, q.tun, q.ids, listen)
    <2>0. q.tag \in Tags /\ q.tun \in Tunnels
      BY <1>11 DEF Target
    <2>1. /\ DOMAIN e.obs = DOMAIN c.obs \cup NewObs(q.tag, q.ids)
          /\ \A u \in DOMAIN e.obs : e.obs[u] = IF u \in NewObs(q.tag, q.ids) THEN Out(q.tun, listen) ELSE c.obs[u]
      <3>0. c \in Confs /\ q.ids \in SUBSET Users /\ listen \in Ports /\ q.tag \in Tags /\ q.tun \in Tunnels
        BY <1>2, <2>0
      <3>1. DOMAIN e.obs = DOMAIN c.obs \cup NewObs(q.tag, q.ids)
        BY <3>0, UsersDomain
      <3>2. \A u \in DOMAIN e.obs : e.obs[u] = IF u \in NewObs(q.tag, q.ids) THEN Out(q.tun, listen) ELSE c.obs[u]
        BY <1>2, <2>0, AttachUsersFacts
      <3> QED BY <3>1, <3>2
    <2> HIDE DEF e
    <2>2. CASE o \in NewObs(q.tag, q.ids)
      BY <1>5, <1>6, <1>11, <2>0, <2>1, <2>2, OutFacts DEF e
    <2>3. CASE o \notin NewObs(q.tag, q.ids)
      <3>1. o \in DOMAIN c.obs /\ d.obs[o] = c.obs[o]
        BY <1>6, <1>11, <2>1, <2>3 DEF e
      <3> QED BY <1>3, <1>4, <1>11, <3>1
    <2> QED BY <2>2, <2>3
  <1> QED BY <1>1, <1>7, <1>8, <1>9, <1>10, <1>11 DEF Edited, d

(* Outbounds are fresh at the start.                                       *)
LEMMA FreshInit == Init => FreshInv
  <1> SUFFICES ASSUME Init PROVE FreshInv
    OBVIOUS
  <1>1. /\ Resting /\ live = tuns /\ conf \in Starts /\ listen = StartPort /\ tuns = TunsOf(conf.obs) \cup {DefaultTunnel}
        /\ \A r \in Requests : req[r].pc = "idle"
    BY StartFacts DEF Resting
  <1>2. \A o \in DOMAIN conf.obs : IsSocks(o) => conf.obs[o].port = listen
    BY <1>1, StartsAssumption DEF Socks
  <1>3. Fresh(conf.obs, listen, {})
    BY <1>2, FreshFacts
  <1> QED BY <1>1, <1>3 DEF FreshInv

(* The one at work goes on, or it is over.                                 *)
LEMMA FreshBusy ==
  ASSUME TypeInv, NEW r \in Requests, NEW q \in Handlers, Becomes(r, q), \A p \in Requests \ {r} : req[p].pc = "idle",
         q.pc # "idle", Underway(q, conf', pending', tuns', live', listen')
  PROVE  FreshInv'
  <1>1. req'[r] = q /\ \A p \in Requests \ {r} : req'[p].pc = "idle"
    BY OneChanges DEF Others
  <1>2. \A p \in Requests : req'[p].pc # "idle" => Underway(req'[p], conf', pending', tuns', live', listen')
    BY <1>1
  <1>3. ~\A p \in Requests : req'[p].pc = "idle"
    BY <1>1
  <1>4. \A p \in Requests : (req[p].pc # "idle" => Underway(req[p], conf, pending, tuns, live, listen))'
    BY <1>2
  <1>5. ~Resting'
    BY <1>3 DEF Resting
  <1> QED BY <1>4, <1>5 DEF FreshInv

(* So they are when nobody is at work and what is left is fresh.           *)
LEMMA FreshOver ==
  ASSUME \A p \in Requests : req'[p].pc = "idle",
         ~pending' => live' = tuns', TunsOf(conf'.obs) \subseteq live', Fresh(conf'.obs, listen', {})
  PROVE  FreshInv'
  BY DEF FreshInv

(* The same when the last request is over.                                 *)
LEMMA FreshOverOne ==
  ASSUME TypeInv, NEW r \in Requests, Becomes(r, Free), \A p \in Requests \ {r} : req[p].pc = "idle",
         ~pending' => live' = tuns', TunsOf(conf'.obs) \subseteq live', Fresh(conf'.obs, listen', {})
  PROVE  FreshInv'
  <1>1. \A p \in Requests : req'[p].pc = "idle"
    BY FreeFacts, OneChanges DEF Others
  <1> QED BY <1>1, FreshOver

(* Every step keeps them so: a synchronisation has a job for every stale   *)
(* entry.                                                                  *)
LEMMA FreshStep ==
  ASSUME TypeInv, Turns, CalmInv, OwnInv, FreshInv, [Next]_vars, "restarts" \in Habits, Faults = {}
  PROVE  FreshInv'
  <1>0. ASSUME NEW r \in Requests, req[r].pc # "idle" PROVE \A p \in Requests \ {r} : req[p].pc = "idle"
    BY <1>0 DEF CalmInv, Alone
  <1>a. ASSUME NEW r \in Requests, req[r].pc # "idle"
        PROVE  Underway(req[r], conf, pending, tuns, live, listen)
    BY <1>a DEF FreshInv
  <1>1. ASSUME NEW r \in Requests, Asks(r) PROVE FreshInv'
    <2>1. /\ Resting /\ ~pending /\ conf' = conf /\ tuns' = tuns /\ disabled' = disabled
          /\ Postponed \/ \E q : Started(r, q)
      BY <1>1, AsksFacts
    <2>2. /\ live = tuns /\ TunsOf(conf.obs) \subseteq live /\ Fresh(conf.obs, listen, {}) /\ Owned(conf, disabled)
          /\ conf \in Confs /\ disabled \in Seq(Tags) /\ tuns \in SUBSET Tunnels
          /\ \A p \in Requests : req[p].pc = "idle"
      BY <2>1 DEF FreshInv, OwnInv, Resting, TypeInv
    <2>3. Fresh(conf.obs, listen', Jobs(conf, disabled, tuns, listen'))
      BY <2>2, FreshJobs
    <2>4. CASE Postponed
      <3>1. req' = req /\ pending' /\ ~Asked(req'[r])
        BY <2>2, <2>4 DEF Postponed, Asked
      <3>2. Spared
        BY <1>1, <3>1, AskedFacts
      <3>3. TunsOf(conf'.obs) \subseteq live' /\ Fresh(conf'.obs, listen', {})
        BY <2>1, <2>2, <2>3, <3>2 DEF Spared
      <3> QED BY <2>2, <3>1, <3>3, FreshOver
    <2>5. CASE \E q : Started(r, q)
      <3>1. PICK q : Started(r, q)
        BY <2>5
      <3>2. q \in Handlers /\ HandlerOK(q) /\ q.pc = "apply" /\ Becomes(r, q) /\ pending' = pending
        BY <3>1 DEF Started
      <3>3. req'[r] = q /\ Asked(q)
        <4>1. req'[r] = q
          BY <3>2, OneChanges
        <4>2. req' # req
          BY <2>2, <3>2, <4>1
        <4>3. Asked(req'[r])
          BY <1>1, <4>2, AskedFacts
        <4> QED BY <4>1, <4>3
      <3>4. /\ q.kind = "strip" => live' = tuns \ {q.tun}
            /\ q.kind = "clone" => live' = tuns \cup {q.tun}
            /\ q.kind \notin {"clone", "strip"} => live' = tuns
        BY <2>2, <3>3 DEF Asked
      <3>5. q.kind \in {"add", "clone", "batch"} => q.tun \in live' \cup {NoTun}
        <4>1. CASE q.kind = "batch"
          <5>1. q.tun \in TunsOf(conf.obs)
            BY <3>3, <4>1, OutboundTunnelFacts DEF Asked, TunsOf
          <5> QED BY <2>2, <3>4, <4>1, <5>1
        <4>2. CASE q.kind \in {"add", "clone"}
          BY <2>2, <3>3, <3>4, <4>2 DEF Asked
        <4> QED BY <4>1, <4>2
      <3>6. (\A j \in q.jobs : j.tun \in live') /\ Fresh(conf.obs, listen', q.jobs)
        <4>1. CASE q.kind = "sync"
          <5>1. q.jobs = Jobs(conf, disabled, tuns, listen')
            BY <3>3, <4>1 DEF Asked
          <5>2. \A j \in q.jobs : j.tun \in tuns
            BY <2>2, <5>1, JobsFacts
          <5> QED BY <2>3, <3>4, <4>1, <5>1, <5>2
        <4>2. CASE q.kind # "sync"
          BY <2>2, <3>3, <4>2 DEF Asked
        <4> QED BY <4>1, <4>2
      <3>7. Underway(q, conf', pending', tuns', live', listen')
        <4>1. q.pc \notin Writing /\ q.pc # "save"
          BY <3>2 DEF Writing
        <4> QED BY <2>1, <2>2, <3>2, <3>4, <3>5, <3>6, <4>1 DEF Underway
      <3> QED BY <2>2, <3>2, <3>7, FreshBusy
    <2> QED BY <2>1, <2>4, <2>5
  <1>2. ASSUME NEW r \in Requests, Apply(r) PROVE FreshInv'
    <2> DEFINE p == Applied(req[r])
    <2>1. /\ conf' = conf /\ pending' = pending /\ tuns' = tuns /\ live' = live /\ listen' = listen
          /\ req[r].pc = "apply" /\ Accepts(req[r]) /\ req[r] \in Handlers /\ HandlerOK(req[r])
          /\ Becomes(r, p) /\ p \in Handlers /\ p.pc \in {"jobs", "inbounds"}
          /\ p.kind = req[r].kind /\ p.jobs = req[r].jobs /\ p.tun = req[r].tun /\ p.new = Changed(req[r])
      BY <1>2, ApplyFacts, ReqFacts DEF Steady
    <2> HIDE DEF p
    <2>2. Underway(req[r], conf, pending, tuns, live, listen)
      BY <1>a, <2>1
    <2>3. TunsOf(Changed(req[r]).obs) \subseteq live /\ Fresh(Changed(req[r]).obs, listen, req[r].jobs)
      BY <2>1, <2>2, ChangedFresh
    <2>4. Underway(p, conf', pending', tuns', live', listen')
      BY <2>1, <2>2, <2>3 DEF Underway
    <2> QED BY <1>0, <2>1, <2>4, FreshBusy
  <1>3. ASSUME NEW r \in Requests, SyncEntry(r) PROVE FreshInv'
    <2>1. /\ conf' = conf /\ pending' = pending /\ tuns' = tuns /\ live' = live /\ listen' = listen
          /\ req[r].pc = "jobs" /\ req[r].new \in Confs /\ listen \in Ports
      BY <1>3, SyncEntryFacts DEF Steady, TypeInv
    <2>2. PICK j \in req[r].jobs :
              /\ j.tag \in Tags /\ j.tun \in Tunnels
              /\ Becomes(r, Worked(req[r], j)) /\ Worked(req[r], j) \in Handlers
              /\ Worked(req[r], j).pc \in {"inbounds", "jobs"}
              /\ Worked(req[r], j).kind = req[r].kind /\ Worked(req[r], j).tun = req[r].tun
              /\ Worked(req[r], j).jobs = req[r].jobs \ {j}
              /\ Worked(req[r], j).new = Attach(req[r].new, j.tag, j.tun, listen)
      BY <1>3, SyncEntryFacts
    <2> DEFINE p == Worked(req[r], j)
               c == req[r].new
               d == Attach(c, j.tag, j.tun, listen)
    <2>3. Underway(req[r], conf, pending, tuns, live, listen)
      BY <1>a, <2>1
    <2>4. /\ \A o \in DOMAIN c.obs : c.obs[o].tun \in live
          /\ \A o \in DOMAIN c.obs : IsSocks(o) => c.obs[o].port = listen \/ \E i \in req[r].jobs : i.tag = o[2]
          /\ j.tun \in live
      BY <2>1, <2>3, TunsOfFacts, FreshFacts DEF Underway, Writing
    <2>5. /\ DOMAIN d.obs \subseteq DOMAIN c.obs \cup {Ps(j.tag)}
          /\ \A o \in DOMAIN d.obs : d.obs[o] = IF IsSocks(o) /\ o[2] = j.tag THEN Out(j.tun, listen) ELSE c.obs[o]
      BY <2>1, <2>2, AttachFacts
    <2> HIDE DEF p, c, d
    <2>6. ASSUME NEW o \in DOMAIN d.obs
          PROVE  /\ d.obs[o].tun \in live
                 /\ IsSocks(o) => d.obs[o].port = listen \/ \E i \in req[r].jobs \ {j} : i.tag = o[2]
      <3>1. CASE IsSocks(o) /\ o[2] = j.tag
        BY <2>4, <2>5, <3>1, OutFacts
      <3>2. CASE ~(IsSocks(o) /\ o[2] = j.tag)
        <4>1. o \in DOMAIN c.obs /\ d.obs[o] = c.obs[o]
          BY <2>5, <2>6, <3>2, TagFacts
        <4> QED BY <2>4, <3>2, <4>1
      <3> QED BY <3>1, <3>2
    <2>7. TunsOf(d.obs) \subseteq live /\ Fresh(d.obs, listen, req[r].jobs \ {j})
      BY <2>6, TunsOfFacts, FreshFacts
    <2>8. /\ Becomes(r, p) /\ p \in Handlers /\ p.pc \in {"inbounds", "jobs"} /\ p.kind = req[r].kind
          /\ p.tun = req[r].tun /\ p.jobs = req[r].jobs \ {j} /\ p.new = d
      BY <2>2 DEF p, c, d
    <2>9. Underway(p, conf', pending', tuns', live', listen')
      BY <2>1, <2>3, <2>7, <2>8 DEF Underway
    <2> QED BY <1>0, <2>1, <2>8, <2>9, FreshBusy
  <1>4. ASSUME NEW r \in Requests, Refuse(r) PROVE FreshInv'
    <2>1. /\ conf' = conf /\ tuns' = tuns /\ live' = live /\ listen' = listen /\ req[r].pc = "apply"
          /\ Becomes(r, Free) /\ Answer(r, FALSE)
      BY <1>4, RefuseFacts DEF Steady
    <2>2. ~Accepts(req[r]) /\ HandlerOK(req[r]) /\ (req[r].kind \in {"clone", "strip"} => pending')
      BY <1>4, <2>1, ReqFacts, AnswerFacts DEF Refuse
    <2>3. req[r].kind \notin {"strip", "sync"}
      BY <2>2 DEF Accepts
    <2>4. req[r].jobs = {}
      BY <2>1, <2>2, <2>3 DEF HandlerOK
    <2>5. Underway(req[r], conf, pending, tuns, live, listen)
      BY <1>a, <2>1
    <2>6. TunsOf(conf.obs) \subseteq live /\ Fresh(conf.obs, listen, {}) /\ (~pending' => live = tuns)
      BY <2>1, <2>2, <2>3, <2>4, <2>5 DEF Underway
    <2> QED BY <1>0, <2>1, <2>6, FreshOverOne
  <1>5. ASSUME NEW r \in Requests, WriteSB(r) PROVE FreshInv'
    <2>1. pending' = pending /\ tuns' = tuns /\ live' = live /\ listen' = listen /\ req[r].pc \in Writing
      BY <1>5, WriteFacts DEF Steady
    <2>2. PICK p \in Handlers :
            /\ Becomes(r, p) /\ p.pc \in {"outbounds", "route", "restart"}
            /\ p.kind = req[r].kind /\ p.tun = req[r].tun /\ p.jobs = req[r].jobs /\ p.new = req[r].new
      <3>1. PICK next \in {"outbounds", "route", "restart"} :
              /\ Becomes(r, At(req[r], next)) /\ At(req[r], next) \in Handlers /\ At(req[r], next).pc = next
              /\ At(req[r], next).kind = req[r].kind /\ At(req[r], next).tun = req[r].tun
              /\ At(req[r], next).jobs = req[r].jobs /\ At(req[r], next).new = req[r].new
        BY <1>5, WriteFacts
      <3> QED BY <3>1
    <2>3. Underway(req[r], conf, pending, tuns, live, listen) /\ req[r].pc # "idle"
      BY <1>a, <2>1 DEF Writing
    <2>4. Underway(p, conf', pending', tuns', live', listen')
      BY <2>1, <2>2, <2>3 DEF Underway
    <2> QED BY <1>0, <2>2, <2>3, <2>4, FreshBusy
  <1>6. ASSUME NEW r \in Requests, RestartSingBox(r) PROVE FreshInv'
    <2>1. /\ conf' = conf /\ tuns' = tuns /\ live' = live /\ listen' = listen /\ req[r].pc = "restart"
          /\ conf = req[r].new /\ req[r].jobs = {}
      BY <1>6, RestartFacts, ReqFacts DEF Steady, HandlerOK
    <2>2. Underway(req[r], conf, pending, tuns, live, listen)
      BY <1>a, <2>1
    <2>3. TunsOf(conf.obs) \subseteq live /\ Fresh(conf.obs, listen, {})
      BY <2>1, <2>2 DEF Underway, Writing
    <2>4. CASE req[r].kind \notin Saves
      <3>1. Answer(r, TRUE) /\ Becomes(r, Free)
        BY <1>6, <2>4, RestartFacts
      <3>2. req[r].kind \in {"clone", "strip"} => pending'
        BY <3>1, AnswerFacts
      <3>3. ~pending' => live = tuns
        BY <2>2, <3>2 DEF Underway
      <3> QED BY <1>0, <2>1, <2>3, <3>1, <3>3, FreshOverOne
    <2>5. CASE req[r].kind \in Saves
      <3> DEFINE p == At(req[r], "save")
      <3>1. /\ pending' = pending /\ Becomes(r, p) /\ p \in Handlers /\ p.pc = "save"
            /\ p.kind = req[r].kind /\ p.tun = req[r].tun /\ p.jobs = {}
        BY <1>6, <2>5, RestartFacts
      <3> HIDE DEF p
      <3>2. Underway(p, conf', pending', tuns', live', listen')
        BY <2>1, <2>2, <2>3, <3>1 DEF Underway, Writing
      <3> QED BY <1>0, <2>1, <3>1, <3>2, FreshBusy
    <2> QED BY <2>4, <2>5
  <1>7. ASSUME NEW r \in Requests, SaveDisabled(r) PROVE FreshInv'
    <2>1. /\ conf' = conf /\ tuns' = tuns /\ live' = live /\ listen' = listen /\ req[r].pc = "save"
          /\ Becomes(r, Free) /\ (req[r].kind \in {"clone", "strip"} => pending')
      BY <1>7, SaveFacts, AnswerFacts
    <2>2. Underway(req[r], conf, pending, tuns, live, listen)
      BY <1>a, <2>1
    <2>3. TunsOf(conf.obs) \subseteq live /\ Fresh(conf.obs, listen, {}) /\ (~pending' => live = tuns)
      BY <2>1, <2>2 DEF Underway
    <2> QED BY <1>0, <2>1, <2>3, FreshOverOne
  <1>8. CASE RestartProxy
    <2>1. /\ Resting /\ conf' = conf /\ live' = live /\ listen' = listen /\ tuns' = live
          /\ \A p \in Requests : req'[p].pc = "idle"
      BY <1>8, CalmRestart, RestartProxyFacts, FreeFacts
    <2>2. TunsOf(conf.obs) \subseteq live /\ Fresh(conf.obs, listen, {})
      BY <2>1 DEF FreshInv
    <2> QED BY <2>1, <2>2, FreshOver
  <1>9. CASE UNCHANGED vars
    BY <1>9 DEF vars, FreshInv, Resting
  <1>10. ~Kill /\ \A r \in Requests : ~RestartFails(r) /\ ~WriteFails(r)
    BY Whole DEF RestartFails
  <1> QED BY <1>1, <1>2, <1>3, <1>4, <1>5, <1>6, <1>7, <1>8, <1>9, <1>10, NextCases

(* Between requests the outbounds of known tunnels lead to the address the *)
(* proxy listens on, if the operator takes one thing at a time, waits for  *)
(* the proxy to restart, and nothing fails.                                *)
THEOREM OutboundsAlwaysFresh ==
  ASSUME Turns, "restarts" \in Habits, Faults = {}
  PROVE  Spec => []OutboundsFresh
  <1> DEFINE Inv == TypeInv /\ CalmInv /\ CopyInv /\ OwnInv /\ FreshInv
  <1>0. "restart" \notin Faults /\ Intact
    BY DEF Intact
  <1>1. Init => Inv
    BY <1>0, TypeInit, CalmInit, CopyInit, OwnInit, FreshInit DEF Uncut
  <1>2. Inv /\ [Next]_vars => Inv'
    BY <1>0, TypeStep, CalmStep, CopyStep, OwnStep, FreshStep DEF Uncut
  <1>3. Inv => OutboundsFresh
    BY FreshFacts DEF FreshInv, OutboundsFresh, SocksObs, Socks
  <1> QED BY <1>1, <1>2, <1>3, PTL DEF Spec
=============================================================================
