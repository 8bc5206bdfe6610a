----------------------------- MODULE HostNetProofs -----------------------------
(***************************************************************************)
(* The program on its host, for every set of names, files and requests,    *)
(* with one request at a time by an operator who has the file in view, and *)
(* whatever of main or of a handler fails, is flushed, killed or restarted *)
(* but for a failure or a kill between truncating and filling config.yaml. *)
(* The inductive invariant has four parts, each resting on those before    *)
(* it: the documents, the process and its memory, numbers and routes, and  *)
(* nft.                                                                    *)
(***************************************************************************)
EXTENDS HostNet, SeqPickProofs

-----------------------------------------------------------------------------
(* What the theorems assume of the constants.                              *)

(* The files to start with are valid, the operator makes one request at a  *)
(* time with the file in view, and nothing fails or is killed between      *)
(* writeYAMLDoc's truncating and filling the file.                         *)
Orderly ==
  /\ {"turns", "careful"} \subseteq Habits /\ "write" \notin Events
  /\ \A f \in Files : Valid(f)

-----------------------------------------------------------------------------
(* The documents.                                                          *)

Phases == {"off", "write", "up", "takeover", "rules", "nft", "serve"}

Asked == [pc : {"idle", "addLoad", "open", "write"}, name : Names \cup {NoName},
          doc : Docs \cup {<<>>}, tun : Seq(Tuns)]

Busy(r)     == req[r].pc # "idle"
Editing(r)  == req[r].pc \in {"open", "write"}
Writing     == \E r \in Requests : req[r].pc = "write"

(* One request at a time, and only while the program serves.               *)
OneAtATime ==
  /\ \A r, q \in Requests : Busy(r) /\ Busy(q) => r = q
  /\ up <=> phase = "serve"
  /\ ~up => ~pending /\ \A r \in Requests : ~Busy(r)

(* The file on disk starts, but while it is written; what is written then  *)
(* will.                                                                   *)
Fit(f, w) == f \in Docs /\ Valid(f) /\ NamesIn(f) \subseteq w

Adds(r) ==
  LET t == req[r].tun[1] IN
  /\ req[r].tun = <<t>> /\ t.name = req[r].name /\ t.name \in wgs \ NamesIn(file)
  /\ t.table # 0 /\ t.mark # 0

DocInv ==
  /\ file \in Docs /\ wgs \subseteq Names /\ up \in BOOLEAN /\ pending \in BOOLEAN
  /\ phase \in Phases /\ req \in [Requests -> Asked]
  /\ OneAtATime
  /\ ~Writing => Fit(file, wgs)
  /\ \A r \in Requests :
       /\ Editing(r) => Fit(req[r].doc, IF Deletes(r) THEN wgs \ {req[r].name} ELSE wgs)
       /\ req[r].pc = "addLoad" => Adds(r)

(* What is in memory was such a file, with its numbers filled in.          *)
CfgInv ==
  /\ Fit(cfg, Names) /\ cfg.default \in NamesIn(cfg)
  /\ \A i \in DOMAIN cfg.tunnels : cfg.tunnels[i].table > 0 /\ cfg.tunnels[i].mark > 0

-----------------------------------------------------------------------------
(* The process and its memory.                                             *)

Deleting(n) == \E r \in Requests : Editing(r) /\ Deletes(r) /\ req[r].name = n

(* Interfaces main has brought up by now, and nobody has taken down.       *)
BroughtUp(i) ==
  \/ phase = "up" /\ i < step
  \/ phase \in {"takeover", "rules", "nft"}
  \/ phase = "serve" /\ ~pending /\ ~Deleting(Tun(i).name) /\ Tun(i).name \notin cut

(* The process runs with the tunnels of the file, and with its default but *)
(* for a putSocks that failed; the file a putSocks will write has the same *)
(* tunnels.                                                                *)
SameAsFile ==
  /\ phase # "off" /\ ~pending /\ ~Writing =>
       cfg.tunnels = Load(file).tunnels /\ (NoName \notin cut => cfg = Load(file))
  /\ \A r \in Requests :
       Editing(r) /\ req[r].name = NoName /\ ~pending => Load(req[r].doc).tunnels = cfg.tunnels

(* What Tunnel.Down can leave.                                             *)
Leftovers == [Names -> SUBSET {"wg", "nft"}]

MemInv ==
  /\ links \in [Names -> Nat] /\ left \in Leftovers /\ cut \subseteq Names \cup {NoName}
  /\ DOMAIN etc = Names /\ \A n \in Names : links[n] # NoLink => etc[n].table \in Nat \ {0}
  /\ SameAsFile
  /\ phase \in {"write", "up", "rules", "nft"} => step \in DOMAIN cfg.tunnels
  /\ \A i \in DOMAIN cfg.tunnels : BroughtUp(i) => links[Tun(i).name] # NoLink

-----------------------------------------------------------------------------
(* Numbers and routes.                                                     *)

(* The tunnels of a file with their numbers filled in.                     *)
Nums(f) == ToSet(Load(f).tunnels)

Numbered(ts) ==
  \A t \in ts :
    /\ t.mark = t.table /\ t.table \in 1 .. MaxNumber
    /\ \A u \in ts : u.table = t.table \/ u.name = t.name => u = t

(* No number left out but that of the first tunnel, so that none changes   *)
(* when another tunnel is deleted.                                         *)
Steady(f) == \A i \in DOMAIN f.tunnels : i > 1 => f.tunnels[i].table # 0 /\ f.tunnels[i].mark # 0

(* An interface that is up has the table of a tunnel of its name, or there *)
(* is no such tunnel and its Down failed.                                  *)
LinksOf(l, ts, lf) ==
  \A n \in Names : l[n] # NoLink =>
    \/ \E t \in ts : t.name = n /\ t.table = l[n]
    \/ "wg" \in lf[n] /\ \A t \in ts : t.name # n

(* A table has the routes of one interface.                                *)
OneEach(l) == \A n, k \in Names : l[n] # NoLink /\ l[n] = l[k] => n = k

InOrder(f, l, lf) == Steady(f) /\ Numbered(Nums(f)) /\ LinksOf(l, Nums(f), lf)

OwnNumber(x) == x.mark = x.table /\ x.table \in 1 .. MaxNumber

Fresh(t, f) == OwnNumber(t) /\ \A u \in Nums(f) : u.table # t.table

(* The kernel's part: interfaces, the files of wg-quick, and the rules.    *)
HostNums ==
  /\ phase # "off" => LinksOf(links, ToSet(cfg.tunnels), left)
  /\ OneEach(links) /\ \A n \in Names : links[n] # NoLink => etc[n].table = links[n]
  /\ \A n \in Names : etc[n].by # "old" /\ etc[n].table # NoLink => OwnNumber(etc[n])
  /\ \A x \in rules : OwnNumber(x)

NumInv ==
  /\ ~Writing => InOrder(file, links, left)
  /\ \A r \in Requests :
       /\ Editing(r) => InOrder(req[r].doc, links, left)
       /\ req[r].pc = "addLoad" => Fresh(req[r].tun[1], file) /\ links[req[r].name] = NoLink
  /\ Numbered(ToSet(cfg.tunnels))
  /\ HostNums

(* The files to start with give every tunnel one number, its own and in    *)
(* the range of ip rule's mask, for its table and its mark, as the program *)
(* does; the first tunnel may leave it out.                                *)
OwnNumbers ==
  /\ MaxNumber < MarkSpace
  /\ \A f \in Files : Steady(f) /\ Numbered(Nums(f))

-----------------------------------------------------------------------------
(* nft.                                                                    *)

(* A table that is loaded is that of a tunnel, or of one whose Down failed.*)
TablesOf(tb, ns, lf) ==
  \A x \in Range(NftName) : tb[x] # <<>> => \E n \in Names : NftName[n] = x /\ (n \in ns \/ lf[n] # {})

(* What the table and the file of a tunnel can hold.                       *)
NftRules(n) == [mark : Nat, src : {"any", "notBase"}, do : {"seed", "accept", "pool"} \X {n}]

Written(i) == phase \notin {"off", "write"} \/ (phase = "write" /\ i < step)
Loaded(i)  == phase = "serve" \/ (phase \in {"rules", "nft"} /\ i < step)
Taken(i)   == phase \in {"takeover", "rules", "nft", "serve"} \/ (phase = "up" /\ i < step)

(* What is on disk, or will be, has every table that is loaded.            *)
NftDocs ==
  /\ ~Writing => TablesOf(tables, NamesIn(file), left)
  /\ \A r \in Requests : Editing(r) => TablesOf(tables, NamesIn(req[r].doc), left)

(* Whatever is loaded or on disk under a tunnel's name is about it, and    *)
(* what a Down left is of the program's own making.                        *)
Labelled ==
  \A n \in Names :
    /\ tables[NftName[n]] \in Seq(NftRules(n)) /\ runtime[NftName[n]] \in Seq(NftRules(n))
    /\ left[n] # {} => etc[n].by = "program"

(* A tunnel's table is what WriteNFT wrote, and loaded unless the tunnel   *)
(* was taken down.                                                         *)
Prepared(i) ==
  LET t == Tun(i)
      x == NftName[t.name] IN
  /\ Written(i) => runtime[x] = BuildNFT(t)
  /\ Taken(i)   => etc[t.name].by = "program"
  /\ Loaded(i)  => \/ tables[x] = BuildNFT(t)
                   \/ tables[x] = <<>> /\ (links[t.name] = NoLink \/ "wg" \in left[t.name])

NftInv ==
  /\ DOMAIN tables = Range(NftName) /\ DOMAIN runtime = Range(NftName)
  /\ NftDocs /\ Labelled
  /\ phase # "off" => TablesOf(tables, NamesIn(cfg), left)
  /\ phase \in {"rules", "nft", "serve"} => legacy = {}
  /\ \A i \in DOMAIN cfg.tunnels : Prepared(i)

(* Every tunnel has an nft table of its own, and seed accounts have marks  *)
(* of their own.                                                           *)
OwnTables ==
  /\ \A n, k \in Names : NftName[n] = NftName[k] => n = k
  /\ \A n, k \in Names : SeedMarks[n] \cap SeedMarks[k] # {} => n = k
  /\ \A n \in Names : SeedMarks[n] \cap (1 .. MaxNumber) = {}

-----------------------------------------------------------------------------
(* What the helpers make of a file.                                        *)

LEMMA DocFacts ==
  ASSUME NEW f \in Docs
  PROVE  /\ f = [tunnels |-> f.tunnels, default |-> f.default, seeds |-> f.seeds]
         /\ f.tunnels \in Seq(Tuns) /\ f.default \in Names \cup {NoName} /\ f.seeds \subseteq Names
         /\ Len(f.tunnels) \in Nat /\ DOMAIN f.tunnels = 1 .. Len(f.tunnels)
         /\ \A i \in DOMAIN f.tunnels : f.tunnels[i] \in Tuns /\ i \in Nat /\ i >= 1
         /\ NamesIn(f) \subseteq Names /\ NamesIn(f) = {t.name : t \in ToSet(f.tunnels)}
         /\ f.tunnels # <<>> => 1 \in DOMAIN f.tunnels
  <1>1. /\ f = [tunnels |-> f.tunnels, default |-> f.default, seeds |-> f.seeds]
        /\ f.tunnels \in Seq(Tuns) /\ f.default \in Names \cup {NoName} /\ f.seeds \subseteq Names
    BY DEF Docs
  <1>2. /\ Len(f.tunnels) \in Nat /\ DOMAIN f.tunnels = 1 .. Len(f.tunnels)
        /\ \A i \in DOMAIN f.tunnels : f.tunnels[i] \in Tuns /\ i \in Nat /\ i >= 1
    BY <1>1
  <1>3. NamesIn(f) \subseteq Names /\ NamesIn(f) = {t.name : t \in ToSet(f.tunnels)}
    BY <1>2 DEF NamesIn, Tuns, ToSet
  <1>4. f.tunnels # <<>> => 1 \in DOMAIN f.tunnels
    BY <1>1, <1>2, EmptySeq
  <1> QED BY <1>1, <1>2, <1>3, <1>4

(* LoadConfig fills in numbers, and a default.                             *)
LEMMA LoadFacts ==
  ASSUME NEW f \in Docs
  PROVE  /\ Load(f) \in Docs /\ DOMAIN Load(f).tunnels = DOMAIN f.tunnels /\ Load(f).seeds = f.seeds
         /\ \A i \in DOMAIN f.tunnels :
              LET t == Load(f).tunnels[i] IN
              /\ t \in Tuns /\ t.name = f.tunnels[i].name
              /\ t.table = Number(f.tunnels[i].table, TableBase, i) /\ t.table > 0
              /\ t.mark = Number(f.tunnels[i].mark, MarkBase, i) /\ t.mark > 0
         /\ Load(f).default = IF f.default = NoName /\ f.tunnels # <<>> THEN f.tunnels[1].name ELSE f.default
         /\ NamesIn(Load(f)) = NamesIn(f)
  <1> DEFINE L(i) == [f.tunnels[i] EXCEPT !.table = Number(@, TableBase, i), !.mark = Number(@, MarkBase, i)]
             ts == [i \in DOMAIN f.tunnels |-> L(i)]
             d == IF f.default = NoName /\ f.tunnels # <<>> THEN f.tunnels[1].name ELSE f.default
  <1>1. /\ f = [tunnels |-> f.tunnels, default |-> f.default, seeds |-> f.seeds]
        /\ f.tunnels \in Seq(Tuns) /\ f.default \in Names \cup {NoName} /\ f.seeds \subseteq Names
        /\ Len(f.tunnels) \in Nat /\ DOMAIN f.tunnels = 1 .. Len(f.tunnels)
        /\ \A i \in DOMAIN f.tunnels : f.tunnels[i] \in Tuns /\ i \in Nat /\ i >= 1
        /\ f.tunnels # <<>> => 1 \in DOMAIN f.tunnels
    BY DocFacts
  <1>2. ASSUME NEW i \in DOMAIN f.tunnels
        PROVE  /\ L(i) \in Tuns /\ L(i).name = f.tunnels[i].name
               /\ L(i).table = Number(f.tunnels[i].table, TableBase, i) /\ L(i).table > 0
               /\ L(i).mark = Number(f.tunnels[i].mark, MarkBase, i) /\ L(i).mark > 0
    <2>1. f.tunnels[i] \in Tuns /\ i \in Nat /\ i >= 1
      BY <1>1
    <2>2. \A k \in Nat : Number(k, TableBase, i) \in Nat /\ Number(k, TableBase, i) > 0
                         /\ Number(k, MarkBase, i) \in Nat /\ Number(k, MarkBase, i) > 0
      BY <2>1 DEF Number, TableBase, MarkBase
    <2> QED BY <2>1, <2>2 DEF Tuns
  <1> HIDE DEF L
  <1>3. ts \in Seq(Tuns) /\ DOMAIN ts = DOMAIN f.tunnels /\ \A i \in DOMAIN f.tunnels : ts[i] = L(i)
    BY <1>1, <1>2, SeqDef
  <1>4. d \in Names \cup {NoName}
    BY <1>1 DEF Tuns
  <1>5. Load(f) = [tunnels |-> ts, default |-> d, seeds |-> f.seeds]
    <2>1. Load(f) = [f EXCEPT !.tunnels = ts, !.default = d]
      BY DEF Load, L
    <2> HIDE DEF ts, d
    <2> QED BY <1>1, <2>1
  <1> HIDE DEF ts, d
  <1>6. Load(f) \in Docs /\ Load(f).tunnels = ts /\ Load(f).default = d /\ Load(f).seeds = f.seeds
    BY <1>1, <1>3, <1>4, <1>5 DEF Docs
  <1>7. NamesIn(Load(f)) = NamesIn(f)
    BY <1>2, <1>3, <1>6 DEF NamesIn
  <1> QED BY <1>2, <1>3, <1>6, <1>7 DEF d

LEMMA ValidFacts ==
  ASSUME NEW f \in Docs
  PROVE  /\ Valid(f) => f.tunnels # <<>> /\ NamesIn(f) # {} /\ Load(f).default \in NamesIn(f)
         /\ Valid(f) => Valid(Load(f))
  <1>1. /\ Load(f) \in Docs /\ DOMAIN Load(f).tunnels = DOMAIN f.tunnels
        /\ \A i \in DOMAIN f.tunnels : Load(f).tunnels[i].name = f.tunnels[i].name
        /\ NamesIn(Load(f)) = NamesIn(f)
    BY LoadFacts
  <1>2. /\ Load(Load(f)).default =
             IF Load(f).default = NoName /\ Load(f).tunnels # <<>> THEN Load(f).tunnels[1].name ELSE Load(f).default
    BY <1>1, LoadFacts
  <1>3. NoName \notin NamesIn(f)
    BY DocFacts, FilesAssumption
  <1>4. Valid(f) => Load(f).tunnels # <<>>
    BY <1>1, DocFacts DEF Valid
  <1> QED BY <1>1, <1>2, <1>3, <1>4 DEF Valid

(* yamlRemoveTunnel: the tunnels left keep their order, and their numbers  *)
(* unless one that was not first had none.                                 *)
LEMMA WithoutFacts ==
  ASSUME NEW f \in Docs, NEW n \in Names
  PROVE  /\ Without(f, n) \in Docs
         /\ NamesIn(Without(f, n)) = NamesIn(f) \ {n}
         /\ Valid(f) /\ n # Load(f).default /\ NamesIn(f) # {n} => Valid(Without(f, n))
         /\ Steady(f) => /\ Steady(Without(f, n))
                         /\ Nums(Without(f, n)) = {t \in Nums(f) : t.name # n}
  <1> DEFINE ts == f.tunnels
             keep == {i \in DOMAIN ts : ts[i].name # n}
             us == Pick(ts, keep)
             g == Without(f, n)
  <1>1. /\ f = [tunnels |-> ts, default |-> f.default, seeds |-> f.seeds]
        /\ ts \in Seq(Tuns) /\ f.default \in Names \cup {NoName} /\ f.seeds \subseteq Names
        /\ Len(ts) \in Nat /\ DOMAIN ts = 1 .. Len(ts)
        /\ \A i \in DOMAIN ts : ts[i] \in Tuns /\ i \in Nat /\ i >= 1
    BY DocFacts
  <1>2. keep \in SUBSET (1 .. Len(ts))
    BY <1>1
  <1>3. PICK at : Orders(at, keep) /\ us = [i \in 1 .. Cardinality(keep) |-> ts[at[i]]]
    <2> HIDE DEF ts, keep
    <2> QED BY <1>1, <1>2, PickOrder
  <1>4. us \in Seq(Tuns)
    <2> HIDE DEF ts, keep
    <2> QED BY <1>1, <1>2, PickMembers
  <1> DEFINE m == Cardinality(keep)
  <1>5. /\ m \in Nat /\ DOMAIN us = 1 .. m /\ us = [i \in 1 .. m |-> ts[at[i]]]
        /\ \A i \in 1 .. m : at[i] \in keep
        /\ \A k \in keep : \E i \in 1 .. m : at[i] = k
        /\ \A i, j \in 1 .. m : i < j => at[i] < at[j]
    <2> HIDE DEF keep, ts
    <2> QED BY <1>3 DEF Orders
  <1>6. g = [tunnels |-> us, default |-> f.default, seeds |-> f.seeds \ {n}]
    <2>1. g = [f EXCEPT !.tunnels = us, !.seeds = f.seeds \ {n}]
      BY DEF Without
    <2> HIDE DEF us, ts, g
    <2> QED BY <1>1, <2>1
  <1> HIDE DEF us, g
  <1>7. g \in Docs /\ g.tunnels = us /\ g.default = f.default
    BY <1>1, <1>4, <1>6 DEF Docs
  <1>8. \A i \in DOMAIN us : us[i] = ts[at[i]] /\ at[i] \in DOMAIN ts /\ us[i].name # n
    BY <1>5
  <1>9. NamesIn(g) = NamesIn(f) \ {n}
    <2>1. NamesIn(g) = {us[i].name : i \in 1 .. m}
      BY <1>5, <1>7 DEF NamesIn
    <2>2. NamesIn(f) \ {n} = {ts[k].name : k \in keep}
      BY DEF NamesIn
    <2> HIDE DEF keep, m, ts
    <2> QED BY <1>5, <2>1, <2>2
  <1>10. ASSUME NEW i \in 1 .. m, at[i] = 1 PROVE i = 1
    <2>1. 1 \in 1 .. m /\ (i > 1 => at[1] < at[i])
      BY <1>5
    <2>2. at[1] \in Nat /\ at[1] >= 1
      BY <1>1, <1>5, <2>1
    <2> QED BY <1>10, <1>5, <2>1, <2>2
  <1>11. ASSUME Valid(f), n # Load(f).default, NamesIn(f) # {n}
         PROVE  Valid(g)
    <2>1. NamesIn(g) # {}
      BY <1>9, <1>11, ValidFacts
    <2>2. us # <<>> /\ 1 \in DOMAIN us
      BY <1>7, <2>1, DocFacts DEF NamesIn
    <2>3. ASSUME NEW i \in DOMAIN us, NEW j \in DOMAIN us, us[i].name = us[j].name
          PROVE  i = j
      <3>1. at[i] = at[j]
        BY <1>8, <1>11, <2>3 DEF Valid
      <3>2. i \in Nat /\ j \in Nat /\ at[i] \in Nat /\ (i < j => at[i] < at[j]) /\ (j < i => at[j] < at[i])
        BY <1>1, <1>5, <1>8
      <3> QED BY <3>1, <3>2
    <2>4. Load(g).default \in NamesIn(g)
      <3>1. Load(g).default = IF f.default = NoName THEN us[1].name ELSE f.default
        BY <1>7, <2>2, LoadFacts
      <3>2. us[1].name \in NamesIn(g)
        BY <1>7, <2>2 DEF NamesIn
      <3>3. f.default # NoName => f.default = Load(f).default
        BY LoadFacts
      <3>4. Load(f).default \in NamesIn(f)
        BY <1>11 DEF Valid
      <3> QED BY <1>9, <1>11, <3>1, <3>2, <3>3, <3>4
    <2> QED BY <1>7, <2>2, <2>3, <2>4 DEF Valid
  <1>12. ASSUME Steady(f)
         PROVE  Steady(g) /\ Nums(g) = {t \in Nums(f) : t.name # n}
    <2>1. ASSUME NEW i \in DOMAIN us, i > 1
          PROVE  us[i].table # 0 /\ us[i].mark # 0
      <3>1. at[i] # 1 /\ at[i] \in DOMAIN ts /\ us[i] = ts[at[i]]
        BY <1>5, <1>8, <1>10, <2>1
      <3> QED BY <1>1, <1>12, <3>1 DEF Steady
    <2>2. Steady(g)
      BY <1>7, <2>1 DEF Steady
    <2>3. ASSUME NEW i \in DOMAIN us
          PROVE  Load(g).tunnels[i] = Load(f).tunnels[at[i]]
      <3> DEFINE a == Load(g).tunnels[i]
                 b == Load(f).tunnels[at[i]]
      <3>0. us[i] = ts[at[i]] /\ at[i] \in DOMAIN ts
        BY <1>8
      <3>1. /\ a \in Tuns /\ a.name = us[i].name
            /\ a.table = Number(us[i].table, TableBase, i)
            /\ a.mark = Number(us[i].mark, MarkBase, i)
        BY <1>7, LoadFacts
      <3>2. /\ b \in Tuns /\ b.name = us[i].name
            /\ b.table = Number(us[i].table, TableBase, at[i])
            /\ b.mark = Number(us[i].mark, MarkBase, at[i])
        BY <3>0, LoadFacts
      <3> HIDE DEF a, b
      <3>3. at[i] = 1 => i = 1
        BY <1>5, <1>10
      <3>4. at[i] # 1 => us[i].table # 0 /\ us[i].mark # 0
        BY <1>1, <1>12, <3>0 DEF Steady
      <3>5. a.table = b.table /\ a.mark = b.mark
        BY <3>1, <3>2, <3>3, <3>4 DEF Number
      <3>6. a = b
        BY <3>1, <3>2, <3>5 DEF Tuns
      <3> QED BY <3>6 DEF a, b
    <2>4. /\ Nums(g) = {Load(g).tunnels[i] : i \in 1 .. m}
          /\ Nums(f) = {Load(f).tunnels[k] : k \in DOMAIN ts}
          /\ \A k \in DOMAIN ts : Load(f).tunnels[k].name = ts[k].name
      BY <1>5, <1>7, LoadFacts DEF Nums, ToSet
    <2>5. Nums(g) = {Load(f).tunnels[at[i]] : i \in 1 .. m}
      BY <1>5, <2>3, <2>4
    <2>6. {t \in Nums(f) : t.name # n} = {Load(f).tunnels[k] : k \in keep}
      BY <2>4
    <2> HIDE DEF keep, m, ts
    <2> QED BY <1>5, <2>2, <2>5, <2>6
  <1> QED BY <1>7, <1>9, <1>11, <1>12 DEF g

(* yamlAppendTunnel.                                                       *)
LEMMA AppendFacts ==
  ASSUME NEW f \in Docs, NEW t \in Tuns, t.table # 0, t.mark # 0
  PROVE  /\ [f EXCEPT !.tunnels = @ \o <<t>>] \in Docs
         /\ NamesIn([f EXCEPT !.tunnels = @ \o <<t>>]) = NamesIn(f) \cup {t.name}
         /\ Valid(f) /\ t.name \notin NamesIn(f) => Valid([f EXCEPT !.tunnels = @ \o <<t>>])
         /\ Steady(f) => Steady([f EXCEPT !.tunnels = @ \o <<t>>])
         /\ Nums([f EXCEPT !.tunnels = @ \o <<t>>]) = Nums(f) \cup {t}
  <1> DEFINE ts == f.tunnels
             us == ts \o <<t>>
             g == [f EXCEPT !.tunnels = @ \o <<t>>]
             m == Len(ts)
  <1>1. /\ f = [tunnels |-> ts, default |-> f.default, seeds |-> f.seeds]
        /\ ts \in Seq(Tuns) /\ f.default \in Names \cup {NoName} /\ f.seeds \subseteq Names
        /\ m \in Nat /\ DOMAIN ts = 1 .. m
        /\ \A i \in DOMAIN ts : ts[i] \in Tuns /\ i \in Nat /\ i >= 1
        /\ ts # <<>> => 1 \in DOMAIN ts
    BY DocFacts
  <1>2. /\ us \in Seq(Tuns) /\ DOMAIN us = 1 .. m + 1 /\ us[m + 1] = t
        /\ \A i \in 1 .. m : us[i] = ts[i]
    <2> HIDE DEF ts
    <2> QED BY <1>1
  <1>3. g = [tunnels |-> us, default |-> f.default, seeds |-> f.seeds]
    <2>1. g = [f EXCEPT !.tunnels = us]
      OBVIOUS
    <2> HIDE DEF us, g, ts
    <2> QED BY <1>1, <2>1
  <1> HIDE DEF us, g
  <1>4. g \in Docs /\ g.tunnels = us /\ g.default = f.default
    BY <1>1, <1>2, <1>3 DEF Docs
  <1> HIDE DEF ts, m
  <1>5. NamesIn(f) = {ts[i].name : i \in 1 .. m}
    BY <1>1 DEF NamesIn, ts
  <1>6. NamesIn(g) = NamesIn(f) \cup {t.name}
    <2>1. NamesIn(g) = {us[i].name : i \in 1 .. m + 1}
      BY <1>2, <1>4 DEF NamesIn
    <2>2. 1 .. m + 1 = (1 .. m) \cup {m + 1}
      BY <1>1
    <2> QED BY <1>2, <1>5, <2>1, <2>2
  <1>7. ASSUME Valid(f), t.name \notin NamesIn(f)
        PROVE  Valid(g)
    <2>1. us # <<>> /\ ts # <<>>
      BY <1>1, <1>2, <1>7 DEF Valid, ts
    <2>2. ASSUME NEW i \in 1 .. m + 1, NEW j \in 1 .. m + 1, us[i].name = us[j].name
          PROVE  i = j
      <3>1. \A k \in 1 .. m : ts[k].name \in NamesIn(f) /\ us[k] = ts[k]
        BY <1>2, <1>5
      <3>2. i \in 1 .. m /\ j \in 1 .. m => i = j
        BY <1>1, <1>7, <2>2, <3>1 DEF Valid, ts
      <3>3. i \in 1 .. m => j # m + 1
        BY <1>2, <1>7, <2>2, <3>1
      <3>4. j \in 1 .. m => i # m + 1
        BY <1>2, <1>7, <2>2, <3>1
      <3> QED BY <1>1, <3>2, <3>3, <3>4
    <2>3. Load(g).default = Load(f).default
      <3>1. Load(g).default = IF f.default = NoName /\ us # <<>> THEN us[1].name ELSE f.default
        BY <1>4, LoadFacts
      <3>2. Load(f).default = IF f.default = NoName /\ ts # <<>> THEN ts[1].name ELSE f.default
        BY LoadFacts DEF ts
      <3>3. us[1] = ts[1]
        BY <1>1, <1>2, <2>1
      <3> QED BY <2>1, <3>1, <3>2, <3>3
    <2>4. Load(f).default \in NamesIn(f)
      BY <1>7 DEF Valid
    <2> QED BY <1>2, <1>4, <1>6, <2>1, <2>2, <2>3, <2>4 DEF Valid
  <1>8. ASSUME Steady(f) PROVE Steady(g)
    <2>1. \A i \in 1 .. m : i > 1 => us[i].table # 0 /\ us[i].mark # 0
      BY <1>1, <1>2, <1>8 DEF Steady, ts
    <2>2. \A i \in 1 .. m + 1 : i > 1 => us[i].table # 0 /\ us[i].mark # 0
      BY <1>1, <1>2, <2>1
    <2> QED BY <1>2, <1>4, <2>2 DEF Steady
  <1>9. Nums(g) = Nums(f) \cup {t}
    <2>1. /\ DOMAIN Load(g).tunnels = 1 .. m + 1 /\ DOMAIN Load(f).tunnels = 1 .. m
      BY <1>1, <1>2, <1>4, LoadFacts DEF ts
    <2>2. ASSUME NEW i \in 1 .. m
          PROVE  Load(g).tunnels[i] = Load(f).tunnels[i]
      <3> DEFINE a == Load(g).tunnels[i]
                 b == Load(f).tunnels[i]
      <3>0. i \in DOMAIN us /\ i \in DOMAIN ts /\ us[i] = ts[i]
        BY <1>1, <1>2
      <3>1. /\ a \in Tuns /\ a.name = us[i].name
            /\ a.table = Number(us[i].table, TableBase, i) /\ a.mark = Number(us[i].mark, MarkBase, i)
        BY <1>4, <3>0, LoadFacts
      <3>2. /\ b \in Tuns /\ b.name = us[i].name
            /\ b.table = Number(us[i].table, TableBase, i) /\ b.mark = Number(us[i].mark, MarkBase, i)
        BY <3>0, LoadFacts DEF ts
      <3> HIDE DEF a, b
      <3>3. a = b
        BY <3>1, <3>2 DEF Tuns
      <3> QED BY <3>3 DEF a, b
    <2>3. Load(g).tunnels[m + 1] = t
      <3> DEFINE a == Load(g).tunnels[m + 1]
      <3>1. /\ a \in Tuns /\ a.name = t.name
            /\ a.table = Number(t.table, TableBase, m + 1) /\ a.mark = Number(t.mark, MarkBase, m + 1)
        BY <1>1, <1>2, <1>4, LoadFacts
      <3> HIDE DEF a
      <3>2. a = t
        BY <3>1 DEF Tuns, Number
      <3> QED BY <3>2 DEF a
    <2>4. 1 .. m + 1 = (1 .. m) \cup {m + 1}
      BY <1>1
    <2>5. /\ Nums(g) = {Load(g).tunnels[i] : i \in 1 .. m + 1}
          /\ Nums(f) = {Load(f).tunnels[i] : i \in 1 .. m}
      BY <2>1 DEF Nums, ToSet
    <2> QED BY <2>2, <2>3, <2>4, <2>5
  <1> QED BY <1>4, <1>6, <1>7, <1>8, <1>9 DEF g

(* putSocks: another tunnel of the file is the default.                    *)
LEMMA DefaultFacts ==
  ASSUME NEW f \in Docs, NEW n \in Names
  PROVE  /\ [f EXCEPT !.default = n] \in Docs
         /\ NamesIn([f EXCEPT !.default = n]) = NamesIn(f)
         /\ Valid(f) /\ n \in NamesIn(f) => Valid([f EXCEPT !.default = n])
         /\ Steady(f) => Steady([f EXCEPT !.default = n])
         /\ Nums([f EXCEPT !.default = n]) = Nums(f)
         /\ Load([f EXCEPT !.default = n]).tunnels = Load(f).tunnels
  <1> DEFINE g == [f EXCEPT !.default = n]
  <1>1. f = [tunnels |-> f.tunnels, default |-> f.default, seeds |-> f.seeds]
    BY DocFacts
  <1>2. g = [tunnels |-> f.tunnels, default |-> n, seeds |-> f.seeds]
    BY <1>1
  <1> HIDE DEF g
  <1>3. g \in Docs /\ g.tunnels = f.tunnels /\ g.default = n
    BY <1>2 DEF Docs
  <1>4. NamesIn(g) = NamesIn(f) /\ (Steady(f) => Steady(g))
    BY <1>3 DEF NamesIn, Steady
  <1>5. n # NoName
    BY FilesAssumption
  <1>6. Load(g).default = n
    BY <1>3, <1>5, LoadFacts
  <1>7. Load(g).tunnels = Load(f).tunnels
    BY <1>1, <1>2 DEF Load
  <1> QED BY <1>3, <1>4, <1>6, <1>7 DEF g, Valid, Nums

-----------------------------------------------------------------------------
(* nextTableMark.                                                          *)

(* Finitely many numbers have a bound.                                     *)
LEMMA Bounded ==
  ASSUME NEW m \in Nat, NEW v \in [1 .. m -> Nat]
  PROVE  \E b \in Nat : \A i \in 1 .. m : v[i] <= b
  <1> DEFINE Bounds(k) == {b \in Nat : \A i \in 1 .. k : v[i] <= b}
             bad == {k \in 0 .. m : Bounds(k) = {}}
  <1>1. SUFFICES ASSUME bad # {} PROVE FALSE
    <2>1. m \notin bad
      BY <1>1
    <2> QED BY <2>1
  <1>2. PICK k \in bad : \A y \in bad : k <= y
    <2>1. bad \in SUBSET Nat
      OBVIOUS
    <2> HIDE DEF bad
    <2> QED BY <1>1, <2>1, Least
  <1>3. k # 0
    <2>1. 0 \in Bounds(0)
      OBVIOUS
    <2> QED BY <1>2, <2>1
  <1>4. PICK b \in Nat : \A i \in 1 .. k - 1 : v[i] <= b
    <2>1. k \in 0 .. m
      BY <1>2
    <2>2. k - 1 \in 0 .. m /\ ~(k <= k - 1)
      BY <1>3, <2>1
    <2>3. k - 1 \notin bad
      <3> HIDE DEF bad
      <3> QED BY <1>2, <2>2
    <2> QED BY <2>2, <2>3
  <1>5. k \in 1 .. m /\ v[k] \in Nat
    BY <1>2, <1>3
  <1>6. b + v[k] \in Bounds(k)
    <2>1. ASSUME NEW i \in 1 .. k PROVE v[i] <= b + v[k]
      <3>1. i = k \/ i \in 1 .. k - 1
        BY <1>5
      <3>2. i \in 1 .. m /\ v[i] \in Nat
        BY <1>5
      <3> QED BY <1>4, <1>5, <3>1, <3>2
    <2> QED BY <1>5, <2>1
  <1> QED BY <1>2, <1>6

(* One above every number in use, and the same for tables and marks if     *)
(* those were.                                                             *)
LEMMA NextFacts ==
  ASSUME NEW ts \in Seq(Tuns)
  PROVE  /\ NextNumber(ts, "table") \in Nat \ {0} /\ NextNumber(ts, "mark") \in Nat \ {0}
         /\ \A i \in DOMAIN ts : ts[i].table < NextNumber(ts, "table") /\ ts[i].mark < NextNumber(ts, "mark")
         /\ (\A i \in DOMAIN ts : ts[i].mark = ts[i].table) => NextNumber(ts, "mark") = NextNumber(ts, "table")
  <1> DEFINE S(v) == {63} \cup {v[i] : i \in DOMAIN ts}
             a == [i \in DOMAIN ts |-> ts[i].table]
             b == [i \in DOMAIN ts |-> ts[i].mark]
  <1>1. /\ Len(ts) \in Nat /\ DOMAIN ts = 1 .. Len(ts)
        /\ a \in [1 .. Len(ts) -> Nat] /\ b \in [1 .. Len(ts) -> Nat]
    <2>1. /\ Len(ts) \in Nat /\ DOMAIN ts = 1 .. Len(ts)
          /\ \A i \in DOMAIN ts : ts[i] \in Tuns
      OBVIOUS
    <2>2. \A i \in DOMAIN ts : ts[i].table \in Nat /\ ts[i].mark \in Nat
      BY <2>1 DEF Tuns
    <2> QED BY <2>1, <2>2
  <1>2. /\ NextNumber(ts, "table") = 1 + Max(S(a))
        /\ NextNumber(ts, "mark") = 1 + Max(S(b))
    <2>1. /\ \A i \in DOMAIN ts : ts[i]["table"] = ts[i].table /\ ts[i]["mark"] = ts[i].mark
          /\ TableBase - 1 = 63 /\ MarkBase - 1 = 63
      BY DEF TableBase, MarkBase
    <2>2. /\ {TableBase - 1} \cup {ts[i]["table"] : i \in DOMAIN ts} = S(a)
          /\ {MarkBase - 1} \cup {ts[i]["mark"] : i \in DOMAIN ts} = S(b)
      BY <2>1
    <2>3. /\ NextNumber(ts, "table") = 1 + Max({TableBase - 1} \cup {ts[i]["table"] : i \in DOMAIN ts})
          /\ NextNumber(ts, "mark") = 1 + Max({MarkBase - 1} \cup {ts[i]["mark"] : i \in DOMAIN ts})
      BY DEF NextNumber
    <2> HIDE DEF S, a, b
    <2> QED BY <2>2, <2>3
  <1>3. ASSUME NEW v \in [1 .. Len(ts) -> Nat]
        PROVE  Max(S(v)) \in Nat /\ \A i \in DOMAIN ts : v[i] <= Max(S(v))
    <2>1. PICK c \in Nat : \A i \in 1 .. Len(ts) : v[i] <= c
      BY <1>1, Bounded
    <2>2. S(v) \in SUBSET Nat /\ S(v) # {} /\ \A x \in S(v) : x <= c + 63
      BY <1>1, <2>1
    <2>3. c + 63 \in Nat
      OBVIOUS
    <2>4. \A i \in DOMAIN ts : v[i] \in S(v)
      OBVIOUS
    <2> HIDE DEF S
    <2>5. Max(S(v)) \in S(v) /\ \A x \in S(v) : x <= Max(S(v))
      BY <2>2, <2>3, MaxFacts
    <2> QED BY <2>2, <2>4, <2>5
  <1>4. (\A i \in DOMAIN ts : ts[i].mark = ts[i].table) => a = b
    OBVIOUS
  <1>5. \A i \in DOMAIN ts : a[i] = ts[i].table /\ b[i] = ts[i].mark /\ a[i] \in Nat /\ b[i] \in Nat
    BY <1>1
  <1> HIDE DEF a, b, S
  <1>6. /\ Max(S(a)) \in Nat /\ \A i \in DOMAIN ts : a[i] <= Max(S(a))
        /\ Max(S(b)) \in Nat /\ \A i \in DOMAIN ts : b[i] <= Max(S(b))
    BY <1>1, <1>3
  <1> QED BY <1>2, <1>4, <1>5, <1>6

-----------------------------------------------------------------------------
(* The documents: initially, and step by step.                             *)

LEMMA FileStarts ==
  ASSUME Orderly, NEW f \in Files
  PROVE  /\ f \in Docs /\ Valid(f) /\ Fit(f, NamesIn(f)) /\ Fit(Load(f), Names)
         /\ NamesIn(f) \subseteq Names /\ Load(f).default \in NamesIn(Load(f))
         /\ \A i \in DOMAIN Load(f).tunnels : Load(f).tunnels[i].table > 0 /\ Load(f).tunnels[i].mark > 0
  BY FilesAssumption, DocFacts, LoadFacts, ValidFacts DEF Orderly, Fit

LEMMA FreeFacts ==
  /\ Free \in Asked /\ Free.pc = "idle" /\ Free.name = NoName /\ Free.tun = <<>> /\ Free.doc = <<>>
  /\ Broken \in Docs /\ Broken.tunnels = <<>>
  <1>1. <<>> \in Seq(Tuns)
    OBVIOUS
  <1> QED BY <1>1 DEF Free, Asked, Broken, Docs

LEMMA AskingToAdd ==
  ASSUME NEW p, NEW n, NEW ts, NEW v, v = [Free EXCEPT !.pc = p, !.name = n, !.tun = ts]
  PROVE  v = [pc |-> p, name |-> n, doc |-> <<>>, tun |-> ts]
  BY DEF Free

LEMMA AskingToDelete ==
  ASSUME NEW p, NEW n, NEW d, NEW v, v = [Free EXCEPT !.pc = p, !.name = n, !.doc = d]
  PROVE  v = [pc |-> p, name |-> n, doc |-> d, tun |-> <<>>]
  BY DEF Free

LEMMA AskingToSet ==
  ASSUME NEW p, NEW d, NEW v, v = [Free EXCEPT !.pc = p, !.doc = d]
  PROVE  v = [pc |-> p, name |-> NoName, doc |-> d, tun |-> <<>>]
  BY DEF Free

LEMMA DocInit ==
  ASSUME Orderly, Init
  PROVE  DocInv /\ CfgInv
  <1>1. /\ file \in Files /\ cfg = Load(file) /\ wgs = NamesIn(file) /\ up = FALSE /\ pending = FALSE
        /\ req = [r \in Requests |-> Free] /\ phase = "off"
    BY DEF Init, ConfigInit
  <1>2. Fit(file, wgs) /\ file \in Docs /\ wgs \subseteq Names
    BY <1>1, FileStarts
  <1>3. req \in [Requests -> Asked] /\ \A r \in Requests : req[r].pc = "idle"
    BY <1>1, FreeFacts
  <1>4. CfgInv
    BY <1>1, FileStarts DEF CfgInv
  <1> QED BY <1>1, <1>2, <1>3, <1>4 DEF DocInv, OneAtATime, Busy, Editing, Phases

(* Steps of main, of the kernel and of the network manager.                *)
LEMMA DocKept ==
  ASSUME DocInv, UNCHANGED <<file, wgs, pending, req>>, phase' \in Phases, up' \in BOOLEAN,
         up' <=> phase' = "serve", up => up'
  PROVE  DocInv'
  BY DEF DocInv, OneAtATime, Busy, Editing, Writing, Fit, Deletes, Adds

(* A restart, and whatever ends the process while no file is written.      *)
LEMMA DocStop ==
  ASSUME DocInv, Stop, ~Writing, phase' = "off"
  PROVE  DocInv'
  <1>1. /\ UNCHANGED <<file, wgs>> /\ up' = FALSE /\ pending' = FALSE
        /\ req' \in [Requests -> Asked] /\ \A r \in Requests : req'[r].pc = "idle"
    BY FreeFacts DEF Stop
  <1> QED BY <1>1 DEF DocInv, OneAtATime, Busy, Editing, Writing, Fit, Adds, Phases

(* The request that moves is the only one.                                 *)
LEMMA Alone ==
  ASSUME DocInv, NEW r \in Requests, \/ Busy(r)
                                     \/ Orderly /\ MayStart(r)
  PROVE  /\ \A q \in Requests : q # r => req[q].pc = "idle"
         /\ up /\ phase = "serve"
         /\ MayStart(r) => ~Writing /\ req[r].pc = "idle" /\ Fit(file, wgs)
         /\ req[r].pc # "write" => ~Writing /\ Fit(file, wgs)
  BY DEF DocInv, OneAtATime, Busy, Writing, MayStart, Orderly

(* What a handler has to show of the request it moves on.                  *)
LEMMA DocMoved ==
  ASSUME DocInv, NEW r \in Requests, NEW v \in Asked,
         \A q \in Requests : q # r => req[q].pc = "idle",
         up, UNCHANGED <<up, phase>>, pending' \in BOOLEAN,
         req' = [req EXCEPT ![r] = v],
         file' \in Docs, wgs' \subseteq Names,
         v.pc # "write" => Fit(file', wgs'),
         v.pc \in {"open", "write"} =>
           Fit(v.doc, IF v.name # NoName /\ v.tun = <<>> THEN wgs' \ {v.name} ELSE wgs'),
         v.pc = "addLoad" => LET t == v.tun[1] IN
           /\ v.tun = <<t>> /\ t.name = v.name /\ t.name \in wgs' \ NamesIn(file')
           /\ t.table # 0 /\ t.mark # 0
  PROVE  DocInv'
  <1>1. /\ req' \in [Requests -> Asked] /\ req'[r] = v
        /\ \A q \in Requests : q # r => req'[q].pc = "idle"
    BY DEF DocInv
  <1>2. OneAtATime'
    BY <1>1 DEF DocInv, OneAtATime, Busy
  <1>3. ~Writing' => Fit(file', wgs')
    BY <1>1 DEF Writing
  <1>4. ASSUME NEW q \in Requests
        PROVE  /\ Editing(q)' => Fit(req'[q].doc, IF Deletes(q)' THEN wgs' \ {req'[q].name} ELSE wgs')
               /\ req'[q].pc = "addLoad" => Adds(q)'
    BY <1>1 DEF Editing, Deletes, Adds
  <1> QED BY <1>1, <1>2, <1>3, <1>4 DEF DocInv, Fit, Deletes

LEMMA DocAddTunnel ==
  ASSUME Orderly, DocInv, CfgInv, NEW r \in Requests, NEW n \in Names, AddTunnel(r, n), UNCHANGED phase
  PROVE  /\ DocInv'
         /\ \E t \in Tuns : /\ req' = [req EXCEPT ![r] = [pc |-> "addLoad", name |-> n, doc |-> <<>>, tun |-> <<t>>]]
                            /\ t = [name |-> n,
                                    table |-> NextNumber(Load(file).tunnels, "table"),
                                    mark |-> NextNumber(Load(file).tunnels, "mark")]
                            /\ t.table <= MaxNumber
  <1>1. /\ \A q \in Requests : q # r => req[q].pc = "idle"
        /\ up /\ Fit(file, wgs)
    BY Alone DEF AddTunnel
  <1> DEFINE ts == Load(file).tunnels
             t == [name |-> n, table |-> NextNumber(ts, "table"), mark |-> NextNumber(ts, "mark")]
             v == [pc |-> "addLoad", name |-> n, doc |-> <<>>, tun |-> <<t>>]
  <1>2. ts \in Seq(Tuns)
    BY <1>1, LoadFacts, DocFacts DEF Fit
  <1>3. t \in Tuns /\ t.table # 0 /\ t.mark # 0
    BY <1>2, NextFacts DEF Tuns
  <1>4. /\ req' = [req EXCEPT ![r] = [Free EXCEPT !.pc = "addLoad", !.name = n, !.tun = <<t>>]]
        /\ NextNumber(ts, "table") <= MaxNumber
        /\ n \notin NamesIn(file) /\ wgs' = wgs \cup {n} /\ UNCHANGED <<file, up, pending>>
    BY <1>1 DEF AddTunnel, Fit, Orderly
  <1>5. [Free EXCEPT !.pc = "addLoad", !.name = n, !.tun = <<t>>] = v
    <2> DEFINE w == [Free EXCEPT !.pc = "addLoad", !.name = n, !.tun = <<t>>]
    <2>1. w = [Free EXCEPT !.pc = "addLoad", !.name = n, !.tun = <<t>>]
      OBVIOUS
    <2> HIDE DEF t, w
    <2>2. w = [pc |-> "addLoad", name |-> n, doc |-> <<>>, tun |-> <<t>>]
      BY <2>1, AskingToAdd
    <2> QED BY <2>2 DEF w
  <1>6. <<t>> \in Seq(Tuns) /\ t.name = n
    BY <1>3
  <1> HIDE DEF t
  <1>7. v \in Asked /\ v.pc = "addLoad" /\ v.name = n /\ v.tun = <<t>> /\ v.tun[1] = t
    BY <1>6 DEF Asked
  <1> HIDE DEF v
  <1>8. file' \in Docs /\ wgs' \subseteq Names /\ Fit(file', wgs') /\ n \in wgs' \ NamesIn(file')
        /\ pending' \in BOOLEAN
    BY <1>1, <1>4 DEF DocInv, Fit
  <1>9. DocInv'
    BY <1>1, <1>3, <1>4, <1>5, <1>6, <1>7, <1>8, DocMoved
  <1> QED BY <1>3, <1>4, <1>5, <1>9 DEF t, v

LEMMA DocAddEdit ==
  ASSUME DocInv, NEW r \in Requests, AddEdit(r), UNCHANGED phase
  PROVE  /\ DocInv'
         /\ LET t == req[r].tun[1] IN
              /\ req[r].tun = <<t>> /\ t \in Tuns /\ t.name = req[r].name /\ t.name \notin NamesIn(file)
              /\ t.table # 0 /\ t.mark # 0
              /\ req' = [req EXCEPT ![r] = [pc |-> "open", name |-> t.name,
                           doc |-> [file EXCEPT !.tunnels = @ \o <<t>>], tun |-> <<t>>]]
  <1> DEFINE t == req[r].tun[1]
             d == [file EXCEPT !.tunnels = @ \o <<t>>]
             v == [pc |-> "open", name |-> t.name, doc |-> d, tun |-> <<t>>]
  <1>1. /\ \A q \in Requests : q # r => req[q].pc = "idle"
        /\ up /\ Fit(file, wgs) /\ req[r].pc = "addLoad"
    BY Alone DEF AddEdit, Busy
  <1>2. /\ req[r].tun = <<t>> /\ t.name = req[r].name /\ t.name \in wgs \ NamesIn(file)
        /\ t.table # 0 /\ t.mark # 0
    BY <1>1 DEF DocInv, Adds
  <1>3. t \in Tuns
    <2>1. req[r].tun \in Seq(Tuns) /\ Len(req[r].tun) = 1
      BY <1>2 DEF DocInv, Asked
    <2> QED BY <2>1
  <1>4. file # Broken
    BY <1>1, FreeFacts DEF Fit, Valid
  <1>5. /\ req' = [req EXCEPT ![r].pc = "open", ![r].doc = [file EXCEPT !.tunnels = @ \o req[r].tun]]
        /\ UNCHANGED <<file, wgs, up, pending>>
    BY <1>4 DEF AddEdit
  <1>6. [file EXCEPT !.tunnels = @ \o req[r].tun] = d
    BY <1>2
  <1> HIDE DEF d
  <1>7. d \in Docs /\ NamesIn(d) = NamesIn(file) \cup {t.name} /\ Valid(d)
    BY <1>1, <1>2, <1>3, AppendFacts DEF Fit, d
  <1> HIDE DEF t
  <1>8. req[r] \in Asked
    BY DEF DocInv
  <1>9. [req[r] EXCEPT !.pc = "open", !.doc = d] = v
    <2> DEFINE w == [req[r] EXCEPT !.pc = "open", !.doc = d]
    <2>1. w = [req[r] EXCEPT !.pc = "open", !.doc = d]
      OBVIOUS
    <2> HIDE DEF w
    <2>2. w = [pc |-> "open", name |-> t.name, doc |-> d, tun |-> <<t>>]
      BY <1>2, <1>8, <2>1 DEF Asked
    <2> QED BY <2>2 DEF w
  <1>10. v \in Asked /\ v.pc = "open" /\ v.name = t.name /\ v.doc = d /\ v.tun = <<t>> /\ v.tun # <<>>
    BY <1>3, <1>7 DEF Asked, Tuns
  <1>11. req' = [req EXCEPT ![r] = v]
    BY <1>5, <1>6, <1>9
  <1> HIDE DEF v
  <1>12. Fit(d, wgs)
    BY <1>1, <1>2, <1>7 DEF Fit
  <1>13. DocInv'
    BY <1>1, <1>5, <1>10, <1>11, <1>12, DocMoved DEF DocInv, Fit
  <1> QED BY <1>2, <1>3, <1>11, <1>13 DEF t, d, v

LEMMA DocDelTunnel ==
  ASSUME Orderly, DocInv, CfgInv, NEW r \in Requests, NEW n \in Names, NEW done, DelTunnel(r, n, done),
         UNCHANGED phase
  PROVE  /\ DocInv'
         /\ \/ /\ n \in NamesIn(file) /\ NamesIn(file) # {n} /\ n # Load(file).default
               /\ req' = [req EXCEPT ![r] = [pc |-> "open", name |-> n, doc |-> Without(file, n), tun |-> <<>>]]
            \/ (n \notin NamesIn(file) \/ NamesIn(file) = {n}) /\ req' = req
  <1> DEFINE d == Without(file, n)
             v == [pc |-> "open", name |-> n, doc |-> d, tun |-> <<>>]
  <1>1. /\ \A q \in Requests : q # r => req[q].pc = "idle"
        /\ up /\ Fit(file, wgs)
    BY Alone DEF DelTunnel
  <1>2. UNCHANGED <<file, wgs, up, pending>> /\ n # Load(file).default
    BY DEF DelTunnel, Orderly
  <1>3. CASE n \in NamesIn(file) /\ NamesIn(file) # {n}
    <2>1. req' = [req EXCEPT ![r] = [Free EXCEPT !.pc = "open", !.name = n, !.doc = d]]
      BY <1>3 DEF DelTunnel
    <2>2. [Free EXCEPT !.pc = "open", !.name = n, !.doc = d] = v
      <3> DEFINE w == [Free EXCEPT !.pc = "open", !.name = n, !.doc = d]
      <3>1. w = [Free EXCEPT !.pc = "open", !.name = n, !.doc = d]
        OBVIOUS
      <3> HIDE DEF d, w
      <3>2. w = [pc |-> "open", name |-> n, doc |-> d, tun |-> <<>>]
        BY <3>1, AskingToDelete
      <3> QED BY <3>2 DEF w
    <2>3. d \in Docs /\ Valid(d) /\ NamesIn(d) = NamesIn(file) \ {n}
      BY <1>1, <1>2, <1>3, WithoutFacts DEF Fit
    <2> HIDE DEF d
    <2>4. v \in Asked /\ v.pc = "open" /\ v.name = n /\ v.doc = d /\ v.tun = <<>>
      <3>1. <<>> \in Seq(Tuns)
        OBVIOUS
      <3> QED BY <2>3, <3>1 DEF Asked
    <2> HIDE DEF v
    <2>5. Fit(d, wgs \ {n}) /\ Fit(file', wgs')
      BY <1>1, <1>2, <2>3 DEF Fit
    <2>6. req' = [req EXCEPT ![r] = v]
      BY <2>1, <2>2
    <2>7. Fit(v.doc, IF v.name # NoName /\ v.tun = <<>> THEN wgs' \ {v.name} ELSE wgs')
      BY <1>2, <2>4, <2>5, FilesAssumption
    <2>8. DocInv'
      BY <1>1, <1>2, <2>4, <2>5, <2>6, <2>7, DocMoved DEF DocInv
    <2> QED BY <1>2, <1>3, <2>6, <2>8 DEF d, v
  <1>4. CASE ~(n \in NamesIn(file) /\ NamesIn(file) # {n})
    <2>1. req' = req
      BY <1>4 DEF DelTunnel
    <2>2. DocInv'
      BY <1>2, <2>1, DocKept DEF DocInv, OneAtATime
    <2> QED BY <1>4, <2>1, <2>2
  <1> QED BY <1>3, <1>4

LEMMA DocPutTunnel ==
  ASSUME Orderly, DocInv, CfgInv, NEW r \in Requests, NEW n \in Names, NEW done, PutTunnel(r, n, done),
         UNCHANGED phase
  PROVE  DocInv'
  <1>1. /\ \A q \in Requests : req[q].pc = "idle"
        /\ up /\ Fit(file, wgs)
    BY Alone DEF PutTunnel
  <1>2. UNCHANGED <<file, cfg, up, req>> /\ wgs' = wgs \cup {n} /\ pending' = TRUE
    BY DEF PutTunnel
  <1>3. /\ file' \in Docs /\ wgs' \subseteq Names /\ Fit(file', wgs')
        /\ \A q \in Requests : req'[q].pc = "idle"
    BY <1>1, <1>2 DEF DocInv, Fit
  <1> QED BY <1>1, <1>2, <1>3 DEF DocInv, OneAtATime, Busy, Editing

LEMMA DocPutSocks ==
  ASSUME Orderly, DocInv, CfgInv, NEW r \in Requests, NEW n \in Names, PutSocks(r, n), UNCHANGED phase
  PROVE  /\ DocInv'
         /\ req' = [req EXCEPT ![r] = [pc |-> "open", name |-> NoName,
                                       doc |-> [file EXCEPT !.default = n], tun |-> <<>>]]
  <1> DEFINE d == [file EXCEPT !.default = n]
             v == [pc |-> "open", name |-> NoName, doc |-> d, tun |-> <<>>]
  <1>1. /\ \A q \in Requests : q # r => req[q].pc = "idle"
        /\ up /\ Fit(file, wgs)
    BY Alone DEF PutSocks
  <1>2. UNCHANGED <<file, wgs, up, pending>> /\ n \in NamesIn(file)
    BY DEF PutSocks, Orderly
  <1>3. file # Broken
    BY <1>1, FreeFacts DEF Fit, Valid
  <1>4. req' = [req EXCEPT ![r] = [Free EXCEPT !.pc = "open", !.doc = d]]
    BY <1>3 DEF PutSocks
  <1>5. [Free EXCEPT !.pc = "open", !.doc = d] = v
    <2> DEFINE w == [Free EXCEPT !.pc = "open", !.doc = d]
    <2>1. w = [Free EXCEPT !.pc = "open", !.doc = d]
      OBVIOUS
    <2> HIDE DEF d, w
    <2>2. w = [pc |-> "open", name |-> NoName, doc |-> d, tun |-> <<>>]
      BY <2>1, AskingToSet
    <2> QED BY <2>2 DEF w
  <1>6. d \in Docs /\ Valid(d) /\ NamesIn(d) = NamesIn(file)
    BY <1>1, <1>2, DefaultFacts DEF Fit
  <1> HIDE DEF d
  <1>7. v \in Asked /\ v.pc = "open" /\ v.name = NoName /\ v.doc = d /\ v.tun = <<>>
    <2>1. <<>> \in Seq(Tuns)
      OBVIOUS
    <2> QED BY <1>6, <2>1 DEF Asked
  <1> HIDE DEF v
  <1>8. Fit(d, wgs') /\ Fit(file', wgs') /\ req' = [req EXCEPT ![r] = v]
    BY <1>1, <1>2, <1>4, <1>5, <1>6 DEF Fit
  <1>9. DocInv'
    BY <1>1, <1>2, <1>7, <1>8, DocMoved DEF DocInv
  <1> QED BY <1>8, <1>9 DEF d, v

LEMMA DocTruncate ==
  ASSUME DocInv, NEW r \in Requests, Truncate(r), UNCHANGED phase
  PROVE  DocInv'
  <1> DEFINE v == [req[r] EXCEPT !.pc = "write"]
  <1>1. req[r] \in Asked /\ req[r].pc = "open"
    BY DEF Truncate, DocInv
  <1>2. /\ \A q \in Requests : q # r => req[q].pc = "idle"
        /\ up
    BY <1>1, Alone DEF Busy
  <1>3. /\ v \in Asked /\ v.pc = "write" /\ v.name = req[r].name /\ v.doc = req[r].doc /\ v.tun = req[r].tun
    BY <1>1 DEF Asked
  <1>4. file' = Broken /\ req' = [req EXCEPT ![r] = v] /\ UNCHANGED <<wgs, up, pending>>
    BY DEF Truncate
  <1> HIDE DEF v
  <1>5. Fit(v.doc, IF v.name # NoName /\ v.tun = <<>> THEN wgs' \ {v.name} ELSE wgs')
    BY <1>1, <1>3, <1>4 DEF DocInv, Editing, Deletes
  <1> QED BY <1>2, <1>3, <1>4, <1>5, DocMoved, FreeFacts DEF DocInv

LEMMA DocFinish ==
  ASSUME DocInv, NEW r \in Requests, Finish(r), UNCHANGED phase
  PROVE  DocInv'
  <1>1. req[r] \in Asked /\ req[r].pc = "write"
    BY DEF Finish, DocInv
  <1>2. /\ \A q \in Requests : q # r => req[q].pc = "idle"
        /\ up
    BY <1>1, Alone DEF Busy
  <1>3. /\ file' = req[r].doc /\ wgs' = IF Deletes(r) THEN wgs \ {req[r].name} ELSE wgs
        /\ req' = [req EXCEPT ![r] = Free] /\ pending' = TRUE /\ UNCHANGED up
    BY DEF Finish
  <1>4. Fit(file', wgs') /\ file' \in Docs /\ wgs' \subseteq Names
    BY <1>1, <1>3 DEF DocInv, Editing, Fit
  <1> QED BY <1>2, <1>3, <1>4, FreeFacts, DocMoved

(* Whatever fails of a handler's commands, of its work on config.yaml, or  *)
(* after it.                                                               *)
TakesDown(r, n, done) ==
  /\ DelTunnel(r, n, done) \/ PutTunnel(r, n, done)
  /\ Down(n, done) /\ UNCHANGED <<phase, step>>

Errs(r) == (Whole /\ WriteFails(r)) \/ SyncFails(r)

LEMMA Handlers ==
  ASSUME HandleDown \/ HandleFails
  PROVE  \/ \E r \in Requests, n \in Names, done \in SUBSET Commands : TakesDown(r, n, done)
         \/ (\E r \in Requests : Errs(r)) /\ UNCHANGED <<phase, step, hostVars>>
  <1>1. CASE HandleDown
    <2>1. Commands \in SUBSET Commands
      OBVIOUS
    <2> QED BY <1>1, <2>1 DEF HandleDown, TakesDown
  <1>2. CASE HandleFails
    <2>1. \A lost \in Failing : Commands \ lost \in SUBSET Commands
      OBVIOUS
    <2> QED BY <1>2, <2>1 DEF HandleFails, TakesDown, Errs
  <1> QED BY <1>1, <1>2

(* A failure after which the file is as it was, or as putSocks wrote it.   *)
LEMMA DocErrs ==
  ASSUME Orderly, DocInv, NEW r \in Requests, Errs(r), UNCHANGED phase
  PROVE  /\ DocInv'
         /\ UNCHANGED <<wgs, links, cfg, up, pending>> /\ req' = [req EXCEPT ![r] = Free]
         /\ phase = "serve" /\ \A q \in Requests : q # r => req[q].pc = "idle"
         /\ \/ ~Writing /\ Fit(file, wgs) /\ req[r].pc # "write" /\ UNCHANGED file
               /\ cut' = cut \cup (IF Deletes(r) THEN {req[r].name} ELSE {})
            \/ /\ req[r].pc = "write" /\ req[r].name = NoName /\ file' = req[r].doc
               /\ cut' = cut \cup {NoName}
  <1>1. req[r].pc \in {"addLoad", "open", "write"}
    BY DEF Errs, WriteFails, SyncFails
  <1>2. /\ \A q \in Requests : q # r => req[q].pc = "idle"
        /\ up /\ phase = "serve"
        /\ req[r].pc # "write" => ~Writing /\ Fit(file, wgs)
    BY <1>1, Alone DEF Busy
  <1>3. UNCHANGED <<wgs, links, cfg, up, pending>> /\ req' = [req EXCEPT ![r] = Free]
    BY DEF Errs, WriteFails, SyncFails
  <1>4. CASE Whole /\ WriteFails(r)
    <2>1. req[r].pc # "write" /\ UNCHANGED file
          /\ cut' = cut \cup (IF Deletes(r) THEN {req[r].name} ELSE {})
      BY <1>4 DEF Whole, Orderly, WriteFails
    <2>2. DocInv'
      BY <1>2, <1>3, <2>1, FreeFacts, DocMoved DEF DocInv
    <2> QED BY <1>2, <1>3, <2>1, <2>2
  <1>5. CASE SyncFails(r)
    <2>1. /\ req[r].pc = "write" /\ req[r].name = NoName /\ file' = req[r].doc
          /\ cut' = cut \cup {NoName}
      BY <1>5 DEF SyncFails
    <2>2. Fit(file', wgs') /\ file' \in Docs /\ wgs' \subseteq Names
      BY <1>3, <2>1 DEF DocInv, Editing, Deletes, Fit
    <2>3. DocInv'
      BY <1>2, <1>3, <2>2, FreeFacts, DocMoved DEF DocInv
    <2> QED BY <1>2, <1>3, <2>1, <2>3
  <1> QED BY <1>4, <1>5 DEF Errs

LEMMA DocTakesDown ==
  ASSUME Orderly, DocInv, CfgInv, NEW r \in Requests, NEW n \in Names, NEW done, TakesDown(r, n, done)
  PROVE  DocInv'
  BY DocDelTunnel, DocPutTunnel DEF TakesDown

(* Steps that leave the handlers and what they share alone, but for up,    *)
(* which LoadNFT of the last tunnel sets.                                  *)
LEMMA DocAside ==
  ASSUME DocInv, CfgInv, UNCHANGED <<file, wgs, pending, req, cfg>>, phase' \in Phases, up' \in BOOLEAN,
         up' <=> phase' = "serve", up => up'
  PROVE  DocInv' /\ CfgInv'
  BY DocKept DEF CfgInv, Fit

LEMMA CfgKept ==
  ASSUME CfgInv, UNCHANGED cfg
  PROVE  CfgInv'
  BY DEF CfgInv, Fit

LEMMA DocNext ==
  ASSUME Orderly, DocInv, CfgInv, [Next]_allVars
  PROVE  DocInv' /\ CfgInv'
  <1> USE DEF vars, hostVars
  <1>0. up \in BOOLEAN /\ phase \in Phases /\ (up <=> phase = "serve")
    BY DEF DocInv, OneAtATime
  <1>1. CASE Boot
    <2>1. UNCHANGED <<file, wgs, up, pending, req>> /\ cfg' = Load(file) /\ Valid(file) /\ phase = "off" /\ phase' = "write"
      BY <1>1 DEF Boot, LoadConfig, Starts
    <2>2. DocInv'
      BY <1>0, <2>1, DocKept DEF Phases
    <2>3. /\ Load(file) \in Docs /\ Valid(Load(file)) /\ NamesIn(Load(file)) \subseteq Names
          /\ Load(file).default \in NamesIn(Load(file))
      BY <2>1, LoadFacts, ValidFacts, DocFacts DEF DocInv
    <2>4. \A i \in DOMAIN Load(file).tunnels : Load(file).tunnels[i].table > 0 /\ Load(file).tunnels[i].mark > 0
      BY LoadFacts DEF DocInv
    <2> QED BY <2>1, <2>2, <2>3, <2>4 DEF CfgInv, Fit
  <1>2. CASE WriteNFT
    BY <1>0, <1>2, DocAside DEF WriteNFT, Step, Phases
  <1>3. CASE EnsureUp
    BY <1>0, <1>3, DocAside DEF EnsureUp, Step, Phases
  <1>4. CASE LegacyDone
    BY <1>0, <1>4, DocAside DEF LegacyDone, Phases
  <1>5. CASE EnsureRule
    BY <1>0, <1>5, DocAside DEF EnsureRule, Phases
  <1>6. CASE LoadNFT
    <2>1. UNCHANGED <<file, wgs, pending, req, cfg>> /\ phase = "nft"
      BY <1>6 DEF LoadNFT
    <2>2. phase' \in {"rules", "serve"} /\ up' \in BOOLEAN /\ (up' <=> phase' = "serve")
      BY <1>0, <1>6 DEF LoadNFT
    <2> QED BY <1>0, <2>1, <2>2, DocAside DEF Phases
  <1>7. CASE \E n \in Names : TakeoverLegacy(n)
    BY <1>0, <1>7, DocAside DEF TakeoverLegacy
  <1>8. CASE \E i \in 1..MaxTunnels : Tick(i)
    BY <1>0, <1>8, DocAside DEF Tick
  <1>9. CASE Handle
    <2>1. UNCHANGED phase
      BY <1>9 DEF Handle
    <2>2. ASSUME NEW r \in Requests, NEW n \in Names, AddTunnel(r, n) PROVE DocInv' /\ CfgInv'
      BY <2>1, <2>2, DocAddTunnel, CfgKept DEF AddTunnel
    <2>3. ASSUME NEW r \in Requests, NEW n \in Names, PutSocks(r, n) PROVE DocInv' /\ CfgInv'
      BY <2>1, <2>3, DocPutSocks, CfgKept DEF PutSocks
    <2>4. ASSUME NEW r \in Requests, AddEdit(r) PROVE DocInv' /\ CfgInv'
      BY <2>1, <2>4, DocAddEdit, CfgKept DEF AddEdit
    <2>5. ASSUME NEW r \in Requests, Truncate(r) PROVE DocInv' /\ CfgInv'
      BY <2>1, <2>5, DocTruncate, CfgKept DEF Truncate
    <2>6. ASSUME NEW r \in Requests, Finish(r) PROVE DocInv' /\ CfgInv'
      BY <2>1, <2>6, DocFinish, CfgKept DEF Finish
    <2> QED BY <1>9, <2>2, <2>3, <2>4, <2>5, <2>6 DEF Handle
  <1>10. CASE HandleDown \/ HandleFails
    <2>1. ASSUME NEW r \in Requests, NEW n \in Names, NEW done \in SUBSET Commands, TakesDown(r, n, done)
          PROVE  DocInv' /\ CfgInv'
      BY <2>1, DocTakesDown, CfgKept DEF TakesDown, DelTunnel, PutTunnel
    <2>2. ASSUME NEW r \in Requests, Errs(r), UNCHANGED phase PROVE DocInv' /\ CfgInv'
      BY <2>2, DocErrs, CfgKept
    <2> QED BY <1>10, <2>1, <2>2, Handlers
  <1>11. CASE Restart
    <2>1. Stop /\ phase' = "off" /\ ~Writing
      BY <1>11 DEF Restart, Resting, Writing, Orderly
    <2> QED BY <2>1, DocStop, CfgKept DEF Stop
  <1>12. CASE Kill
    <2>1. Stop /\ phase' = "off" /\ ~Writing
      BY <1>12 DEF Kill, Whole, Writing, Orderly
    <2> QED BY <2>1, DocStop, CfgKept DEF Stop
  <1>13. CASE Reboot
    <2>1. Stop /\ phase' = "off" /\ ~Writing
      BY <1>13 DEF Reboot, Whole, Writing, Orderly
    <2> QED BY <2>1, DocStop, CfgKept DEF Stop
  <1>14. CASE Fails \/ UpRefused
    BY <1>0, <1>14, DocAside DEF Fails, UpRefused, Phases
  <1>15. CASE Flush
    BY <1>0, <1>15, DocAside DEF Flush
  <1>16. CASE \E n \in Names : Flap(n)
    BY <1>0, <1>16, DocAside DEF Flap
  <1>17. CASE UNCHANGED allVars
    BY <1>0, <1>17, DocAside DEF allVars
  <1> QED BY <1>1, <1>2, <1>3, <1>4, <1>5, <1>6, <1>7, <1>8, <1>9, <1>10, <1>11, <1>12, <1>13, <1>14,
             <1>15, <1>16, <1>17 DEF Next, Startup, Outside

(* Whatever happens on the host and whichever tunnels come and go, what is *)
(* on disk when no handler writes starts the proxy again: validate accepts *)
(* the file, and every tunnel of it has its wg file.                       *)
THEOREM HostStartsAgain ==
  ASSUME Orderly
  PROVE  Spec => []StartsAgain
  <1>1. Init => DocInv /\ CfgInv
    BY DocInit
  <1>2. DocInv /\ CfgInv /\ [Next]_allVars => DocInv' /\ CfgInv'
    BY DocNext
  <1>3. DocInv /\ CfgInv => StartsAgain
    BY DEF DocInv, StartsAgain, Resting, Writing, Fit, Starts
  <1> QED BY <1>1, <1>2, <1>3, PTL DEF Spec

-----------------------------------------------------------------------------
(* The process and its memory: initially, and step by step.                *)

LEMMA CfgFacts ==
  ASSUME CfgInv
  PROVE  /\ cfg \in Docs /\ Len(cfg.tunnels) \in Nat \ {0} /\ DOMAIN cfg.tunnels = 1 .. Len(cfg.tunnels)
         /\ NamesIn(cfg) = {Tun(i).name : i \in DOMAIN cfg.tunnels}
         /\ \A i \in DOMAIN cfg.tunnels : /\ Tun(i) \in Tuns /\ Tun(i).name \in Names
                                          /\ Tun(i).table \in Nat \ {0} /\ Tun(i).mark \in Nat \ {0}
         /\ \A i, j \in DOMAIN cfg.tunnels : Tun(i).name = Tun(j).name => i = j
  <1>1. /\ cfg \in Docs /\ Len(cfg.tunnels) \in Nat /\ DOMAIN cfg.tunnels = 1 .. Len(cfg.tunnels)
        /\ \A i \in DOMAIN cfg.tunnels : Tun(i) \in Tuns
        /\ 1 \in DOMAIN cfg.tunnels
    BY DocFacts DEF CfgInv, Fit, Valid, Tun
  <1>2. \A i \in DOMAIN cfg.tunnels : /\ Tun(i).name \in Names
                                      /\ Tun(i).table \in Nat \ {0} /\ Tun(i).mark \in Nat \ {0}
    BY <1>1 DEF CfgInv, Tun, Tuns
  <1>3. \A i, j \in DOMAIN cfg.tunnels : Tun(i).name = Tun(j).name => i = j
    BY DEF CfgInv, Fit, Valid, Tun
  <1>4. Len(cfg.tunnels) # 0
    BY <1>1
  <1> QED BY <1>1, <1>2, <1>3, <1>4 DEF NamesIn, Tun

LEMMA ConfFacts ==
  ASSUME NEW t
  PROVE  Conf(t).by = "program" /\ Conf(t).table = t.table /\ Conf(t).mark = t.mark
  BY DEF Conf

(* The tunnels the old set-up had up, with the numbers of the file.        *)
LEMMA OldConf ==
  ASSUME Orderly, Init, NEW n \in Names
  PROVE  \/ n \in Adopted /\ \E t \in ToSet(cfg.tunnels) :
              t.name = n /\ etc[n] = [by |-> "old", table |-> t.table, mark |-> t.mark]
         \/ n \notin Adopted /\ etc[n] = NoConf
  <1> DEFINE t == CHOOSE x \in ToSet(cfg.tunnels) : x.name = n
  <1>1. /\ n \in Adopted => etc[n] = [by |-> "old", table |-> t.table, mark |-> t.mark]
        /\ n \notin Adopted => etc[n] = NoConf
    BY DEF Init
  <1>2. ASSUME n \in Adopted PROVE \E x \in ToSet(cfg.tunnels) : x.name = n
    <2>1. n \in NamesIn(cfg)
      BY <1>2, HostAssumption, LoadFacts, FileStarts DEF Init, ConfigInit
    <2>2. cfg \in Docs
      BY DocInit, CfgFacts
    <2> QED BY <2>1, <2>2, DocFacts
  <1>3. n \in Adopted => t \in ToSet(cfg.tunnels) /\ t.name = n
    BY <1>2
  <1> HIDE DEF t
  <1> QED BY <1>1, <1>3

LEMMA MemInit ==
  ASSUME Orderly, Init
  PROVE  MemInv
  <1>1. /\ phase = "off" /\ DOMAIN etc = Names /\ links = [n \in Names |-> etc[n].table]
    BY DEF Init
  <1>2. \A n \in Names : etc[n].table \in Nat
    <2>1. \A t \in ToSet(cfg.tunnels) : t.table \in Nat
      BY DocInit, CfgFacts DEF ToSet, Tun
    <2>2. NoConf.table \in Nat
      BY DEF NoConf, NoLink
    <2>3. ASSUME NEW n \in Names PROVE etc[n].table \in Nat
      <3>1. CASE etc[n] = NoConf
        BY <2>2, <3>1
      <3>2. CASE \E t \in ToSet(cfg.tunnels) : etc[n] = [by |-> "old", table |-> t.table, mark |-> t.mark]
        <4>1. PICK t \in ToSet(cfg.tunnels) : etc[n] = [by |-> "old", table |-> t.table, mark |-> t.mark]
          BY <3>2
        <4>2. etc[n].table = t.table
          BY <4>1
        <4> QED BY <2>1, <4>2
      <3> QED BY <3>1, <3>2, OldConf
    <2> QED BY <2>3
  <1>3. left \in Leftovers /\ cut = {} /\ \A r \in Requests : req[r].pc = "idle"
    BY FreeFacts DEF Init, ConfigInit, Leftovers
  <1> QED BY <1>1, <1>2, <1>3 DEF MemInv, SameAsFile, Editing, BroughtUp, NoLink

(* Steps that leave interfaces and configurations alone.                   *)
LEMMA MemAside ==
  ASSUME MemInv, UNCHANGED <<file, links, etc, cfg, pending, req, cut>>, left' \in Leftovers,
         phase' # "off" => phase # "off",
         phase' \in {"write", "up", "rules", "nft"} => step' \in DOMAIN cfg.tunnels,
         \A i \in DOMAIN cfg.tunnels : BroughtUp(i)' => BroughtUp(i)
  PROVE  MemInv'
  <1>1. SameAsFile'
    BY DEF MemInv, SameAsFile, Writing, Editing
  <1> QED BY <1>1 DEF MemInv, Tun

LEMMA MemStop ==
  ASSUME MemInv, phase' = "off", UNCHANGED <<etc, cfg>>, links' = links \/ links' = [n \in Names |-> NoLink],
         left' \in Leftovers, cut' \subseteq Names \cup {NoName},
         (\A r \in Requests : ~Editing(r)') \/ UNCHANGED <<req, pending>>
  PROVE  MemInv'
  <1>1. SameAsFile'
    BY DEF MemInv, SameAsFile, Editing
  <1> QED BY <1>1 DEF MemInv, BroughtUp, NoLink

(* A handler's step but those that take an interface down.                 *)
LEMMA MemHandled ==
  ASSUME MemInv, CfgInv, UNCHANGED <<links, etc, cfg, phase, step, left>>,
         cut \subseteq cut', cut' \subseteq Names \cup {NoName},
         ~pending' =>
           /\ ~pending
           /\ ~Writing' => \/ ~Writing /\ UNCHANGED file
                           \/ NoName \in cut' /\ Load(file').tunnels = cfg.tunnels
           /\ \A n \in Names : Deleting(n) => Deleting(n)' \/ n \in cut'
           /\ \A q \in Requests : Editing(q)' /\ req'[q].name = NoName => Load(req'[q].doc).tunnels = cfg.tunnels
  PROVE  MemInv'
  <1>1. SameAsFile'
    BY DEF MemInv, SameAsFile
  <1>2. ASSUME NEW i \in DOMAIN cfg.tunnels, BroughtUp(i)'
        PROVE  links'[Tun(i).name] # NoLink
    <2>1. Tun(i).name \in Names /\ Tun(i)' = Tun(i)
      BY CfgFacts DEF Tun
    <2>2. BroughtUp(i)
      BY <1>2, <2>1 DEF BroughtUp
    <2> QED BY <2>2 DEF MemInv
  <1> QED BY <1>1, <1>2 DEF MemInv, Tun

(* wg-quick down, if it succeeded.                                         *)
LEMMA LinksFacts ==
  ASSUME links \in [Names -> Nat], NEW n \in Names, NEW done, links' = LinksAfter(n, done)
  PROVE  /\ links' \in [Names -> Nat] /\ \A k \in Names : k # n => links'[k] = links[k]
         /\ "wg" \in done => links'[n] = NoLink
         /\ "wg" \notin done => links' = links
         /\ \A k \in Names : links'[k] = links[k] \/ links'[k] = NoLink
  BY DEF LinksAfter, NoLink

(* delTunnel and putTunnel.                                                *)
LEMMA MemDown ==
  ASSUME MemInv, CfgInv, phase = "serve", UNCHANGED <<etc, cfg, phase, step, file>>, NEW n \in Names, NEW done,
         links' = LinksAfter(n, done), left' \in Leftovers,
         cut \subseteq cut', cut' \subseteq Names \cup {NoName},
         ~pending' => /\ ~pending /\ ~Writing /\ Deleting(n)'
                      /\ \A k \in Names : ~Deleting(k)
                      /\ \A q \in Requests : ~(Editing(q)' /\ req'[q].name = NoName)
  PROVE  MemInv'
  <1>1. /\ links' \in [Names -> Nat] /\ \A k \in Names : k # n => links'[k] = links[k]
        /\ \A k \in Names : links'[k] = links[k] \/ links'[k] = NoLink
    BY LinksFacts DEF MemInv
  <1>2. ASSUME NEW i \in DOMAIN cfg.tunnels, BroughtUp(i)'
        PROVE  links'[Tun(i).name] # NoLink
    <2>1. Tun(i).name \in Names /\ Tun(i)' = Tun(i)
      BY CfgFacts DEF Tun
    <2>2. ~pending' /\ ~Deleting(Tun(i).name)' /\ Tun(i).name \notin cut'
      BY <1>2, <2>1 DEF BroughtUp
    <2>3. Tun(i).name # n
      BY <2>1, <2>2 DEF Deleting, Editing, Deletes
    <2>4. BroughtUp(i)
      BY <2>1, <2>2 DEF BroughtUp
    <2> QED BY <1>1, <2>1, <2>3, <2>4 DEF MemInv
  <1>3. SameAsFile'
    BY DEF MemInv, SameAsFile
  <1> QED BY <1>1, <1>2, <1>3 DEF MemInv, Tun

LEMMA DeletingKept ==
  ASSUME UNCHANGED <<cfg, req>>, NEW i \in DOMAIN cfg.tunnels
  PROVE  Tun(i)' = Tun(i) /\ (Deleting(Tun(i).name)' <=> Deleting(Tun(i).name))
  BY DEF Tun, Deleting, Editing, Deletes

(* The loop of a phase goes on, or ends with the last tunnel.              *)
LEMMA Steps ==
  ASSUME CfgInv, step \in DOMAIN cfg.tunnels, NEW next, Step(next)
  PROVE  /\ step \in Nat /\ step' \in DOMAIN cfg.tunnels
         /\ \/ step' = step + 1 /\ phase' = phase
            \/ step' = 1 /\ phase' = next /\ step = Len(cfg.tunnels)
         /\ \A i \in DOMAIN cfg.tunnels : i \in Nat /\ i >= 1 /\ (i <= step \/ step < Len(cfg.tunnels))
  BY CfgFacts DEF Step

LEMMA MemEnsureUp ==
  ASSUME CfgInv, MemInv, EnsureUp
  PROVE  MemInv'
  <1> DEFINE t == Tun(step)
  <1>1. /\ phase = "up" /\ etc' = [etc EXCEPT ![t.name] = Conf(t)] /\ Step("takeover")
        /\ UNCHANGED <<file, wgs, cfg, up, pending, req, cut>> /\ left' = [left EXCEPT ![t.name] = {}]
        /\ links' = links \/ (links[t.name] = NoLink /\ links' = [links EXCEPT ![t.name] = Conf(t).table])
        /\ links[t.name] # NoLink => links' = links
        /\ links[t.name] = NoLink => links' = [links EXCEPT ![t.name] = Conf(t).table]
    BY DEF EnsureUp, WgUp
  <1>2. step \in DOMAIN cfg.tunnels /\ t.name \in Names /\ t.table \in Nat \ {0} /\ Conf(t).table = t.table
    BY <1>1, CfgFacts, ConfFacts DEF MemInv
  <1> HIDE DEF t
  <1>3. /\ links' \in [Names -> Nat] /\ links'[t.name] # NoLink
        /\ \A n \in Names : n # t.name => links'[n] = links[n]
        /\ DOMAIN etc' = Names /\ etc'[t.name].table = t.table
        /\ \A n \in Names : n # t.name => etc'[n] = etc[n]
        /\ left' \in Leftovers
    BY <1>1, <1>2 DEF MemInv, NoLink, Leftovers
  <1>4. /\ step' \in DOMAIN cfg.tunnels
        /\ \/ step' = step + 1 /\ phase' = "up"
           \/ step' = 1 /\ phase' = "takeover" /\ step = Len(cfg.tunnels)
        /\ \A i \in DOMAIN cfg.tunnels : i \in Nat /\ i >= 1 /\ (i <= step \/ step < Len(cfg.tunnels))
        /\ step \in Nat /\ Len(cfg.tunnels) \in Nat
        /\ \A i \in DOMAIN cfg.tunnels : i <= Len(cfg.tunnels)
    BY <1>1, <1>2, Steps, CfgFacts
  <1>5. ASSUME NEW i \in DOMAIN cfg.tunnels, BroughtUp(i)'
        PROVE  links'[Tun(i).name] # NoLink
    <2>1. i < step \/ i = step
      <3>1. i \in Nat /\ i <= Len(cfg.tunnels)
        BY <1>4
      <3>2. phase' # "serve"
        BY <1>4
      <3>3. phase' = "up" => i < step'
        BY <1>5, <3>2 DEF BroughtUp
      <3> QED BY <1>4, <3>1, <3>3
    <2>2. i < step => BroughtUp(i)
      BY <1>1 DEF BroughtUp
    <2>3. Tun(i).name \in Names
      BY CfgFacts
    <2> QED BY <1>3, <2>1, <2>2, <2>3 DEF MemInv, t
  <1>6. cfg' = cfg /\ cut' = cut /\ SameAsFile'
    BY <1>1, <1>4 DEF MemInv, SameAsFile, Writing, Editing
  <1>7. \A n \in Names : links'[n] # NoLink => etc'[n].table \in Nat \ {0}
    BY <1>2, <1>3 DEF MemInv
  <1> QED BY <1>3, <1>4, <1>5, <1>6, <1>7 DEF MemInv, Tun

LEMMA MemStartup ==
  ASSUME DocInv, CfgInv, MemInv, WriteNFT \/ LegacyDone \/ EnsureRule \/ LoadNFT \/ \E n \in Names : TakeoverLegacy(n)
  PROVE  MemInv'
  <1> USE DEF vars, hostVars
  <1>1. UNCHANGED <<file, links, etc, cfg, pending, req, cut>> /\ left' \in Leftovers
    BY DEF WriteNFT, LegacyDone, EnsureRule, LoadNFT, TakeoverLegacy, MemInv
  <1>2. phase \in {"write", "up", "rules", "nft"} => step \in DOMAIN cfg.tunnels
    BY DEF MemInv
  <1>3. /\ 1 \in DOMAIN cfg.tunnels
        /\ \A i \in DOMAIN cfg.tunnels : i \in Nat /\ ~(i < 1)
    BY CfgFacts
  <1>4. CASE WriteNFT
    <2>1. phase = "write" /\ Step("up") /\ step \in DOMAIN cfg.tunnels
      BY <1>2, <1>4 DEF WriteNFT
    <2>2. step' \in DOMAIN cfg.tunnels /\ (phase' = "write" \/ (phase' = "up" /\ step' = 1))
      BY <2>1, Steps
    <2>3. \A i \in DOMAIN cfg.tunnels : ~BroughtUp(i)'
      BY <1>3, <2>2 DEF BroughtUp
    <2> QED BY <1>1, <2>1, <2>2, <2>3, MemAside
  <1>5. CASE LegacyDone
    <2>1. phase = "takeover" /\ phase' = "rules" /\ step' = 1
      BY <1>5 DEF LegacyDone
    <2>2. \A i \in DOMAIN cfg.tunnels : BroughtUp(i)
      BY <2>1 DEF BroughtUp
    <2> QED BY <1>1, <1>3, <2>1, <2>2, MemAside
  <1>6. CASE EnsureRule
    <2>1. phase = "rules" /\ phase' = "nft" /\ step' = step
      BY <1>6 DEF EnsureRule
    <2>2. \A i \in DOMAIN cfg.tunnels : BroughtUp(i)
      BY <2>1 DEF BroughtUp
    <2> QED BY <1>1, <1>2, <2>1, <2>2, MemAside
  <1>7. CASE LoadNFT
    <2>1. /\ phase = "nft" /\ step \in DOMAIN cfg.tunnels
          /\ \/ step < Len(cfg.tunnels) /\ step' = step + 1 /\ phase' = "rules"
             \/ step' = 1 /\ phase' = "serve"
      BY <1>2, <1>7 DEF LoadNFT
    <2>2. step' \in DOMAIN cfg.tunnels
      BY <1>3, <2>1, CfgFacts
    <2>3. \A i \in DOMAIN cfg.tunnels : BroughtUp(i)
      BY <2>1 DEF BroughtUp
    <2> QED BY <1>1, <2>1, <2>2, <2>3, MemAside
  <1>8. CASE \E n \in Names : TakeoverLegacy(n)
    <2>1. phase = "takeover" /\ phase' = phase
      BY <1>8 DEF TakeoverLegacy
    <2>2. \A i \in DOMAIN cfg.tunnels : BroughtUp(i)
      BY <2>1 DEF BroughtUp
    <2> QED BY <1>1, <2>1, <2>2, MemAside
  <1> QED BY <1>4, <1>5, <1>6, <1>7, <1>8

LEMMA MemHandle ==
  ASSUME Orderly, DocInv, CfgInv, MemInv, Handle
  PROVE  MemInv'
  <1>1. UNCHANGED <<phase, step, etc, left>> /\ cut \subseteq Names \cup {NoName}
    BY DEF Handle, hostVars, MemInv
  <1>2. ASSUME NEW r \in Requests, NEW n \in Names, AddTunnel(r, n) PROVE MemInv'
    <2>1. /\ UNCHANGED <<file, links, cfg, pending, cut>> /\ ~Writing /\ req[r].pc = "idle"
          /\ \A q \in Requests : q # r => req[q].pc = "idle"
      BY <1>2, Alone DEF AddTunnel
    <2>2. \A k \in Names : ~Deleting(k)
      BY <2>1 DEF Deleting, Editing
    <2>3. PICK t \in Tuns : req' = [req EXCEPT ![r] = [pc |-> "addLoad", name |-> n, doc |-> <<>>, tun |-> <<t>>]]
      BY <1>1, <1>2, DocAddTunnel
    <2>4. \A q \in Requests : req'[q].pc \in {"idle", "addLoad"}
      BY <2>1, <2>3 DEF DocInv
    <2>5. \A q \in Requests : ~Editing(q)'
      BY <2>4 DEF Editing
    <2> QED BY <1>1, <2>1, <2>2, <2>5, MemHandled
  <1>3. ASSUME NEW r \in Requests, NEW n \in Names, PutSocks(r, n) PROVE MemInv'
    <2> DEFINE d == [file EXCEPT !.default = n]
               v == [pc |-> "open", name |-> NoName, doc |-> d, tun |-> <<>>]
    <2>1. /\ UNCHANGED <<file, links, cfg, pending, cut>> /\ ~Writing /\ req[r].pc = "idle" /\ file \in Docs
          /\ phase = "serve" /\ \A q \in Requests : q # r => req[q].pc = "idle"
      BY <1>3, Alone DEF PutSocks, Fit
    <2>2. \A k \in Names : ~Deleting(k)
      BY <2>1 DEF Deleting, Editing
    <2>3. req' = [req EXCEPT ![r] = v]
      BY <1>1, <1>3, DocPutSocks
    <2>4. v.doc = d
      OBVIOUS
    <2>5. ~pending => Load(d).tunnels = cfg.tunnels
      BY <2>1, DefaultFacts DEF MemInv, SameAsFile
    <2> HIDE DEF d, v
    <2>6. req'[r] = v /\ \A q \in Requests : q # r => req'[q].pc = "idle"
      BY <2>1, <2>3 DEF DocInv
    <2>7. ~pending => \A q \in Requests : Editing(q)' => Load(req'[q].doc).tunnels = cfg.tunnels
      BY <2>4, <2>5, <2>6 DEF Editing
    <2> QED BY <1>1, <2>1, <2>2, <2>7, MemHandled
  <1>4. ASSUME NEW r \in Requests, AddEdit(r) PROVE MemInv'
    <2> DEFINE t == req[r].tun[1]
               d == [file EXCEPT !.tunnels = @ \o <<t>>]
               v == [pc |-> "open", name |-> t.name, doc |-> d, tun |-> <<t>>]
    <2>1. /\ UNCHANGED <<file, links, cfg, pending, cut>> /\ req[r].pc = "addLoad"
      BY <1>4 DEF AddEdit
    <2>2. ~Writing /\ \A q \in Requests : q # r => req[q].pc = "idle"
      BY <2>1, Alone DEF Busy
    <2>3. \A k \in Names : ~Deleting(k)
      BY <2>1, <2>2 DEF Deleting, Editing
    <2>4. t \in Tuns /\ req' = [req EXCEPT ![r] = v]
      BY <1>1, <1>4, DocAddEdit
    <2> HIDE DEF t, d
    <2>5. v.name = t.name /\ t.name # NoName
      BY <2>4, FilesAssumption DEF Tuns
    <2> HIDE DEF v
    <2>6. req'[r] = v /\ \A q \in Requests : q # r => req'[q].pc = "idle"
      BY <2>2, <2>4 DEF DocInv
    <2>7. \A q \in Requests : ~(Editing(q)' /\ req'[q].name = NoName)
      BY <2>5, <2>6 DEF Editing
    <2> QED BY <1>1, <2>1, <2>2, <2>3, <2>7, MemHandled
  <1>5. ASSUME NEW r \in Requests, Truncate(r) PROVE MemInv'
    <2>1. /\ UNCHANGED <<links, cfg, pending, cut>> /\ req[r].pc = "open"
          /\ req' = [req EXCEPT ![r].pc = "write"] /\ req[r] \in Asked /\ req \in [Requests -> Asked]
      BY <1>5 DEF Truncate, DocInv
    <2>2. /\ req'[r].pc = "write" /\ req'[r].name = req[r].name /\ req'[r].tun = req[r].tun
          /\ req'[r].doc = req[r].doc
          /\ \A q \in Requests : q # r => req'[q] = req[q]
      BY <2>1 DEF Asked
    <2>3. Writing'
      BY <2>2 DEF Writing
    <2>4. \A k \in Names : Deleting(k) => Deleting(k)'
      BY <2>2 DEF Deleting, Editing, Deletes
    <2>5. pending \in BOOLEAN
      BY DEF DocInv
    <2>6. \A q \in Requests : /\ Editing(q)' => Editing(q)
                              /\ req'[q].name = req[q].name /\ req'[q].doc = req[q].doc
      BY <2>1, <2>2 DEF Editing
    <2>7. ~pending => \A q \in Requests : Editing(q)' /\ req'[q].name = NoName => Load(req'[q].doc).tunnels = cfg.tunnels
      BY <2>6 DEF MemInv, SameAsFile
    <2> QED BY <1>1, <2>1, <2>3, <2>4, <2>5, <2>7, MemHandled
  <1>6. ASSUME NEW r \in Requests, Finish(r) PROVE MemInv'
    BY <1>1, <1>6, MemHandled DEF Finish
  <1> QED BY <1>2, <1>3, <1>4, <1>5, <1>6 DEF Handle

LEMMA DownFacts ==
  ASSUME NEW n \in Names, NEW done, Down(n, done)
  PROVE  /\ rules' \subseteq rules /\ UNCHANGED <<runtime, etc, legacy>>
         /\ tables' = IF "nft" \in done THEN [tables EXCEPT ![NftName[n]] = <<>>] ELSE tables
         /\ left' = [left EXCEPT ![n] = {"wg", "nft"} \ done]
  BY DEF Down

(* What a Down records of its failures.                                    *)
LEMMA LeftFacts ==
  ASSUME left \in Leftovers, NEW n \in Names, NEW v \in SUBSET {"wg", "nft"}, left' = [left EXCEPT ![n] = v]
  PROVE  left' \in Leftovers /\ left'[n] = v /\ \A k \in Names : k # n => left'[k] = left[k]
  BY DEF Leftovers

LEMMA MemTakesDown ==
  ASSUME Orderly, DocInv, CfgInv, MemInv, NEW r \in Requests, NEW n \in Names, NEW done, TakesDown(r, n, done)
  PROVE  MemInv'
  <1>1. UNCHANGED <<phase, step, etc>> /\ left' = [left EXCEPT ![n] = {"wg", "nft"} \ done]
    BY DownFacts DEF TakesDown
  <1>2. left' \in Leftovers
    <2>1. {"wg", "nft"} \ done \in SUBSET {"wg", "nft"}
      OBVIOUS
    <2> QED BY <1>1, <2>1, LeftFacts DEF MemInv
  <1>3. CASE DelTunnel(r, n, done)
    <2>1. /\ UNCHANGED <<cfg, pending, file>> /\ links' = LinksAfter(n, done)
          /\ MayStart(r) /\ n \in NamesIn(cfg) /\ Len(cfg.tunnels) > 1
          /\ cut \subseteq cut' /\ cut' \subseteq cut \cup {n}
      BY <1>3 DEF DelTunnel
    <2>2. /\ phase = "serve" /\ ~Writing /\ req[r].pc = "idle"
          /\ \A q \in Requests : q # r => req[q].pc = "idle"
      BY <2>1, Alone
    <2>3. \A k \in Names : ~Deleting(k)
      BY <2>2 DEF Deleting, Editing
    <2>4. ~pending => n \in NamesIn(file) /\ NamesIn(file) # {n}
      <3>1. ~pending => NamesIn(file) = NamesIn(cfg)
        <4>1. ~pending => cfg.tunnels = Load(file).tunnels
          BY <2>2 DEF MemInv, SameAsFile
        <4> QED BY <4>1, LoadFacts DEF DocInv, NamesIn
      <3>2. 1 \in DOMAIN cfg.tunnels /\ 2 \in DOMAIN cfg.tunnels
        BY <2>1, CfgFacts
      <3>3. Tun(1).name # Tun(2).name /\ Tun(1).name \in NamesIn(cfg) /\ Tun(2).name \in NamesIn(cfg)
        BY <3>2, CfgFacts
      <3> QED BY <2>1, <3>1, <3>3
    <2>5. ~pending => req' = [req EXCEPT ![r] = [pc |-> "open", name |-> n, doc |-> Without(file, n), tun |-> <<>>]]
      BY <1>1, <1>3, <2>4, DocDelTunnel
    <2>6. ~pending => /\ req'[r].pc = "open" /\ req'[r].name = n /\ req'[r].tun = <<>> /\ n # NoName
                      /\ \A q \in Requests : q # r => req'[q].pc = "idle"
      BY <2>2, <2>5, FilesAssumption DEF DocInv
    <2>7. ~pending => Deleting(n)' /\ \A q \in Requests : ~(Editing(q)' /\ req'[q].name = NoName)
      BY <2>6 DEF Deleting, Editing, Deletes
    <2>8. cut' \subseteq Names \cup {NoName}
      BY <2>1 DEF MemInv
    <2> QED BY <1>1, <1>2, <2>1, <2>2, <2>3, <2>7, <2>8, MemDown
  <1>4. CASE PutTunnel(r, n, done)
    <2>1. /\ UNCHANGED <<cfg, file, cut>> /\ links' = LinksAfter(n, done) /\ pending' = TRUE /\ MayStart(r)
      BY <1>4 DEF PutTunnel
    <2>2. phase = "serve" /\ cut \subseteq Names \cup {NoName}
      BY <2>1, Alone DEF MemInv
    <2> QED BY <1>1, <1>2, <2>1, <2>2, MemDown
  <1> QED BY <1>3, <1>4 DEF TakesDown

(* A handler that fails asks for no restart: the tunnel it took down is in *)
(* cut, or the default it wrote.                                           *)
LEMMA MemErrs ==
  ASSUME Orderly, DocInv, CfgInv, MemInv, NEW r \in Requests, Errs(r), UNCHANGED <<phase, step, hostVars>>
  PROVE  MemInv'
  <1>1. /\ UNCHANGED <<wgs, links, cfg, up, pending>> /\ req' = [req EXCEPT ![r] = Free]
        /\ \A q \in Requests : q # r => req[q].pc = "idle"
        /\ \/ ~Writing /\ UNCHANGED file
              /\ cut' = cut \cup (IF Deletes(r) THEN {req[r].name} ELSE {})
           \/ /\ req[r].pc = "write" /\ req[r].name = NoName /\ file' = req[r].doc
              /\ cut' = cut \cup {NoName}
    BY DocErrs
  <1>2. UNCHANGED <<etc, left, phase, step>>
    BY DEF hostVars
  <1>3. \A q \in Requests : ~Editing(q)'
    <2>1. \A q \in Requests : req'[q].pc = "idle"
      BY <1>1, FreeFacts DEF DocInv
    <2> QED BY <2>1 DEF Editing
  <1>4. \A n \in Names : Deleting(n) => n \in cut'
    <2>1. SUFFICES ASSUME NEW n \in Names, Deleting(n) PROVE n \in cut'
      OBVIOUS
    <2>2. Editing(r) /\ Deletes(r) /\ req[r].name = n
      BY <1>1, <2>1 DEF Deleting, Editing
    <2>3. req[r].name # NoName
      BY <2>2 DEF Deletes
    <2> QED BY <1>1, <2>2, <2>3
  <1>5. cut \subseteq cut' /\ cut' \subseteq Names \cup {NoName}
    <2>1. req[r].name \in Names \cup {NoName}
      BY DEF DocInv, Asked
    <2> QED BY <1>1, <2>1 DEF MemInv
  <1>6. ~pending' => \/ ~Writing /\ UNCHANGED file
                     \/ NoName \in cut' /\ Load(file').tunnels = cfg.tunnels
    <2>1. CASE req[r].pc = "write" /\ req[r].name = NoName /\ file' = req[r].doc /\ cut' = cut \cup {NoName}
      <3>1. ~pending => Load(req[r].doc).tunnels = cfg.tunnels
        BY <2>1 DEF MemInv, SameAsFile, Editing
      <3>2. NoName \in cut' /\ Load(file') = Load(req[r].doc)
        BY <2>1
      <3> QED BY <1>1, <3>1, <3>2
    <2>2. CASE ~Writing /\ UNCHANGED file
      BY <2>2
    <2> QED BY <1>1, <2>1, <2>2
  <1> QED BY <1>1, <1>2, <1>3, <1>4, <1>5, <1>6, MemHandled

LEMMA MemNext ==
  ASSUME Orderly, DocInv, CfgInv, MemInv, [Next]_allVars
  PROVE  MemInv'
  <1> USE DEF vars, hostVars
  <1>1. CASE Boot
    <2>1. /\ phase' = "write" /\ step' = 1 /\ cfg' = Load(file) /\ phase = "off"
          /\ UNCHANGED <<file, links, etc, left, cut, req>>
      BY <1>1 DEF Boot, LoadConfig
    <2>2. CfgInv'
      BY <1>1, DocNext DEF Next, Startup
    <2>3. 1 \in DOMAIN cfg'.tunnels
      <3>1. Fit(cfg', Names)
        BY <2>2 DEF CfgInv, Fit, Valid, NamesIn, Load
      <3> QED BY <3>1, DocFacts DEF Fit, Valid
    <2>4. \A i : ~BroughtUp(i)' \/ i < 1
      BY <2>1 DEF BroughtUp
    <2>5. \A i \in DOMAIN cfg'.tunnels : ~(i < 1)
      <3>1. cfg' \in Docs
        BY <2>2 DEF CfgInv, Fit
      <3> QED BY <3>1, DocFacts
    <2>6. \A r \in Requests : ~Editing(r)'
      BY <2>1 DEF DocInv, OneAtATime, Busy, Editing
    <2>7. SameAsFile'
      BY <2>1, <2>6 DEF SameAsFile
    <2> QED BY <2>1, <2>3, <2>4, <2>5, <2>7 DEF MemInv
  <1>2. CASE WriteNFT \/ LegacyDone \/ EnsureRule \/ LoadNFT \/ \E n \in Names : TakeoverLegacy(n)
    BY <1>2, MemStartup
  <1>3. CASE EnsureUp
    BY <1>3, MemEnsureUp
  <1>4. CASE Handle
    BY <1>4, MemHandle
  <1>5. CASE HandleDown \/ HandleFails
    <2>1. ASSUME NEW r \in Requests, NEW n \in Names, NEW done \in SUBSET Commands, TakesDown(r, n, done)
          PROVE  MemInv'
      BY <2>1, MemTakesDown
    <2>2. ASSUME NEW r \in Requests, Errs(r), UNCHANGED <<phase, step, hostVars>> PROVE MemInv'
      BY <2>2, MemErrs
    <2> QED BY <1>5, <2>1, <2>2, Handlers
  <1>6. CASE Restart \/ Kill
    <2>1. Stop /\ phase' = "off" /\ UNCHANGED <<links, etc, left, cfg>>
      BY <1>6 DEF Restart, Kill, Stop
    <2>2. cut' = {} /\ \A r \in Requests : ~Editing(r)'
      BY <2>1, FreeFacts DEF Stop, Editing
    <2> QED BY <2>1, <2>2, MemStop DEF MemInv
  <1>7. CASE Reboot
    <2>1. /\ Stop /\ phase' = "off" /\ UNCHANGED <<etc, cfg>> /\ links' = [n \in Names |-> NoLink]
          /\ left' \in Leftovers
      BY <1>7 DEF Reboot, Stop, Leftovers
    <2>2. cut' = {} /\ \A r \in Requests : ~Editing(r)'
      BY <2>1, FreeFacts DEF Stop, Editing
    <2> QED BY <2>1, <2>2, MemStop
  <1>8. CASE Fails \/ UpRefused
    <2>1. /\ phase' = "off" /\ UNCHANGED <<vars, left>>
          /\ etc' = etc \/ (phase = "up" /\ etc' = [etc EXCEPT ![Tun(step).name] = Conf(Tun(step))])
      BY <1>8 DEF Fails, UpRefused
    <2>2. CASE etc' = etc
      BY <2>1, <2>2, MemStop DEF MemInv
    <2>3. CASE phase = "up" /\ etc' = [etc EXCEPT ![Tun(step).name] = Conf(Tun(step))]
      <3>1. Tun(step).table \in Nat \ {0} /\ Conf(Tun(step)).table = Tun(step).table
        BY <2>3, CfgFacts, ConfFacts DEF MemInv
      <3> DEFINE c == Conf(Tun(step))
      <3> HIDE DEF c
      <3>2. DOMAIN etc' = Names /\ \A n \in Names : etc'[n] = etc[n] \/ etc'[n] = c
        BY <2>3 DEF MemInv, c
      <3>3. c.table \in Nat \ {0}
        BY <3>1 DEF c
      <3>4. SameAsFile'
        BY <2>1 DEF MemInv, SameAsFile, Editing
      <3> QED BY <2>1, <3>2, <3>3, <3>4 DEF MemInv, BroughtUp
    <2> QED BY <2>1, <2>2, <2>3
  <1>9. CASE \E n \in Names : Flap(n)
    <2>1. PICK n \in Names : Flap(n)
      BY <1>9
    <2>2. /\ links[n] # NoLink /\ links' = [links EXCEPT ![n] = etc[n].table]
          /\ UNCHANGED <<file, wgs, cfg, up, pending, req, cut, phase, step, etc, left>>
      BY <2>1 DEF Flap
    <2>3. /\ links' \in [Names -> Nat]
          /\ \A k \in Names : links'[k] # NoLink <=> links[k] # NoLink
      BY <2>2 DEF MemInv, NoLink
    <2>4. \A i \in DOMAIN cfg.tunnels : Tun(i).name \in Names /\ (BroughtUp(i)' <=> BroughtUp(i)) /\ Tun(i)' = Tun(i)
      BY <2>2, DeletingKept, CfgFacts DEF BroughtUp
    <2>5. SameAsFile'
      BY <2>2 DEF MemInv, SameAsFile, Writing, Editing
    <2> QED BY <2>2, <2>3, <2>4, <2>5 DEF MemInv
  <1>10. CASE (\E i \in 1..MaxTunnels : Tick(i)) \/ Flush \/ UNCHANGED allVars
    <2>1. UNCHANGED <<file, links, etc, cfg, pending, req, cut, left, phase, step>>
      BY <1>10 DEF Tick, Flush, allVars
    <2>2. \A i \in DOMAIN cfg.tunnels : BroughtUp(i)' => BroughtUp(i)
      BY <2>1, DeletingKept DEF BroughtUp
    <2> QED BY <2>1, <2>2, MemAside DEF MemInv
  <1> QED BY <1>1, <1>2, <1>3, <1>4, <1>5, <1>6, <1>7, <1>8, <1>9, <1>10 DEF Next, Startup, Outside

(* The loop's place, and the tables of the old set-up.                     *)
Placed == step \in DOMAIN cfg.tunnels /\ legacy \subseteq Names

LEMMA PlacedNext ==
  ASSUME Orderly, DocInv, CfgInv, MemInv, Placed, [Next]_allVars
  PROVE  Placed'
  <1> USE DEF vars, hostVars, Placed
  <1>1. CASE Boot
    <2>1. CfgInv' /\ step' = 1 /\ legacy' = legacy
      BY <1>1, DocNext DEF Boot, Next, Startup
    <2>2. cfg' \in Docs /\ cfg'.tunnels # <<>>
      BY <2>1 DEF CfgInv, Fit, Valid
    <2> QED BY <2>1, <2>2, DocFacts
  <1>2. CASE WriteNFT
    <2>1. Step("up") /\ UNCHANGED <<cfg, legacy>>
      BY <1>2 DEF WriteNFT
    <2> QED BY <2>1, Steps
  <1>3. CASE EnsureUp
    <2>1. Step("takeover") /\ UNCHANGED cfg
      BY <1>3 DEF EnsureUp
    <2>2. legacy' = legacy
      BY <1>3, ConfFacts DEF EnsureUp, WgUp
    <2> QED BY <2>1, <2>2, Steps
  <1>4. CASE LegacyDone
    BY <1>4, CfgFacts DEF LegacyDone
  <1>5. CASE LoadNFT
    <2>1. UNCHANGED <<cfg, legacy>> /\ (step' = 1 \/ (step < Len(cfg.tunnels) /\ step' = step + 1))
      BY <1>5 DEF LoadNFT
    <2> QED BY <2>1, CfgFacts
  <1>6. CASE EnsureRule \/ (\E i \in 1..MaxTunnels : Tick(i)) \/ Fails \/ UpRefused \/ Flush \/ UNCHANGED allVars
    BY <1>6 DEF EnsureRule, Tick, Fails, UpRefused, Flush, allVars
  <1>7. CASE \E n \in Names : TakeoverLegacy(n)
    BY <1>7 DEF TakeoverLegacy
  <1>8. CASE Handle
    <2>1. UNCHANGED cfg
      BY <1>8 DEF Handle, AddTunnel, PutSocks, AddEdit, Truncate, Finish
    <2> QED BY <1>8, <2>1 DEF Handle
  <1>9. CASE HandleDown \/ HandleFails
    <2>1. ASSUME NEW r \in Requests, NEW n \in Names, NEW done \in SUBSET Commands, TakesDown(r, n, done)
          PROVE  UNCHANGED <<cfg, legacy, step>>
      BY <2>1, DownFacts DEF TakesDown, DelTunnel, PutTunnel
    <2>2. ASSUME NEW r \in Requests, Errs(r) PROVE UNCHANGED cfg
      BY <2>2 DEF Errs, WriteFails, SyncFails
    <2> QED BY <1>9, <2>1, <2>2, Handlers
  <1>10. CASE Restart \/ Kill \/ Reboot
    BY <1>10 DEF Restart, Kill, Reboot, Stop
  <1>11. CASE \E n \in Names : Flap(n)
    BY <1>11 DEF Flap
  <1> QED BY <1>1, <1>2, <1>3, <1>4, <1>5, <1>6, <1>7, <1>8, <1>9, <1>10, <1>11 DEF Next, Startup, Outside

(* The tunnels in memory have their numbers and their default, main's loop *)
(* is at one of them in every phase, and the process is up while it        *)
(* serves.                                                                 *)
THEOREM HostTyped ==
  ASSUME Orderly
  PROVE  Spec => []TypeOK
  <1>1. Init => DocInv /\ CfgInv /\ MemInv /\ Placed
    BY DocInit, MemInit, CfgFacts, HostAssumption DEF Init, Placed
  <1>2. DocInv /\ CfgInv /\ MemInv /\ Placed /\ [Next]_allVars => (DocInv /\ CfgInv /\ MemInv /\ Placed)'
    BY DocNext, MemNext, PlacedNext
  <1>3. DocInv /\ CfgInv /\ MemInv /\ Placed => TypeOK
    <2>1. SUFFICES ASSUME DocInv, CfgInv, MemInv, Placed PROVE TypeOK
      OBVIOUS
    <2>2. ASSUME NEW f \in Docs
          PROVE  /\ \A i \in DOMAIN f.tunnels : f.tunnels[i].table \in Nat /\ f.tunnels[i].mark \in Nat
                 /\ NamesIn(f) \cup f.seeds \subseteq Names /\ f.default \in Names \cup {NoName}
      <3>1. \A i \in DOMAIN f.tunnels : f.tunnels[i] \in Tuns
        BY DocFacts
      <3> QED BY <3>1, DocFacts DEF Tuns
    <2>3. file \in Docs /\ cfg \in Docs
      BY <2>1 DEF DocInv, CfgInv, Fit
    <2>4. \A r \in Requests : req[r].pc \in {"idle", "addLoad", "open", "write"}
      BY <2>1 DEF DocInv, Asked
    <2>5. ConfigTypeOK
      BY <2>1, <2>2, <2>3, <2>4 DEF ConfigTypeOK, DocInv, CfgInv, MemInv
    <2>6. left \in [Names -> SUBSET {"wg", "nft"}]
      BY <2>1 DEF MemInv, Leftovers
    <2> QED BY <2>1, <2>5, <2>6 DEF TypeOK, DocInv, OneAtATime, Phases, Placed
  <1> QED BY <1>1, <1>2, <1>3, PTL DEF Spec

(* While no handler is at work and no restart is due, the process runs     *)
(* with the tunnels of the file, and with its default unless putSocks      *)
(* failed after it had written it; their interfaces are there but for      *)
(* those a deletion took down and then failed.                             *)
THEOREM HostMemoryIsFile ==
  ASSUME Orderly
  PROVE  Spec => []MemoryIsFile
  <1>1. Init => DocInv /\ CfgInv /\ MemInv
    BY DocInit, MemInit
  <1>2. DocInv /\ CfgInv /\ MemInv /\ [Next]_allVars => (DocInv /\ CfgInv /\ MemInv)'
    BY DocNext, MemNext
  <1>3. DocInv /\ CfgInv /\ MemInv => MemoryIsFile
    <2>1. SUFFICES ASSUME DocInv, CfgInv, MemInv, up, Resting, ~pending
                   PROVE  /\ cfg.tunnels = Load(file).tunnels
                          /\ NoName \notin cut => cfg = Load(file)
                          /\ \A n \in NamesIn(cfg) \ cut : links[n] # NoLink
      BY DEF MemoryIsFile
    <2>2. phase = "serve" /\ ~Writing /\ \A n : ~Deleting(n)
      BY <2>1 DEF DocInv, OneAtATime, Resting, Writing, Deleting, Editing
    <2>3. \A i \in DOMAIN cfg.tunnels : Tun(i).name \notin cut => BroughtUp(i)
      BY <2>1, <2>2 DEF BroughtUp
    <2>4. \A n \in NamesIn(cfg) \ cut : links[n] # NoLink
      BY <2>1, <2>3, CfgFacts DEF MemInv
    <2> QED BY <2>1, <2>2, <2>4 DEF MemInv, SameAsFile
  <1> QED BY <1>1, <1>2, <1>3, PTL DEF Spec

-----------------------------------------------------------------------------
(* Numbers and routes: what the edits of a file keep.                      *)

LEMMA NumsFacts ==
  ASSUME NEW f \in Docs
  PROVE  /\ \A t \in Nums(f) : t \in Tuns /\ t.name \in NamesIn(f) /\ t.table > 0 /\ t.mark > 0
         /\ \A n \in NamesIn(f) : \E t \in Nums(f) : t.name = n
         /\ \A i \in DOMAIN Load(f).tunnels : Load(f).tunnels[i] \in Nums(f)
  BY LoadFacts DEF Nums, ToSet, NamesIn

(* Interfaces may have gone, and Downs failed.                             *)
Fewer(l, lf, m, lg) ==
  \A n \in Names : m[n] = NoLink \/ (m[n] = l[n] /\ ("wg" \in lf[n] => "wg" \in lg[n]))

LEMMA InOrderLess ==
  ASSUME NEW f \in Docs, NEW l, NEW lf, NEW m, NEW lg, InOrder(f, l, lf), Fewer(l, lf, m, lg)
  PROVE  InOrder(f, m, lg)
  BY DEF InOrder, LinksOf, Fewer

LEMMA InOrderWithout ==
  ASSUME NEW f \in Docs, NEW n \in Names, NEW l, NEW lf, NEW m, NEW lg, InOrder(f, l, lf),
         Fewer(l, lf, m, lg), m[n] = NoLink \/ "wg" \in lg[n]
  PROVE  InOrder(Without(f, n), m, lg)
  <1>1. Steady(Without(f, n)) /\ Nums(Without(f, n)) = {t \in Nums(f) : t.name # n}
    BY WithoutFacts DEF InOrder
  <1>2. Numbered(Nums(Without(f, n)))
    BY <1>1 DEF InOrder, Numbered
  <1>3. LinksOf(m, Nums(Without(f, n)), lg)
    <2>1. SUFFICES ASSUME NEW k \in Names, m[k] # NoLink
                   PROVE  \/ \E t \in Nums(f) : t.name # n /\ t.name = k /\ t.table = m[k]
                          \/ "wg" \in lg[k] /\ \A t \in Nums(f) : t.name # n => t.name # k
      BY <1>1 DEF LinksOf
    <2>2. m[k] = l[k] /\ ("wg" \in lf[k] => "wg" \in lg[k])
      BY <2>1 DEF Fewer
    <2>3. \/ \E t \in Nums(f) : t.name = k /\ t.table = m[k]
          \/ "wg" \in lg[k] /\ \A t \in Nums(f) : t.name # k
      BY <2>1, <2>2 DEF InOrder, LinksOf
    <2> QED BY <2>1, <2>3
  <1> QED BY <1>1, <1>2, <1>3 DEF InOrder

LEMMA InOrderAppend ==
  ASSUME NEW f \in Docs, NEW t \in Tuns, NEW l, NEW lf, InOrder(f, l, lf), Fresh(t, f), t.name \notin NamesIn(f),
         l[t.name] = NoLink
  PROVE  InOrder([f EXCEPT !.tunnels = @ \o <<t>>], l, lf)
  <1> DEFINE g == [f EXCEPT !.tunnels = @ \o <<t>>]
  <1>1. t.table \in 1 .. MaxNumber /\ t.mark = t.table /\ t.table # 0 /\ t.mark # 0
    BY FilesAssumption DEF Fresh, OwnNumber
  <1>2. Steady(g) /\ Nums(g) = Nums(f) \cup {t}
    BY <1>1, AppendFacts DEF InOrder
  <1> HIDE DEF g
  <1>3. \A u \in Nums(f) : u.table # t.table /\ u.name # t.name
    BY NumsFacts DEF Fresh
  <1>4. Numbered(Nums(g))
    BY <1>1, <1>2, <1>3 DEF InOrder, Numbered
  <1>5. LinksOf(l, Nums(g), lf)
    BY <1>2 DEF InOrder, LinksOf
  <1> QED BY <1>2, <1>4, <1>5 DEF InOrder, g

LEMMA InOrderDefault ==
  ASSUME NEW f \in Docs, NEW n \in Names, NEW l, NEW lf, InOrder(f, l, lf)
  PROVE  InOrder([f EXCEPT !.default = n], l, lf)
  <1> DEFINE g == [f EXCEPT !.default = n]
  <1>1. Steady(g) /\ Nums(g) = Nums(f)
    BY DefaultFacts DEF InOrder
  <1> HIDE DEF g
  <1>2. InOrder(g, l, lf)
    BY <1>1 DEF InOrder
  <1> QED BY <1>2 DEF g

(* nextTableMark gives a number of its own.                                *)
LEMMA FreshNext ==
  ASSUME NEW f \in Docs, Numbered(Nums(f)), NEW t,
         t.table = NextNumber(Load(f).tunnels, "table"), t.mark = NextNumber(Load(f).tunnels, "mark"),
         t.table <= MaxNumber
  PROVE  Fresh(t, f)
  <1> DEFINE ts == Load(f).tunnels
  <1>1. ts \in Seq(Tuns) /\ Nums(f) = ToSet(ts)
    BY LoadFacts, DocFacts DEF Nums
  <1>2. \A i \in DOMAIN ts : ts[i] \in Nums(f) /\ ts[i].mark = ts[i].table
    BY <1>1 DEF Numbered, ToSet
  <1>3. /\ t.table \in Nat \ {0} /\ t.mark = t.table
        /\ \A i \in DOMAIN ts : ts[i].table < t.table
    <2> HIDE DEF ts
    <2> QED BY <1>1, <1>2, NextFacts DEF ts
  <1>4. \A i \in DOMAIN ts : ts[i].table \in Nat
    <2> HIDE DEF ts
    <2>1. \A i \in DOMAIN ts : ts[i] \in Tuns
      BY <1>1
    <2> QED BY <2>1 DEF Tuns
  <1>5. \A u \in Nums(f) : u.table # t.table
    <2> HIDE DEF ts
    <2> QED BY <1>1, <1>3, <1>4 DEF ToSet
  <1>6. t.table \in 1 .. MaxNumber
    BY <1>3, FilesAssumption
  <1> QED BY <1>3, <1>5, <1>6 DEF Fresh, OwnNumber

(* What a handler has to show of the request it moves on; interfaces may   *)
(* be taken down.                                                          *)
LEMMA NumMoved ==
  ASSUME DocInv, DocInv', NumInv, NEW r \in Requests, NEW v,
         \A q \in Requests : q # r => req[q].pc = "idle",
         req' = [req EXCEPT ![r] = v],
         v.pc # "write" => InOrder(file', links', left'),
         v.pc \in {"open", "write"} => InOrder(v.doc, links', left'),
         v.pc = "addLoad" => Fresh(v.tun[1], file') /\ links'[v.name] = NoLink,
         UNCHANGED cfg, HostNums'
  PROVE  NumInv'
  <1>1. req'[r] = v /\ \A q \in Requests : q # r => req'[q].pc = "idle"
    BY DEF DocInv
  <1>2. ~Writing' => InOrder(file', links', left')
    BY <1>1 DEF Writing
  <1>3. ASSUME NEW q \in Requests
        PROVE  /\ Editing(q)' => InOrder(req'[q].doc, links', left')
               /\ req'[q].pc = "addLoad" => Fresh(req'[q].tun[1], file') /\ links'[req'[q].name] = NoLink
    BY <1>1 DEF Editing
  <1> QED BY <1>2, <1>3 DEF NumInv

-----------------------------------------------------------------------------
(* Numbers and routes: initially, and step by step.                        *)

LEMMA NumInit ==
  ASSUME Orderly, OwnNumbers, Init
  PROVE  NumInv
  <1>1. /\ file \in Files /\ cfg = Load(file) /\ phase = "off" /\ rules = {}
        /\ req = [r \in Requests |-> Free]
        /\ links = [n \in Names |-> etc[n].table]
    BY DEF Init, ConfigInit
  <1>2. ToSet(cfg.tunnels) = Nums(file) /\ Steady(file) /\ Numbered(Nums(file))
    BY <1>1 DEF Nums, OwnNumbers
  <1>3. ASSUME NEW n \in Names
        PROVE  /\ links[n] # NoLink => \E t \in Nums(file) : t.name = n /\ t.table = links[n]
               /\ etc[n].by # "old" => etc[n].table = NoLink
    <2>1. CASE etc[n] = NoConf
      BY <1>1, <2>1 DEF NoConf
    <2>2. CASE \E t \in ToSet(cfg.tunnels) : t.name = n /\ etc[n] = [by |-> "old", table |-> t.table, mark |-> t.mark]
      BY <1>1, <1>2, <2>2
    <2> QED BY <2>1, <2>2, OldConf
  <1>4. \A r \in Requests : req[r].pc = "idle"
    BY <1>1, FreeFacts
  <1>5. HostNums
    <2>1. OneEach(links)
      BY <1>2, <1>3 DEF OneEach, Numbered
    <2> QED BY <1>1, <1>3, <2>1 DEF HostNums
  <1>6. InOrder(file, links, left)
    BY <1>2, <1>3 DEF InOrder, LinksOf
  <1> QED BY <1>2, <1>4, <1>5, <1>6 DEF NumInv, Editing

LEMMA CfgNums ==
  ASSUME CfgInv, NumInv, NEW i \in DOMAIN cfg.tunnels
  PROVE  /\ Tun(i) \in ToSet(cfg.tunnels) /\ OwnNumber(Tun(i)) /\ OwnNumber(Rule(Tun(i))) /\ OwnNumber(Conf(Tun(i)))
         /\ \A t \in ToSet(cfg.tunnels) : t.name = Tun(i).name \/ t.table = Tun(i).table => t = Tun(i)
  <1>1. Tun(i) \in ToSet(cfg.tunnels)
    BY DEF Tun, ToSet
  <1>2. OwnNumber(Tun(i)) /\ \A t \in ToSet(cfg.tunnels) : t.name = Tun(i).name \/ t.table = Tun(i).table => t = Tun(i)
    BY <1>1 DEF NumInv, Numbered, OwnNumber
  <1> QED BY <1>1, <1>2 DEF OwnNumber, Rule, Conf

LEMMA NumAside ==
  ASSUME NumInv, UNCHANGED <<file, links, cfg, req, left>>, HostNums'
  PROVE  NumInv'
  BY DEF NumInv, Writing, Editing

LEMMA NumStop ==
  ASSUME DocInv, NumInv, Stop, ~Writing, HostNums', Fewer(links, left, links', left')
  PROVE  NumInv'
  <1>1. UNCHANGED <<file, cfg>> /\ \A r \in Requests : req'[r].pc = "idle"
    BY FreeFacts DEF Stop
  <1>2. InOrder(file', links', left')
    BY <1>1, InOrderLess DEF NumInv, DocInv
  <1> QED BY <1>1, <1>2 DEF NumInv, Editing

(* Interfaces may be taken down, rules go, or come for a tunnel.           *)
LEMMA HostNumsKept ==
  ASSUME CfgInv, NumInv, UNCHANGED <<etc, cfg>>, phase' # "off" => phase # "off",
         Fewer(links, left, links', left'),
         \A x \in rules' : x \in rules \/ \E i \in DOMAIN cfg.tunnels : x = Rule(Tun(i))
  PROVE  HostNums'
  <1>1. \A x \in rules' : OwnNumber(x)
    BY CfgNums DEF NumInv, HostNums
  <1>2. phase' # "off" => LinksOf(links', ToSet(cfg'.tunnels), left')
    BY DEF NumInv, HostNums, LinksOf, Fewer
  <1>3. OneEach(links')
    BY DEF NumInv, HostNums, OneEach, Fewer
  <1>4. \A n \in Names : links'[n] # NoLink => etc'[n].table = links'[n]
    BY DEF NumInv, HostNums, Fewer
  <1> QED BY <1>1, <1>2, <1>3, <1>4 DEF NumInv, HostNums

(* Steps that leave interfaces alone.                                      *)
LEMMA NoFewer ==
  ASSUME UNCHANGED <<links, left>>
  PROVE  Fewer(links, left, links', left')
  BY DEF Fewer

(* A Down records that wg-quick failed, if the interface stays.            *)
LEMMA FewerDown ==
  ASSUME MemInv, NEW n \in Names, NEW done, links' = LinksAfter(n, done),
         left' = [left EXCEPT ![n] = {"wg", "nft"} \ done]
  PROVE  Fewer(links, left, links', left') /\ (links'[n] = NoLink \/ "wg" \in left'[n])
  <1>1. /\ \A k \in Names : k # n => links'[k] = links[k]
        /\ "wg" \in done => links'[n] = NoLink
        /\ "wg" \notin done => links' = links
    BY LinksFacts DEF MemInv
  <1>2. left'[n] = {"wg", "nft"} \ done /\ \A k \in Names : k # n => left'[k] = left[k]
    BY DEF MemInv, Leftovers
  <1>3. "wg" \notin done => "wg" \in left'[n]
    BY <1>2
  <1> QED BY <1>1, <1>2, <1>3 DEF Fewer

(* In memory and on disk the tunnels are the same.                         *)
LEMMA SameTunnels ==
  ASSUME MemInv, phase # "off", ~pending, ~Writing
  PROVE  ToSet(cfg.tunnels) = Nums(file)
  BY DEF MemInv, SameAsFile, Nums

LEMMA NumEnsureUp ==
  ASSUME DocInv, CfgInv, MemInv, NumInv, EnsureUp \/ UpRefused \/ (Fails /\ phase = "up")
  PROVE  NumInv'
  <1> DEFINE t == Tun(step)
             c == Conf(t)
  <1>1. /\ phase = "up" /\ etc' = [etc EXCEPT ![t.name] = c] /\ UNCHANGED <<file, cfg, req, pending>>
        /\ \/ UNCHANGED <<links, rules>>
           \/ /\ links[t.name] = NoLink /\ Vacant(t)
              /\ links' = [links EXCEPT ![t.name] = c.table] /\ rules' = rules \cup {Rule(c)}
        /\ left' = left \/ left' = [left EXCEPT ![t.name] = {}]
    BY ConfFacts DEF EnsureUp, UpRefused, WgUp, Fails, vars
  <1>2. step \in DOMAIN cfg.tunnels
    BY <1>1 DEF MemInv
  <1>3. /\ t.name \in Names /\ t \in ToSet(cfg.tunnels) /\ OwnNumber(c) /\ OwnNumber(Rule(c))
        /\ c.by = "program" /\ c.table = t.table
        /\ \A u \in ToSet(cfg.tunnels) : u.name = t.name => u = t
    <2>1. t.name \in Names /\ t \in ToSet(cfg.tunnels) /\ OwnNumber(c)
          /\ \A u \in ToSet(cfg.tunnels) : u.name = t.name => u = t
      BY <1>2, CfgFacts, CfgNums
    <2>2. c.by = "program" /\ c.table = t.table
      BY ConfFacts
    <2> HIDE DEF c, t
    <2> QED BY <2>1, <2>2 DEF OwnNumber, Rule
  <1>4. ToSet(cfg.tunnels) = Nums(file) /\ ~Writing /\ \A r \in Requests : req[r].pc = "idle"
    <2>1. ~up /\ ~pending /\ \A r \in Requests : req[r].pc = "idle"
      BY <1>1 DEF DocInv, OneAtATime, Busy
    <2> QED BY <1>1, <2>1, SameTunnels DEF Writing
  <1>5. LinksOf(links, ToSet(cfg.tunnels), left) /\ OneEach(links)
    BY <1>1 DEF NumInv, HostNums
  <1>a. Vacant(t) => \A n \in Names : links[n] # t.table
    BY DEF Vacant
  <1> HIDE DEF t, c
  <1>b. \A n \in Names : n # t.name => left'[n] = left[n]
    BY <1>1 DEF MemInv, Leftovers
  <1>c. /\ \A n \in Names : n # t.name => links'[n] = links[n]
        /\ links'[t.name] = links[t.name] \/ (links'[t.name] = t.table /\ Vacant(t))
    BY <1>1, <1>3 DEF MemInv
  <1>6. LinksOf(links', ToSet(cfg.tunnels), left')
    <2>1. SUFFICES ASSUME NEW n \in Names, links'[n] # NoLink
                   PROVE  \/ \E u \in ToSet(cfg.tunnels) : u.name = n /\ u.table = links'[n]
                          \/ "wg" \in left'[n] /\ \A u \in ToSet(cfg.tunnels) : u.name # n
      BY DEF LinksOf
    <2>2. CASE n = t.name
      <3>1. links[n] # NoLink => \E u \in ToSet(cfg.tunnels) : u.name = n /\ u.table = links[n]
        BY <1>3, <1>5, <2>2 DEF LinksOf
      <3> QED BY <1>3, <1>c, <2>1, <2>2, <3>1
    <2>3. CASE n # t.name
      BY <1>5, <1>b, <1>c, <2>1, <2>3 DEF LinksOf
    <2> QED BY <2>2, <2>3
  <1>d. OneEach(links')
    BY <1>3, <1>5, <1>a, <1>c DEF OneEach
  <1>7. \A n \in Names : links'[n] # NoLink => etc'[n].table = links'[n]
    <2>1. SUFFICES ASSUME NEW n \in Names, links'[n] # NoLink PROVE etc'[n].table = links'[n]
      OBVIOUS
    <2>2. CASE n = t.name
      <3>1. etc'[n] = c
        BY <1>1, <1>3, <2>2 DEF MemInv
      <3>2. \E u \in ToSet(cfg.tunnels) : u.name = n /\ u.table = links'[n]
        BY <1>3, <1>6, <2>1, <2>2 DEF LinksOf
      <3> QED BY <1>3, <2>2, <3>1, <3>2
    <2>3. CASE n # t.name
      BY <1>1, <2>1, <2>3 DEF MemInv, NumInv, HostNums
    <2> QED BY <2>2, <2>3
  <1>8. \A n \in Names : etc'[n].by # "old" /\ etc'[n].table # NoLink => OwnNumber(etc'[n])
    <2>1. \A n \in Names : etc'[n] = etc[n] \/ etc'[n] = c
      BY <1>1 DEF MemInv
    <2> QED BY <1>3, <2>1 DEF NumInv, HostNums
  <1>9. HostNums'
    BY <1>1, <1>3, <1>6, <1>7, <1>8, <1>d DEF NumInv, HostNums
  <1>10. InOrder(file, links', left')
    BY <1>4, <1>6 DEF NumInv, InOrder
  <1>11. Numbered(ToSet(cfg'.tunnels))
    BY <1>1 DEF NumInv
  <1> QED BY <1>1, <1>4, <1>9, <1>10, <1>11 DEF NumInv, Editing, Writing

LEMMA NumHandle ==
  ASSUME Orderly, DocInv, CfgInv, MemInv, NumInv, Handle
  PROVE  NumInv'
  <1>0. DocInv'
    BY DocNext DEF Next
  <1>1. UNCHANGED <<phase, step, etc, rules, left>>
    BY DEF Handle, hostVars
  <1>2. ASSUME NEW r \in Requests, NEW n \in Names, AddTunnel(r, n) PROVE NumInv'
    <2>1. /\ UNCHANGED <<file, links, cfg>> /\ ~Writing /\ Fit(file, wgs) /\ links[n] = NoLink
          /\ \A q \in Requests : q # r => req[q].pc = "idle"
      BY <1>2, Alone DEF AddTunnel
    <2>2. PICK t \in Tuns :
            /\ req' = [req EXCEPT ![r] = [pc |-> "addLoad", name |-> n, doc |-> <<>>, tun |-> <<t>>]]
            /\ t = [name |-> n, table |-> NextNumber(Load(file).tunnels, "table"),
                    mark |-> NextNumber(Load(file).tunnels, "mark")]
            /\ t.table <= MaxNumber
      BY <1>1, <1>2, DocAddTunnel
    <2>3. InOrder(file, links, left) /\ HostNums'
      BY <1>1, <2>1, HostNumsKept, NoFewer DEF NumInv
    <2>4. Fresh(t, file)
      <3>1. t.table = NextNumber(Load(file).tunnels, "table") /\ t.mark = NextNumber(Load(file).tunnels, "mark")
        BY <2>2
      <3>2. file \in Docs /\ Numbered(Nums(file))
        BY <2>1, <2>3 DEF Fit, InOrder
      <3> QED BY <2>2, <3>1, <3>2, FreshNext
    <2> DEFINE v == [pc |-> "addLoad", name |-> n, doc |-> <<>>, tun |-> <<t>>]
    <2>5. v.pc = "addLoad" /\ v.tun[1] = t /\ v.name = n /\ req' = [req EXCEPT ![r] = v]
      BY <2>2
    <2> HIDE DEF v
    <2> QED BY <1>0, <1>1, <2>1, <2>3, <2>4, <2>5, NumMoved
  <1>3. ASSUME NEW r \in Requests, NEW n \in Names, PutSocks(r, n) PROVE NumInv'
    <2> DEFINE d == [file EXCEPT !.default = n]
               v == [pc |-> "open", name |-> NoName, doc |-> d, tun |-> <<>>]
    <2>1. /\ UNCHANGED <<file, links, cfg>> /\ ~Writing /\ Fit(file, wgs)
          /\ \A q \in Requests : q # r => req[q].pc = "idle"
      BY <1>3, Alone DEF PutSocks
    <2>2. req' = [req EXCEPT ![r] = v]
      BY <1>1, <1>3, DocPutSocks
    <2>3. InOrder(file, links, left) /\ HostNums'
      BY <1>1, <2>1, HostNumsKept, NoFewer DEF NumInv
    <2>4. InOrder(d, links, left)
      BY <2>1, <2>3, InOrderDefault DEF Fit
    <2> HIDE DEF d
    <2>5. v.pc = "open" /\ v.doc = d
      OBVIOUS
    <2> HIDE DEF v
    <2> QED BY <1>0, <1>1, <2>1, <2>2, <2>3, <2>4, <2>5, NumMoved
  <1>4. ASSUME NEW r \in Requests, AddEdit(r) PROVE NumInv'
    <2> DEFINE t == req[r].tun[1]
               d == [file EXCEPT !.tunnels = @ \o <<t>>]
               v == [pc |-> "open", name |-> t.name, doc |-> d, tun |-> <<t>>]
    <2>1. UNCHANGED <<file, links, cfg>> /\ req[r].pc = "addLoad"
      BY <1>4 DEF AddEdit
    <2>2. ~Writing /\ Fit(file, wgs) /\ \A q \in Requests : q # r => req[q].pc = "idle"
      BY <2>1, Alone DEF Busy
    <2>3. /\ t \in Tuns /\ t.name \notin NamesIn(file) /\ t.name = req[r].name
          /\ req' = [req EXCEPT ![r] = v]
      BY <1>1, <1>4, DocAddEdit
    <2>4. InOrder(file, links, left) /\ HostNums' /\ Fresh(t, file) /\ links[t.name] = NoLink
      BY <1>1, <2>1, <2>2, <2>3, HostNumsKept, NoFewer DEF NumInv
    <2> HIDE DEF t
    <2>5. InOrder(d, links, left)
      BY <2>2, <2>3, <2>4, InOrderAppend DEF Fit
    <2> HIDE DEF d
    <2>6. v.pc = "open" /\ v.doc = d
      OBVIOUS
    <2> HIDE DEF v
    <2> QED BY <1>0, <1>1, <2>1, <2>2, <2>3, <2>4, <2>5, <2>6, NumMoved
  <1>5. ASSUME NEW r \in Requests, Truncate(r) PROVE NumInv'
    <2> DEFINE v == [req[r] EXCEPT !.pc = "write"]
    <2>1. UNCHANGED <<links, cfg>> /\ req[r].pc = "open" /\ req[r] \in Asked /\ req' = [req EXCEPT ![r] = v]
      BY <1>5 DEF Truncate, DocInv
    <2>2. \A q \in Requests : q # r => req[q].pc = "idle"
      BY <2>1, Alone DEF Busy
    <2>3. v.pc = "write" /\ v.doc = req[r].doc
      BY <2>1 DEF Asked
    <2> HIDE DEF v
    <2>4. HostNums' /\ InOrder(v.doc, links, left)
      BY <1>1, <2>1, <2>3, HostNumsKept, NoFewer DEF NumInv, Editing
    <2> QED BY <1>0, <1>1, <2>1, <2>2, <2>3, <2>4, NumMoved
  <1>6. ASSUME NEW r \in Requests, Finish(r) PROVE NumInv'
    <2>1. UNCHANGED <<links, cfg>> /\ req[r].pc = "write" /\ req' = [req EXCEPT ![r] = Free] /\ file' = req[r].doc
      BY <1>6 DEF Finish
    <2>2. \A q \in Requests : q # r => req[q].pc = "idle"
      BY <2>1, Alone DEF Busy
    <2>3. HostNums' /\ InOrder(file', links, left)
      BY <1>1, <2>1, HostNumsKept, NoFewer DEF NumInv, Editing
    <2> QED BY <1>0, <1>1, <2>1, <2>2, <2>3, FreeFacts, NumMoved
  <1> QED BY <1>2, <1>3, <1>4, <1>5, <1>6 DEF Handle

LEMMA NumTakesDown ==
  ASSUME Orderly, DocInv, CfgInv, MemInv, NumInv, NEW r \in Requests, NEW n \in Names, NEW done, TakesDown(r, n, done)
  PROVE  NumInv'
  <1>0. DocInv'
    BY DocTakesDown
  <1>1. /\ UNCHANGED <<phase, step, etc>> /\ rules' \subseteq rules
        /\ left' = [left EXCEPT ![n] = {"wg", "nft"} \ done] /\ links' = LinksAfter(n, done)
        /\ UNCHANGED <<file, cfg>> /\ MayStart(r)
    BY DownFacts DEF TakesDown, DelTunnel, PutTunnel
  <1>2. Fewer(links, left, links', left') /\ (links'[n] = NoLink \/ "wg" \in left'[n])
    BY <1>1, FewerDown
  <1>3. /\ ~Writing /\ Fit(file, wgs) /\ req[r].pc = "idle"
        /\ \A q \in Requests : q # r => req[q].pc = "idle"
    BY <1>1, Alone
  <1>4. InOrder(file, links, left) /\ file \in Docs
    BY <1>3 DEF NumInv, Fit
  <1>5. InOrder(file, links', left') /\ HostNums'
    BY <1>1, <1>2, <1>4, InOrderLess, HostNumsKept
  <1>6. CASE req' = req
    BY <1>1, <1>3, <1>5, <1>6 DEF NumInv, Editing
  <1>7. CASE req' = [req EXCEPT ![r] = [pc |-> "open", name |-> n, doc |-> Without(file, n), tun |-> <<>>]]
    <2> DEFINE d == Without(file, n)
               v == [pc |-> "open", name |-> n, doc |-> d, tun |-> <<>>]
    <2>1. req' = [req EXCEPT ![r] = v]
      BY <1>7
    <2>2. InOrder(d, links', left')
      BY <1>2, <1>4, InOrderWithout
    <2> HIDE DEF d
    <2>3. v.pc = "open" /\ v.doc = d
      OBVIOUS
    <2> HIDE DEF v
    <2> QED BY <1>0, <1>1, <1>3, <1>5, <2>1, <2>2, <2>3, NumMoved
  <1>8. DelTunnel(r, n, done) => \/ req' = req
                                \/ req' = [req EXCEPT ![r] = [pc |-> "open", name |-> n, doc |-> Without(file, n), tun |-> <<>>]]
    BY <1>1, DocDelTunnel
  <1>9. PutTunnel(r, n, done) => req' = req
    BY DEF PutTunnel
  <1> QED BY <1>6, <1>7, <1>8, <1>9 DEF TakesDown

LEMMA NumErrs ==
  ASSUME Orderly, DocInv, CfgInv, MemInv, NumInv, NEW r \in Requests, Errs(r), UNCHANGED <<phase, step, hostVars>>
  PROVE  NumInv'
  <1>1. /\ DocInv' /\ UNCHANGED <<links, cfg>> /\ req' = [req EXCEPT ![r] = Free]
        /\ \A q \in Requests : q # r => req[q].pc = "idle"
        /\ \/ ~Writing /\ UNCHANGED file
           \/ req[r].pc = "write" /\ file' = req[r].doc
    BY DocErrs
  <1>2. UNCHANGED <<etc, left, phase, rules>>
    BY DEF hostVars
  <1>3. HostNums'
    BY <1>1, <1>2, HostNumsKept, NoFewer
  <1>4. InOrder(file', links', left')
    BY <1>1, <1>2 DEF NumInv, Editing
  <1> QED BY <1>1, <1>3, <1>4, FreeFacts, NumMoved

LEMMA NumNext ==
  ASSUME Orderly, DocInv, CfgInv, MemInv, NumInv, [Next]_allVars
  PROVE  NumInv'
  <1> USE DEF vars, hostVars
  <1>1. CASE Boot
    <2>1. /\ phase = "off" /\ UNCHANGED <<file, req, links, rules, etc, left>> /\ cfg' = Load(file)
      BY <1>1 DEF Boot, LoadConfig
    <2>2. ~Writing /\ \A r \in Requests : req[r].pc = "idle"
      BY <2>1 DEF DocInv, OneAtATime, Busy, Writing
    <2>3. InOrder(file, links, left) /\ ToSet(cfg'.tunnels) = Nums(file)
      BY <2>1, <2>2 DEF NumInv, Nums
    <2>4. Numbered(ToSet(cfg'.tunnels)) /\ LinksOf(links', ToSet(cfg'.tunnels), left')
      BY <2>1, <2>3 DEF InOrder
    <2>5. HostNums'
      BY <2>1, <2>4 DEF NumInv, HostNums
    <2> QED BY <2>1, <2>2, <2>3, <2>4, <2>5 DEF NumInv, Editing
  <1>2. CASE WriteNFT \/ LegacyDone \/ EnsureRule \/ LoadNFT \/ \E n \in Names : TakeoverLegacy(n)
    <2>1. /\ UNCHANGED <<file, links, cfg, req, etc, left>> /\ phase # "off"
          /\ rules' = rules \/ rules' = rules \cup {Rule(Tun(step))}
      BY <1>2 DEF WriteNFT, LegacyDone, EnsureRule, LoadNFT, TakeoverLegacy
    <2>2. rules' # rules => step \in DOMAIN cfg.tunnels
      BY <1>2 DEF WriteNFT, LegacyDone, EnsureRule, LoadNFT, TakeoverLegacy, MemInv
    <2>3. HostNums'
      BY <2>1, <2>2, HostNumsKept, NoFewer
    <2> QED BY <2>1, <2>3, NumAside
  <1>3. CASE EnsureUp \/ UpRefused
    BY <1>3, NumEnsureUp
  <1>4. CASE Handle
    BY <1>4, NumHandle
  <1>5. CASE HandleDown \/ HandleFails
    <2>1. ASSUME NEW r \in Requests, NEW n \in Names, NEW done \in SUBSET Commands, TakesDown(r, n, done)
          PROVE  NumInv'
      BY <2>1, NumTakesDown
    <2>2. ASSUME NEW r \in Requests, Errs(r), UNCHANGED <<phase, step, hostVars>> PROVE NumInv'
      BY <2>2, NumErrs
    <2> QED BY <1>5, <2>1, <2>2, Handlers
  <1>6. CASE Restart \/ Kill \/ Reboot
    <2>1. Stop /\ ~Writing
      BY <1>6 DEF Restart, Kill, Reboot, Whole, Resting, Writing, Orderly
    <2>2. /\ UNCHANGED <<etc, cfg>> /\ phase' = "off" /\ rules' \subseteq rules
          /\ UNCHANGED <<links, left>> \/ links' = [n \in Names |-> NoLink]
      BY <1>6 DEF Restart, Kill, Reboot, Stop
    <2>a. Fewer(links, left, links', left')
      BY <2>2 DEF Fewer
    <2>3. HostNums'
      BY <2>2, <2>a, HostNumsKept
    <2> QED BY <2>1, <2>2, <2>3, <2>a, NumStop
  <1>7. CASE Fails
    <2>1. CASE phase = "up"
      BY <1>7, <2>1, NumEnsureUp
    <2>2. CASE phase # "up"
      <3>1. UNCHANGED <<file, links, cfg, req, etc, rules, left>> /\ phase' = "off"
        BY <1>7, <2>2 DEF Fails
      <3>2. HostNums'
        BY <3>1, HostNumsKept, NoFewer
      <3> QED BY <3>1, <3>2, NumAside
    <2> QED BY <2>1, <2>2
  <1>8. CASE \E n \in Names : Flap(n)
    <2>1. PICK n \in Names : Flap(n)
      BY <1>8
    <2>2. /\ links[n] # NoLink /\ links' = [links EXCEPT ![n] = etc[n].table]
          /\ UNCHANGED <<file, cfg, req, phase, etc, left>>
          /\ rules' = rules \/ (rules' = rules \cup {Rule(etc[n])} /\ etc[n].by # "old")
      BY <2>1 DEF Flap
    <2>3. links' = links /\ etc[n].table # NoLink
      <3>1. etc[n].table = links[n]
        BY <2>2 DEF NumInv, HostNums
      <3> QED BY <2>2, <3>1 DEF MemInv
    <2>4. rules' = rules \/ (rules' = rules \cup {Rule(etc[n])} /\ OwnNumber(Rule(etc[n])))
      BY <2>2, <2>3 DEF NumInv, HostNums, OwnNumber, Rule
    <2>5. HostNums'
      BY <2>2, <2>3, <2>4 DEF NumInv, HostNums
    <2> QED BY <2>2, <2>3, <2>5, NumAside
  <1>9. CASE \E i \in 1..MaxTunnels : Tick(i)
    <2>1. PICK i \in 1..MaxTunnels : Tick(i)
      BY <1>9
    <2>2. /\ UNCHANGED <<file, links, cfg, req, etc, phase, left>>
          /\ i \in DOMAIN cfg.tunnels /\ rules' = rules \cup {Rule(Tun(i))}
      BY <2>1 DEF Tick
    <2>3. HostNums'
      BY <2>2, HostNumsKept, NoFewer
    <2> QED BY <2>2, <2>3, NumAside
  <1>10. CASE Flush \/ UNCHANGED allVars
    <2>1. UNCHANGED <<file, links, cfg, req, etc, phase, left>> /\ rules' \subseteq rules
      BY <1>10 DEF Flush, allVars
    <2>2. HostNums'
      BY <2>1, HostNumsKept, NoFewer
    <2> QED BY <2>1, <2>2, NumAside
  <1> QED BY <1>1, <1>2, <1>3, <1>4, <1>5, <1>6, <1>7, <1>8, <1>9, <1>10 DEF Next, Startup, Outside

-----------------------------------------------------------------------------
(* What numbers of their own are worth.                                    *)

LEMMA NumInvariant ==
  ASSUME Orderly, OwnNumbers
  PROVE  Spec => [](DocInv /\ CfgInv /\ MemInv /\ NumInv)
  <1>1. Init => DocInv /\ CfgInv /\ MemInv /\ NumInv
    BY DocInit, MemInit, NumInit
  <1>2. DocInv /\ CfgInv /\ MemInv /\ NumInv /\ [Next]_allVars => (DocInv /\ CfgInv /\ MemInv /\ NumInv)'
    BY DocNext, MemNext, NumNext
  <1> QED BY <1>1, <1>2, PTL DEF Spec

(* Whenever no handler writes, the tunnels of the file have tables and     *)
(* marks of their own, in the bits ip rule compares too, and none matches  *)
(* traffic without a mark.                                                 *)
THEOREM HostTunnelsApart ==
  ASSUME Orderly, OwnNumbers
  PROVE  Spec => []TunnelsApart
  <1>1. DocInv /\ NumInv => TunnelsApart
    <2>1. SUFFICES ASSUME DocInv, NumInv, Resting PROVE TunnelsApart
      BY DEF TunnelsApart
    <2> DEFINE ts == Load(file).tunnels
    <2>2. Numbered(Nums(file)) /\ Valid(file) /\ file \in Docs
      BY <2>1 DEF DocInv, NumInv, InOrder, Fit, Resting, Writing
    <2>3. \A i \in DOMAIN ts : ts[i] \in Nums(file)
      BY <2>2, NumsFacts
    <2>4. \A i, j \in DOMAIN ts : ts[i].name = ts[j].name => i = j
      BY <2>2, LoadFacts DEF Valid
    <2> HIDE DEF ts
    <2>5. \A i \in DOMAIN ts : /\ ts[i].mark = ts[i].table /\ ts[i].table \in 1 .. MaxNumber
                               /\ ts[i].mark % MarkSpace = ts[i].table
      <3>1. \A i \in DOMAIN ts : ts[i].mark = ts[i].table /\ ts[i].table \in 1 .. MaxNumber
        BY <2>2, <2>3 DEF Numbered
      <3>2. MaxNumber < 256 /\ MaxNumber \in Nat
        BY FilesAssumption DEF OwnNumbers, MarkSpace
      <3>3. \A k \in 1 .. MaxNumber : k % 256 = k
        BY <3>2
      <3> QED BY <3>1, <3>3 DEF MarkSpace
    <2>6. ASSUME NEW i \in DOMAIN ts, NEW j \in DOMAIN ts, ts[i].table = ts[j].table
          PROVE  i = j
      <3>1. ts[i] = ts[j]
        BY <2>2, <2>3, <2>6 DEF Numbered
      <3> QED BY <2>4, <3>1
    <2>7. ASSUME NEW i \in DOMAIN ts
          PROVE  /\ ts[i].mark % MarkSpace # 0
                 /\ \A j \in DOMAIN ts \ {i} :
                      ts[i].table # ts[j].table /\ ts[i].mark % MarkSpace # ts[j].mark % MarkSpace
      <3>1. ts[i].mark % MarkSpace = ts[i].table /\ ts[i].table # 0
        BY <2>5, FilesAssumption
      <3>2. \A j \in DOMAIN ts \ {i} : ts[j].mark % MarkSpace = ts[j].table /\ ts[i].table # ts[j].table
        BY <2>5, <2>6
      <3> QED BY <3>1, <3>2
    <2> QED BY <2>7 DEF TunnelsApart, ts
  <1> QED BY <1>1, NumInvariant, PTL

(* While the proxy serves, a connection it marks for a tunnel that is up   *)
(* and has its rule goes out by that tunnel.                               *)
THEOREM HostEgressRouted ==
  ASSUME Orderly, OwnNumbers
  PROVE  Spec => []EgressRouted
  <1>1. DocInv /\ CfgInv /\ NumInv => EgressRouted
    <2>1. SUFFICES ASSUME DocInv, CfgInv, NumInv, up,
                          NEW i \in DOMAIN cfg.tunnels, links[Tun(i).name] # NoLink, Rule(Tun(i)) \in rules
                   PROVE  /\ links[Tun(i).name] = Tun(i).table
                          /\ \A n \in Names \ {Tun(i).name} : links[n] # Tun(i).table
                          /\ Tun(i).table = Min(Tried(Tun(i).mark))
      BY DEF EgressRouted
    <2> DEFINE t == Tun(i)
    <2>2. /\ t.name \in Names /\ t.table # NoLink /\ OwnNumber(t)
          /\ \A u \in ToSet(cfg.tunnels) : u.name = t.name \/ u.table = t.table => u = t
      BY CfgFacts, CfgNums, <2>1 DEF NoLink
    <2>3. LinksOf(links, ToSet(cfg.tunnels), left) /\ OneEach(links) /\ t \in ToSet(cfg.tunnels)
      BY <2>1, CfgNums DEF DocInv, OneAtATime, NumInv, HostNums
    <2>4. Rule(t).table = t.table /\ Rule(t).mark = t.mark
      BY DEF Rule
    <2>5. links[t.name] # NoLink /\ Rule(t) \in rules
      BY <2>1
    <2> HIDE DEF t
    <2>6. links[t.name] = t.table
      BY <2>2, <2>3, <2>5 DEF LinksOf
    <2>7. \A n \in Names \ {t.name} : links[n] # t.table
      BY <2>2, <2>3, <2>5, <2>6 DEF OneEach
    <2>8. \A k \in 1 .. MaxNumber : k % MarkSpace = k
      <3>1. MaxNumber < 256 /\ MaxNumber \in Nat
        BY FilesAssumption DEF OwnNumbers, MarkSpace
      <3> QED BY <3>1 DEF MarkSpace
    <2>9. \A x \in rules : x.mark % MarkSpace = x.table
      BY <2>1, <2>8 DEF NumInv, HostNums, OwnNumber
    <2>10. t.mark % MarkSpace = t.table
      BY <2>2, <2>8 DEF OwnNumber
    <2>11. Tried(t.mark) = {t.table}
      BY <2>2, <2>4, <2>5, <2>6, <2>9, <2>10 DEF Tried
    <2>12. Min({t.table}) = t.table
      <3>1. t.table \in Int
        BY <2>2, FilesAssumption DEF OwnNumber
      <3> QED BY <3>1 DEF Min
    <2> QED BY <2>6, <2>7, <2>11, <2>12 DEF t
  <1> QED BY <1>1, NumInvariant, PTL

-----------------------------------------------------------------------------
(* nft: what loading and deleting a table keeps.                           *)

LEMMA TablesLess ==
  ASSUME NEW tb, NEW tc, NEW ns, NEW ms, NEW lf, TablesOf(tb, ns, lf), ns \subseteq ms,
         \A x \in Range(NftName) : tc[x] = tb[x] \/ tc[x] = <<>>
  PROVE  TablesOf(tc, ms, lf)
  BY DEF TablesOf

(* Only the table of tunnel n may be loaded, and n come, go or be left.    *)
LEMMA TablesChange ==
  ASSUME NEW tb, NEW tc, NEW ns, NEW ms, NEW lf, NEW lg, TablesOf(tb, ns, lf), NEW n \in Names,
         \A x \in Range(NftName) : x # NftName[n] => tc[x] = tb[x],
         \A k \in Names : k # n => lg[k] = lf[k] /\ (k \in ns => k \in ms),
         tc[NftName[n]] # <<>> => n \in ms \/ lg[n] # {}
  PROVE  TablesOf(tc, ms, lg)
  <1>1. SUFFICES ASSUME NEW x \in Range(NftName), tc[x] # <<>>
                 PROVE  \E k \in Names : NftName[k] = x /\ (k \in ms \/ lg[k] # {})
    BY DEF TablesOf
  <1>2. CASE x = NftName[n]
    BY <1>1, <1>2
  <1>3. CASE x # NftName[n]
    <2>1. PICK k \in Names : NftName[k] = x /\ (k \in ns \/ lf[k] # {})
      BY <1>1, <1>3 DEF TablesOf
    <2> QED BY <1>3, <2>1
  <1> QED BY <1>2, <1>3

LEMMA OwnTable ==
  ASSUME OwnTables, CfgInv
  PROVE  /\ \A n \in Names : NftName[n] \in Range(NftName)
         /\ \A i \in DOMAIN cfg.tunnels : NftName[Tun(i).name] \in Range(NftName)
         /\ \A i, j \in DOMAIN cfg.tunnels : NftName[Tun(i).name] = NftName[Tun(j).name] => i = j
         /\ \A i \in DOMAIN cfg.tunnels, n \in Names : NftName[Tun(i).name] = NftName[n] => Tun(i).name = n
         /\ \A i \in DOMAIN cfg.tunnels : Tun(i) \in ToSet(cfg.tunnels) /\ Tun(i).name \in NamesIn(cfg)
  <1>1. \A n \in Names : NftName[n] \in Range(NftName)
    BY HostAssumption DEF Range
  <1>2. \A i \in DOMAIN cfg.tunnels : Tun(i) \in ToSet(cfg.tunnels)
    BY DEF Tun, ToSet
  <1> QED BY <1>1, <1>2, CfgFacts DEF OwnTables

(* In memory and on disk the names are the same.                           *)
LEMMA SameNames ==
  ASSUME DocInv, MemInv, phase # "off", ~pending, ~Writing
  PROVE  NamesIn(cfg) = NamesIn(file)
  <1>1. cfg.tunnels = Load(file).tunnels
    BY DEF MemInv, SameAsFile
  <1> QED BY <1>1, LoadFacts DEF DocInv, NamesIn

LEMMA BuildFacts ==
  ASSUME NEW t \in Tuns
  PROVE  BuildNFT(t) \in Seq(NftRules(t.name))
  <1> DEFINE seed(m) == [mark |-> m, src |-> "any", do |-> <<"seed", t.name>>]
             M == SeedMarks[t.name]
             R == {seed(m) : m \in M}
             s == SetToSeq(R)
             a == [mark |-> t.mark, src |-> "notBase", do |-> <<"accept", t.name>>]
             p == [mark |-> t.mark, src |-> "any", do |-> <<"pool", t.name>>]
  <1>1. BuildNFT(t) = s \o <<a, p>>
    BY DEF BuildNFT
  <1>2. M \subseteq Nat /\ IsFiniteSet(M) /\ t.mark \in Nat
    BY HostAssumption DEF Tuns
  <1>3. IsFiniteSet(R)
    <2> DEFINE f == [m \in M |-> seed(m)]
    <2>1. f \in Surjection(M, R)
      BY DEF Surjection
    <2> HIDE DEF f, R, M
    <2> QED BY <1>2, <2>1, FS_Surjection
  <1>4. R \subseteq NftRules(t.name) /\ a \in NftRules(t.name) /\ p \in NftRules(t.name)
    BY <1>2 DEF NftRules
  <1> HIDE DEF R, a, p
  <1>5. s \in Seq(R)
    BY <1>3, AllInSeq
  <1>6. s \in Seq(NftRules(t.name))
    <2> HIDE DEF s
    <2>1. Len(s) \in Nat /\ DOMAIN s = 1 .. Len(s) /\ \A i \in DOMAIN s : s[i] \in R
      BY <1>5
    <2>2. s \in [1 .. Len(s) -> NftRules(t.name)]
      BY <1>4, <1>5, <2>1
    <2> QED BY <2>1, <2>2, SeqDef
  <1>7. <<a, p>> \in Seq(NftRules(t.name))
    BY <1>4
  <1> HIDE DEF s
  <1> QED BY <1>1, <1>6, <1>7

LEMMA NftInit ==
  ASSUME Orderly, Init
  PROVE  NftInv
  <1>1. /\ tables = [x \in Range(NftName) |-> <<>>] /\ runtime = tables /\ phase = "off"
    BY DEF Init
  <1>2. \A ns, lf : TablesOf(tables, ns, lf)
    BY <1>1 DEF TablesOf
  <1>3. \A i \in DOMAIN cfg.tunnels : Prepared(i)
    BY <1>1 DEF Prepared, Written, Taken, Loaded
  <1>4. Labelled
    <2>1. \A n \in Names : NftName[n] \in Range(NftName)
      BY HostAssumption DEF Range
    <2>2. \A n \in Names : left[n] = {}
      BY DEF Init
    <2>3. \A n \in Names : tables[NftName[n]] = <<>> /\ runtime[NftName[n]] = <<>>
      BY <1>1, <2>1
    <2>4. \A n \in Names : <<>> \in Seq(NftRules(n))
      OBVIOUS
    <2>5. \A n \in Names : tables[NftName[n]] \in Seq(NftRules(n)) /\ runtime[NftName[n]] \in Seq(NftRules(n))
      BY <2>3, <2>4, Zenon
    <2> QED BY <2>2, <2>5 DEF Labelled
  <1> QED BY <1>1, <1>2, <1>3, <1>4 DEF NftInv, NftDocs

(* Steps that leave the tunnels and nft alone, or take tables down while   *)
(* the process ends.                                                       *)
LEMMA PreparedKept ==
  ASSUME NEW i \in DOMAIN cfg.tunnels, Prepared(i), UNCHANGED cfg,
         Written(i)' => Written(i) /\ runtime'[NftName[Tun(i).name]] = runtime[NftName[Tun(i).name]],
         Taken(i)' => Taken(i) /\ etc'[Tun(i).name] = etc[Tun(i).name],
         Loaded(i)' => /\ Loaded(i) /\ tables'[NftName[Tun(i).name]] = tables[NftName[Tun(i).name]]
                       /\ links'[Tun(i).name] = links[Tun(i).name]
                       /\ left'[Tun(i).name] = left[Tun(i).name]
  PROVE  Prepared(i)'
  <1>1. Tun(i)' = Tun(i)
    BY DEF Tun
  <1> QED BY <1>1 DEF Prepared

LEMMA NftEnds ==
  ASSUME NftInv, UNCHANGED <<file, runtime>>, phase' = "off", DOMAIN tables' = DOMAIN tables,
         \A x \in DOMAIN tables : tables'[x] = tables[x] \/ tables'[x] = <<>>,
         UNCHANGED left \/ \A x \in DOMAIN tables : tables'[x] = <<>>,
         \A n \in Names : left'[n] # {} => (left[n] # {} /\ etc'[n] = etc[n]) \/ etc'[n].by = "program",
         ~Writing' => ~Writing,
         \A r \in Requests : Editing(r)' => Editing(r) /\ req'[r].doc = req[r].doc
  PROVE  NftInv'
  <1>1. ASSUME NEW ns, TablesOf(tables, ns, left) PROVE TablesOf(tables', ns, left')
    BY <1>1 DEF TablesOf, NftInv
  <1>2. NftDocs'
    BY <1>1 DEF NftInv, NftDocs
  <1>3. \A i \in DOMAIN cfg'.tunnels : Prepared(i)'
    BY DEF Prepared, Written, Taken, Loaded
  <1>4. Labelled'
    <2>1. SUFFICES ASSUME NEW n \in Names
                   PROVE  /\ tables'[NftName[n]] \in Seq(NftRules(n)) /\ runtime'[NftName[n]] \in Seq(NftRules(n))
                          /\ left'[n] # {} => etc'[n].by = "program"
      BY DEF Labelled
    <2>2. NftName[n] \in DOMAIN tables
      BY HostAssumption DEF NftInv, Range
    <2>3. <<>> \in Seq(NftRules(n))
      OBVIOUS
    <2> QED BY <2>2, <2>3 DEF NftInv, Labelled
  <1> QED BY <1>2, <1>3, <1>4 DEF NftInv

LEMMA NftAside ==
  ASSUME NftInv, UNCHANGED <<cfg, tables, runtime, etc, links, left>>, NftDocs',
         phase' # "off" => phase # "off",
         phase' \in {"rules", "nft", "serve"} => legacy' = {},
         \A i \in DOMAIN cfg.tunnels : /\ Written(i)' => Written(i)
                                       /\ Taken(i)' => Taken(i)
                                       /\ Loaded(i)' => Loaded(i)
  PROVE  NftInv'
  <1>1. \A i \in DOMAIN cfg.tunnels : Prepared(i)'
    BY PreparedKept DEF NftInv
  <1>2. Labelled'
    BY DEF NftInv, Labelled
  <1> QED BY <1>1, <1>2 DEF NftInv, NamesIn

LEMMA DocsKept ==
  ASSUME NftDocs, UNCHANGED <<file, req, tables, left>>
  PROVE  NftDocs'
  BY DEF NftDocs, Writing, Editing

(* The request that moves on leaves a file with every table loaded.        *)
LEMMA DocsMoved ==
  ASSUME DocInv, NEW r \in Requests, NEW v, req' = [req EXCEPT ![r] = v],
         \A q \in Requests : q # r => req[q].pc = "idle",
         v.pc # "write" => TablesOf(tables', NamesIn(file'), left'),
         v.pc \in {"open", "write"} => TablesOf(tables', NamesIn(v.doc), left')
  PROVE  NftDocs'
  <1>1. req'[r] = v /\ \A q \in Requests : q # r => req'[q].pc = "idle"
    BY DEF DocInv
  <1> QED BY <1>1 DEF NftDocs, Writing, Editing

LEMMA NftWrite ==
  ASSUME OwnTables, DocInv, CfgInv, MemInv, NftInv, WriteNFT
  PROVE  NftInv'
  <1> DEFINE t == Tun(step)
             x == NftName[t.name]
             b == BuildNFT(t)
  <1>1. /\ phase = "write" /\ runtime' = [runtime EXCEPT ![x] = b] /\ Step("up")
        /\ UNCHANGED <<file, links, cfg, req, tables, etc, legacy, left>>
    BY DEF WriteNFT, vars
  <1>2. step \in DOMAIN cfg.tunnels
    BY <1>1 DEF MemInv
  <1>3. /\ step \in Nat
        /\ \/ step' = step + 1 /\ phase' = "write"
           \/ step' = 1 /\ phase' = "up" /\ step = Len(cfg.tunnels)
        /\ \A i \in DOMAIN cfg.tunnels : i \in Nat /\ i >= 1 /\ i <= Len(cfg.tunnels)
    BY <1>1, <1>2, Steps, CfgFacts
  <1>4. x \in Range(NftName) /\ DOMAIN runtime = Range(NftName)
    BY <1>2, OwnTable DEF NftInv
  <1>5. ASSUME NEW i \in DOMAIN cfg.tunnels
        PROVE  Prepared(i)'
    <2>1. ~Taken(i)' /\ ~Loaded(i)'
      BY <1>3 DEF Taken, Loaded
    <2>2. Written(i)' => i = step \/ Written(i)
      BY <1>1, <1>3 DEF Written
    <2>3. i # step => runtime'[NftName[Tun(i).name]] = runtime[NftName[Tun(i).name]]
      <3>1. i # step => NftName[Tun(i).name] # x
        BY <1>2, OwnTable
      <3> HIDE DEF x, b
      <3> QED BY <1>1, <1>4, <3>1
    <2>4. i = step => runtime'[NftName[Tun(i).name]] = BuildNFT(Tun(i))
      BY <1>1, <1>4
    <2>5. Tun(i)' = Tun(i)
      BY <1>1 DEF Tun
    <2>6. Written(i)' => runtime'[NftName[Tun(i).name]] = BuildNFT(Tun(i))
      BY <2>2, <2>3, <2>4 DEF NftInv, Prepared
    <2> QED BY <2>1, <2>5, <2>6 DEF Prepared
  <1>6. NftDocs'
    BY <1>1, DocsKept DEF NftInv
  <1>7. b \in Seq(NftRules(t.name)) /\ \A n \in Names : NftName[n] = x => n = t.name
    BY <1>2, BuildFacts, OwnTable, CfgFacts
  <1> HIDE DEF x, b
  <1>8. DOMAIN runtime' = Range(NftName)
    BY <1>1, <1>4
  <1>9. \A y : runtime'[y] = runtime[y] \/ (y = x /\ runtime'[y] = b)
    BY <1>1, <1>4
  <1>10. Labelled'
    BY <1>1, <1>7, <1>9 DEF NftInv, Labelled
  <1> QED BY <1>1, <1>3, <1>5, <1>6, <1>8, <1>10 DEF NftInv, NamesIn

LEMMA NftEnsureUp ==
  ASSUME OwnTables, DocInv, CfgInv, MemInv, NumInv, NftInv, EnsureUp
  PROVE  NftInv'
  <1> DEFINE t == Tun(step)
             x == NftName[t.name]
             c == Conf(t)
  <1>1. /\ phase = "up" /\ etc' = [etc EXCEPT ![t.name] = c] /\ Step("takeover")
        /\ UNCHANGED <<file, cfg, req, pending, runtime>>
        /\ tables' = tables \/ tables' = [tables EXCEPT ![x] = @ \o runtime[x]]
        /\ left' = [left EXCEPT ![t.name] = {}]
    BY ConfFacts DEF EnsureUp, WgUp
  <1>2. step \in DOMAIN cfg.tunnels
    BY <1>1 DEF MemInv
  <1>3. /\ step \in Nat
        /\ \/ step' = step + 1 /\ phase' = "up"
           \/ step' = 1 /\ phase' = "takeover" /\ step = Len(cfg.tunnels)
        /\ \A i \in DOMAIN cfg.tunnels : i \in Nat /\ i >= 1 /\ i <= Len(cfg.tunnels)
    <2>1. CfgInv /\ Step("takeover")
      BY <1>1
    <2>2. /\ step \in Nat
          /\ \/ step' = step + 1 /\ phase' = phase
             \/ step' = 1 /\ phase' = "takeover" /\ step = Len(cfg.tunnels)
      BY <1>2, <2>1, Steps
    <2>3. Len(cfg.tunnels) \in Nat /\ DOMAIN cfg.tunnels = 1 .. Len(cfg.tunnels)
      BY CfgFacts
    <2> HIDE DEF t, x, c
    <2> QED BY <1>1, <2>2, <2>3
  <1>4. /\ x \in Range(NftName) /\ DOMAIN tables = Range(NftName) /\ t.name \in Names /\ t.name \in NamesIn(cfg)
        /\ c.by = "program" /\ DOMAIN etc = Names
    BY <1>2, OwnTable, CfgFacts, ConfFacts DEF NftInv, MemInv
  <1>5. DOMAIN tables' = Range(NftName) /\ \A y \in Range(NftName) : y # x => tables'[y] = tables[y]
    <2> HIDE DEF x
    <2> QED BY <1>1, <1>4
  <1>6. NamesIn(cfg) = NamesIn(file) /\ ~Writing /\ \A r \in Requests : req[r].pc = "idle"
    <2>1. ~up /\ ~pending /\ \A r \in Requests : req[r].pc = "idle"
      BY <1>1 DEF DocInv, OneAtATime, Busy
    <2> QED BY <1>1, <2>1, SameNames DEF Writing
  <1>a. left'[t.name] = {} /\ \A n \in Names : n # t.name => left'[n] = left[n]
    BY <1>1, <1>4 DEF MemInv, Leftovers
  <1>7. TablesOf(tables', NamesIn(cfg), left')
    <2>1. TablesOf(tables, NamesIn(cfg), left)
      BY <1>1 DEF NftInv
    <2> HIDE DEF t
    <2> QED BY <1>4, <1>5, <1>a, <2>1, TablesChange
  <1>8. NftDocs'
    BY <1>1, <1>6, <1>7 DEF NftDocs, Editing
  <1>9. ASSUME NEW i \in DOMAIN cfg.tunnels
        PROVE  Prepared(i)'
    <2>1. ~Loaded(i)' /\ Written(i)
      BY <1>1, <1>3 DEF Loaded, Written
    <2>2. Taken(i)' => i = step \/ Taken(i)
      <3>1. i \in Nat /\ i <= Len(cfg.tunnels) /\ phase = "up"
        BY <1>1, <1>3
      <3>2. /\ step \in Nat
            /\ (step' = step + 1 /\ phase' = "up") \/ (step' = 1 /\ phase' = "takeover" /\ step = Len(cfg.tunnels))
        BY <1>3
      <3> HIDE DEF t, x, c
      <3> QED BY <3>1, <3>2 DEF Taken
    <2>3. Tun(i).name \in Names /\ Tun(i)' = Tun(i)
      BY <1>1, CfgFacts DEF Tun
    <2>4. Taken(i)' => etc'[Tun(i).name].by = "program"
      <3>1. etc'[Tun(i).name] = c \/ (i # step /\ etc'[Tun(i).name] = etc[Tun(i).name])
        <4> HIDE DEF c
        <4> QED BY <1>1, <1>4, <2>3
      <3>2. Taken(i) => etc[Tun(i).name].by = "program"
        BY DEF NftInv, Prepared
      <3> QED BY <1>4, <2>2, <3>1, <3>2
    <2> QED BY <1>1, <2>1, <2>3, <2>4 DEF NftInv, Prepared
  <1>b. \A n \in Names : NftName[n] = x => n = t.name
    BY <1>2, OwnTable
  <1>10. \A n \in Names : tables'[NftName[n]] \in Seq(NftRules(n))
    <2>1. SUFFICES ASSUME NEW n \in Names PROVE tables'[NftName[n]] \in Seq(NftRules(n))
      OBVIOUS
    <2>2. NftName[n] \in Range(NftName) /\ tables[NftName[n]] \in Seq(NftRules(n)) /\ runtime[NftName[n]] \in Seq(NftRules(n))
      BY OwnTable DEF NftInv, Labelled
    <2>3. CASE NftName[n] # x
      <3> HIDE DEF x
      <3> QED BY <1>5, <2>2, <2>3
    <2>4. CASE NftName[n] = x
      <3>1. tables'[x] = tables[x] \/ tables'[x] = tables[x] \o runtime[x]
        <4> HIDE DEF x
        <4> QED BY <1>1, <1>4
      <3>2. tables[x] \in Seq(NftRules(n)) /\ runtime[x] \in Seq(NftRules(n))
        BY <2>2, <2>4
      <3>3. tables[x] \o runtime[x] \in Seq(NftRules(n))
        BY <3>2, ConcatProperties
      <3> HIDE DEF x
      <3> QED BY <2>4, <3>1, <3>2, <3>3, Zenon
    <2> QED BY <2>3, <2>4
  <1>11. \A n \in Names : left'[n] # {} => etc'[n].by = "program"
    <2>1. \A n \in Names : n # t.name => etc'[n] = etc[n]
      <3> HIDE DEF c, t
      <3> QED BY <1>1, <1>4
    <2> HIDE DEF c, t
    <2> QED BY <1>a, <2>1 DEF NftInv, Labelled
  <1>12. Labelled'
    BY <1>1, <1>10, <1>11 DEF NftInv, Labelled
  <1> HIDE DEF t, x, c
  <1>13. phase' # "off" /\ phase' \notin {"rules", "nft", "serve"} /\ NamesIn(cfg)' = NamesIn(cfg)
    BY <1>1, <1>3 DEF NamesIn
  <1> QED BY <1>1, <1>5, <1>7, <1>8, <1>9, <1>12, <1>13 DEF NftInv

LEMMA NftLoad ==
  ASSUME OwnTables, DocInv, CfgInv, MemInv, NftInv, LoadNFT
  PROVE  NftInv'
  <1> DEFINE t == Tun(step)
             x == NftName[t.name]
             b == BuildNFT(t)
  <1>1. /\ phase = "nft" /\ tables' = [tables EXCEPT ![x] = b] /\ runtime' = [runtime EXCEPT ![x] = b]
        /\ UNCHANGED <<file, cfg, req, pending, links, etc, legacy, left>>
        /\ \/ step < Len(cfg.tunnels) /\ step' = step + 1 /\ phase' = "rules"
           \/ ~(step < Len(cfg.tunnels)) /\ step' = 1 /\ phase' = "serve"
    BY DEF LoadNFT, vars
  <1>2. step \in DOMAIN cfg.tunnels
    BY <1>1 DEF MemInv
  <1>3. step \in Nat /\ \A i \in DOMAIN cfg.tunnels : i \in Nat /\ i >= 1 /\ i <= Len(cfg.tunnels)
    BY <1>2, CfgFacts
  <1>4. /\ x \in Range(NftName) /\ DOMAIN tables = Range(NftName) /\ DOMAIN runtime = Range(NftName)
        /\ t.name \in Names /\ t.name \in NamesIn(cfg)
        /\ b \in Seq(NftRules(t.name)) /\ \A n \in Names : NftName[n] = x => n = t.name
    BY <1>2, BuildFacts, OwnTable, CfgFacts DEF NftInv
  <1>5. /\ DOMAIN tables' = Range(NftName) /\ tables'[x] = b
        /\ DOMAIN runtime' = Range(NftName) /\ runtime'[x] = b
        /\ \A y \in Range(NftName) : y # x => tables'[y] = tables[y] /\ runtime'[y] = runtime[y]
    <2> HIDE DEF x, b
    <2> QED BY <1>1, <1>4
  <1>6. NamesIn(cfg) = NamesIn(file) /\ ~Writing /\ \A r \in Requests : req[r].pc = "idle"
    <2>1. ~up /\ ~pending /\ \A r \in Requests : req[r].pc = "idle"
      BY <1>1 DEF DocInv, OneAtATime, Busy
    <2> QED BY <1>1, <2>1, SameNames DEF Writing
  <1>7. TablesOf(tables', NamesIn(cfg), left')
    <2>1. TablesOf(tables, NamesIn(cfg), left) /\ left' = left
      BY <1>1 DEF NftInv
    <2> HIDE DEF t, b
    <2> QED BY <1>4, <1>5, <2>1, TablesChange
  <1>8. NftDocs'
    BY <1>1, <1>6, <1>7 DEF NftDocs, Editing
  <1>9. ASSUME NEW i \in DOMAIN cfg.tunnels
        PROVE  Prepared(i)'
    <2>1. Taken(i) /\ Written(i) /\ Prepared(i)
      BY <1>1 DEF Taken, Written, NftInv
    <2>2. Loaded(i)' => i = step \/ Loaded(i)
      BY <1>1, <1>3 DEF Loaded
    <2>3. Tun(i)' = Tun(i)
      BY <1>1 DEF Tun
    <2>4. CASE i = step
      <3>1. NftName[Tun(i).name] = x /\ BuildNFT(Tun(i)) = b
        BY <2>4
      <3>2. etc'[Tun(i).name].by = "program"
        BY <1>1, <2>1 DEF Prepared
      <3> HIDE DEF x, b
      <3> QED BY <1>5, <2>3, <3>1, <3>2 DEF Prepared
    <2>5. CASE i # step
      <3>1. NftName[Tun(i).name] \in Range(NftName) /\ NftName[Tun(i).name] # x
        BY <1>2, <2>5, OwnTable
      <3>2. /\ runtime'[NftName[Tun(i).name]] = runtime[NftName[Tun(i).name]]
            /\ tables'[NftName[Tun(i).name]] = tables[NftName[Tun(i).name]]
        BY <1>5, <3>1
      <3> QED BY <1>1, <2>1, <2>2, <2>5, <3>2, PreparedKept
    <2> QED BY <2>4, <2>5
  <1>10. Labelled'
    <2>1. \A n \in Names : NftName[n] \in Range(NftName)
      BY OwnTable
    <2> HIDE DEF t, x, b
    <2> QED BY <1>1, <1>4, <1>5, <2>1 DEF NftInv, Labelled
  <1>11. NamesIn(cfg)' = NamesIn(cfg) /\ phase # "off" /\ (phase \in {"rules", "nft", "serve"} => legacy = {})
    BY <1>1 DEF NamesIn, NftInv
  <1> HIDE DEF t, x, b
  <1> QED BY <1>1, <1>5, <1>7, <1>8, <1>9, <1>10, <1>11 DEF NftInv

LEMMA NftHandle ==
  ASSUME Orderly, OwnTables, DocInv, CfgInv, MemInv, NumInv, NftInv, Handle
  PROVE  NftInv'
  <1>1. UNCHANGED <<phase, step, etc, tables, runtime, legacy, left>>
    BY DEF Handle, hostVars
  <1>2. ASSUME NftDocs', UNCHANGED <<cfg, links>>
        PROVE  NftInv'
    <2>1. \A i \in DOMAIN cfg.tunnels : /\ Written(i)' => Written(i)
                                        /\ Taken(i)' => Taken(i)
                                        /\ Loaded(i)' => Loaded(i)
      BY <1>1 DEF Written, Taken, Loaded
    <2>2. phase' \in {"rules", "nft", "serve"} => legacy' = {}
      BY <1>1 DEF NftInv
    <2> QED BY <1>1, <1>2, <2>1, <2>2, NftAside
  <1>3. ASSUME NEW r \in Requests, NEW n \in Names, AddTunnel(r, n) PROVE NftInv'
    <2>1. /\ UNCHANGED <<file, links, cfg>> /\ ~Writing
          /\ \A q \in Requests : q # r => req[q].pc = "idle"
      BY <1>3, Alone DEF AddTunnel
    <2>2. PICK t \in Tuns : req' = [req EXCEPT ![r] = [pc |-> "addLoad", name |-> n, doc |-> <<>>, tun |-> <<t>>]]
      BY <1>1, <1>3, DocAddTunnel
    <2> DEFINE v == [pc |-> "addLoad", name |-> n, doc |-> <<>>, tun |-> <<t>>]
    <2>3. v.pc = "addLoad" /\ req' = [req EXCEPT ![r] = v] /\ TablesOf(tables', NamesIn(file'), left')
      BY <1>1, <2>1, <2>2 DEF NftInv, NftDocs
    <2> HIDE DEF v
    <2>4. NftDocs'
      BY <2>1, <2>3, DocsMoved
    <2> QED BY <1>2, <2>1, <2>4
  <1>4. ASSUME NEW r \in Requests, NEW n \in Names, PutSocks(r, n) PROVE NftInv'
    <2> DEFINE d == [file EXCEPT !.default = n]
               v == [pc |-> "open", name |-> NoName, doc |-> d, tun |-> <<>>]
    <2>1. /\ UNCHANGED <<file, links, cfg>> /\ ~Writing /\ Fit(file, wgs)
          /\ \A q \in Requests : q # r => req[q].pc = "idle"
      BY <1>4, Alone DEF PutSocks
    <2>2. req' = [req EXCEPT ![r] = v]
      BY <1>1, <1>4, DocPutSocks
    <2>3. NamesIn(d) = NamesIn(file)
      BY <2>1, DefaultFacts DEF Fit
    <2> HIDE DEF d
    <2>4. v.pc = "open" /\ v.doc = d
      OBVIOUS
    <2> HIDE DEF v
    <2>5. TablesOf(tables', NamesIn(file'), left') /\ TablesOf(tables', NamesIn(v.doc), left')
      BY <1>1, <2>1, <2>3, <2>4 DEF NftInv, NftDocs
    <2>6. NftDocs'
      BY <2>1, <2>2, <2>4, <2>5, DocsMoved
    <2> QED BY <1>2, <2>1, <2>6
  <1>5. ASSUME NEW r \in Requests, AddEdit(r) PROVE NftInv'
    <2> DEFINE t == req[r].tun[1]
               d == [file EXCEPT !.tunnels = @ \o <<t>>]
               v == [pc |-> "open", name |-> t.name, doc |-> d, tun |-> <<t>>]
    <2>1. UNCHANGED <<file, links, cfg>> /\ req[r].pc = "addLoad"
      BY <1>5 DEF AddEdit
    <2>2. ~Writing /\ Fit(file, wgs) /\ \A q \in Requests : q # r => req[q].pc = "idle"
      BY <2>1, Alone DEF Busy
    <2>3. t \in Tuns /\ t.table # 0 /\ t.mark # 0 /\ req' = [req EXCEPT ![r] = v]
      BY <1>1, <1>5, DocAddEdit
    <2> HIDE DEF t
    <2>4. NamesIn(d) = NamesIn(file) \cup {t.name}
      BY <2>2, <2>3, AppendFacts DEF Fit
    <2> HIDE DEF d
    <2>5. v.pc = "open" /\ v.doc = d
      OBVIOUS
    <2> HIDE DEF v
    <2>6. TablesOf(tables', NamesIn(file'), left')
      BY <1>1, <2>1, <2>2 DEF NftInv, NftDocs
    <2>7. TablesOf(tables', NamesIn(v.doc), left')
      BY <2>1, <2>4, <2>5, <2>6 DEF TablesOf
    <2>8. NftDocs'
      BY <2>2, <2>3, <2>6, <2>7, DocsMoved
    <2> QED BY <1>2, <2>1, <2>8
  <1>6. ASSUME NEW r \in Requests, Truncate(r) PROVE NftInv'
    <2> DEFINE v == [req[r] EXCEPT !.pc = "write"]
    <2>1. UNCHANGED <<links, cfg>> /\ req[r].pc = "open" /\ req[r] \in Asked /\ req' = [req EXCEPT ![r] = v]
      BY <1>6 DEF Truncate, DocInv
    <2>2. \A q \in Requests : q # r => req[q].pc = "idle"
      BY <2>1, Alone DEF Busy
    <2>3. v.pc = "write" /\ v.doc = req[r].doc
      BY <2>1 DEF Asked
    <2> HIDE DEF v
    <2>4. TablesOf(tables', NamesIn(v.doc), left')
      BY <1>1, <2>1, <2>3 DEF NftInv, NftDocs, Editing
    <2>5. NftDocs'
      BY <2>1, <2>2, <2>3, <2>4, DocsMoved
    <2> QED BY <1>2, <2>1, <2>5
  <1>7. ASSUME NEW r \in Requests, Finish(r) PROVE NftInv'
    <2>1. UNCHANGED <<links, cfg>> /\ req[r].pc = "write" /\ req' = [req EXCEPT ![r] = Free] /\ file' = req[r].doc
      BY <1>7 DEF Finish
    <2>2. \A q \in Requests : q # r => req[q].pc = "idle"
      BY <2>1, Alone DEF Busy
    <2>3. TablesOf(tables', NamesIn(file'), left')
      BY <1>1, <2>1 DEF NftInv, NftDocs, Editing
    <2>4. NftDocs'
      BY <2>1, <2>2, <2>3, FreeFacts, DocsMoved
    <2> QED BY <1>2, <2>1, <2>4
  <1> QED BY <1>3, <1>4, <1>5, <1>6, <1>7 DEF Handle

(* What a Down removes is its tunnel's; what it fails to remove is noted.  *)
LEMMA NftTakesDown ==
  ASSUME Orderly, OwnTables, DocInv, CfgInv, MemInv, NumInv, NftInv,
         NEW r \in Requests, NEW n \in Names, NEW done, TakesDown(r, n, done)
  PROVE  NftInv'
  <1> DEFINE x == NftName[n]
  <1>1. /\ UNCHANGED <<phase, step, runtime, etc, legacy, file, cfg>> /\ links' = LinksAfter(n, done)
        /\ left' = [left EXCEPT ![n] = {"wg", "nft"} \ done]
        /\ tables' = IF "nft" \in done THEN [tables EXCEPT ![x] = <<>>] ELSE tables
        /\ MayStart(r) /\ n \in NamesIn(cfg)
    BY DownFacts DEF TakesDown, DelTunnel, PutTunnel
  <1>2. /\ ~Writing /\ Fit(file, wgs) /\ req[r].pc = "idle" /\ phase = "serve"
        /\ \A q \in Requests : q # r => req[q].pc = "idle"
    BY <1>1, Alone
  <1>3. /\ \A k \in Names : k # n => links'[k] = links[k]
        /\ "wg" \in done => links'[n] = NoLink
        /\ "wg" \notin done => links' = links
    BY <1>1, LinksFacts DEF MemInv
  <1>4. left'[n] = {"wg", "nft"} \ done /\ \A k \in Names : k # n => left'[k] = left[k]
    BY <1>1 DEF MemInv, Leftovers
  <1>5. x \in Range(NftName) /\ DOMAIN tables = Range(NftName)
    BY OwnTable DEF NftInv
  <1> HIDE DEF x
  <1>6. /\ DOMAIN tables' = Range(NftName) /\ \A y \in Range(NftName) : y # x => tables'[y] = tables[y]
        /\ "nft" \in done => tables'[x] = <<>>
        /\ "nft" \notin done => tables' = tables
    BY <1>1, <1>5
  <1>7. "nft" \notin done => left'[n] # {}
    BY <1>4
  <1>8. ASSUME NEW ns, NEW ms, TablesOf(tables, ns, left), ns \ {n} \subseteq ms
        PROVE  TablesOf(tables', ms, left')
    <2>1. tables'[x] # <<>> => left'[n] # {}
      BY <1>6, <1>7
    <2> QED BY <1>4, <1>6, <1>8, <2>1, TablesChange DEF x
  <1>9. ASSUME NEW i \in DOMAIN cfg.tunnels
        PROVE  Prepared(i)' /\ (Tun(i).name = n => etc[n].by = "program")
    <2>1. /\ Tun(i)' = Tun(i) /\ Tun(i).name \in Names /\ NftName[Tun(i).name] \in Range(NftName)
          /\ Prepared(i) /\ Taken(i) /\ Written(i) /\ Loaded(i)
      BY <1>1, <1>2, CfgFacts, OwnTable DEF Tun, Taken, Written, Loaded, NftInv
    <2>2. CASE Tun(i).name = n
      <3>1. NftName[Tun(i).name] = x
        BY <2>2 DEF x
      <3>2. /\ runtime[x] = BuildNFT(Tun(i)) /\ etc[n].by = "program"
            /\ tables[x] = BuildNFT(Tun(i)) \/ (tables[x] = <<>> /\ (links[n] = NoLink \/ "wg" \in left[n]))
        BY <2>1, <2>2, <3>1 DEF Prepared
      <3>3. links'[n] = NoLink \/ "wg" \in left'[n]
        BY <1>3, <1>4
      <3>4. tables'[x] = BuildNFT(Tun(i)) \/ (tables'[x] = <<>> /\ (links'[n] = NoLink \/ "wg" \in left'[n]))
        BY <1>6, <3>2, <3>3
      <3> QED BY <1>1, <2>1, <2>2, <3>1, <3>2, <3>4 DEF Prepared
    <2>3. CASE Tun(i).name # n
      <3>1. NftName[Tun(i).name] # x
        BY <2>3, OwnTable DEF x
      <3>2. /\ tables'[NftName[Tun(i).name]] = tables[NftName[Tun(i).name]] /\ links'[Tun(i).name] = links[Tun(i).name]
            /\ left'[Tun(i).name] = left[Tun(i).name]
        BY <1>3, <1>4, <1>6, <2>1, <2>3, <3>1
      <3> QED BY <1>1, <2>1, <2>3, <3>2, PreparedKept
    <2> QED BY <2>2, <2>3
  <1>10. TablesOf(tables', NamesIn(cfg)', left')
    <2>1. TablesOf(tables, NamesIn(cfg), left) /\ NamesIn(cfg)' = NamesIn(cfg)
      BY <1>1, <1>2 DEF NftInv, NamesIn
    <2> QED BY <1>8, <2>1
  <1>11. Labelled'
    <2>1. etc[n].by = "program"
      <3>1. PICK i \in DOMAIN cfg.tunnels : Tun(i).name = n
        BY <1>1, CfgFacts
      <3> QED BY <1>9, <3>1
    <2>2. \A k \in Names : NftName[k] \in Range(NftName) /\ <<>> \in Seq(NftRules(k))
      BY OwnTable
    <2>3. \A y \in Range(NftName) : tables'[y] = tables[y] \/ tables'[y] = <<>>
      BY <1>6
    <2> QED BY <1>1, <1>4, <2>1, <2>2, <2>3 DEF NftInv, Labelled
  <1>12. ASSUME NftDocs' PROVE NftInv'
    <2>1. legacy' = {}
      BY <1>1, <1>2 DEF NftInv
    <2> QED BY <1>1, <1>6, <1>9, <1>10, <1>11, <1>12, <2>1 DEF NftInv
  <1>13. TablesOf(tables, NamesIn(file), left)
    BY <1>2 DEF NftInv, NftDocs
  <1>14. TablesOf(tables', NamesIn(file), left')
    BY <1>8, <1>13
  <1>15. CASE req' = req
    <2>1. NftDocs'
      BY <1>1, <1>2, <1>14, <1>15 DEF NftDocs, Editing
    <2> QED BY <1>12, <2>1
  <1>16. CASE req' = [req EXCEPT ![r] = [pc |-> "open", name |-> n, doc |-> Without(file, n), tun |-> <<>>]]
    <2> DEFINE d == Without(file, n)
               v == [pc |-> "open", name |-> n, doc |-> d, tun |-> <<>>]
    <2>1. req' = [req EXCEPT ![r] = v]
      BY <1>16
    <2>2. NamesIn(d) = NamesIn(file) \ {n}
      BY <1>2, WithoutFacts DEF Fit
    <2> HIDE DEF d
    <2>3. v.pc = "open" /\ v.doc = d
      OBVIOUS
    <2> HIDE DEF v
    <2>4. TablesOf(tables', NamesIn(d), left')
      BY <1>8, <1>13, <2>2
    <2>5. NftDocs'
      BY <1>1, <1>2, <1>14, <2>1, <2>3, <2>4, DocsMoved
    <2> QED BY <1>12, <2>5
  <1>17. DelTunnel(r, n, done) => \/ req' = req
                                 \/ req' = [req EXCEPT ![r] = [pc |-> "open", name |-> n, doc |-> Without(file, n), tun |-> <<>>]]
    BY <1>1, DocDelTunnel
  <1>18. PutTunnel(r, n, done) => req' = req
    BY DEF PutTunnel
  <1> QED BY <1>15, <1>16, <1>17, <1>18 DEF TakesDown

LEMMA NftErrs ==
  ASSUME Orderly, DocInv, CfgInv, MemInv, NftInv, NEW r \in Requests, Errs(r), UNCHANGED <<phase, step, hostVars>>
  PROVE  NftInv'
  <1>1. /\ UNCHANGED <<links, cfg>> /\ req' = [req EXCEPT ![r] = Free]
        /\ phase = "serve" /\ \A q \in Requests : q # r => req[q].pc = "idle"
        /\ \/ ~Writing /\ UNCHANGED file
           \/ req[r].pc = "write" /\ file' = req[r].doc
    BY DocErrs
  <1>2. UNCHANGED <<etc, left, phase, step, tables, runtime, legacy>>
    BY DEF hostVars
  <1>3. TablesOf(tables', NamesIn(file'), left')
    BY <1>1, <1>2 DEF NftInv, NftDocs, Editing
  <1>4. NftDocs'
    BY <1>1, <1>3, FreeFacts, DocsMoved
  <1>5. \A i \in DOMAIN cfg.tunnels : Written(i) /\ Taken(i) /\ Loaded(i)
    BY <1>1 DEF Written, Taken, Loaded
  <1>6. legacy' = {}
    BY <1>1, <1>2 DEF NftInv
  <1> QED BY <1>1, <1>2, <1>4, <1>5, <1>6, NftAside

LEMMA NftFlap ==
  ASSUME OwnTables, DocInv, CfgInv, MemInv, NumInv, NftInv, NEW n \in Names, Flap(n)
  PROVE  NftInv'
  <1> DEFINE x == NftName[n]
  <1>1. /\ links[n] # NoLink /\ links' = [links EXCEPT ![n] = etc[n].table]
        /\ UNCHANGED <<file, cfg, req, phase, step, etc, runtime, left>>
        /\ \/ etc[n].by = "old" /\ legacy' = legacy \cup {n} /\ tables' = tables
           \/ etc[n].by # "old" /\ legacy' = legacy /\ tables' = [tables EXCEPT ![x] = runtime[x]]
    BY DEF Flap
  <1>2. links' = links
    <2>1. etc[n].table = links[n]
      BY <1>1 DEF NumInv, HostNums
    <2> QED BY <1>1, <2>1 DEF MemInv
  <1>3. x \in Range(NftName) /\ DOMAIN tables = Range(NftName)
    BY OwnTable DEF NftInv
  <1>4. /\ DOMAIN tables' = Range(NftName)
        /\ tables'[x] = tables[x] \/ tables'[x] = runtime[x]
        /\ \A y \in Range(NftName) : y # x => tables'[y] = tables[y]
    <2> HIDE DEF x
    <2> QED BY <1>1, <1>3
  <1>5. ASSUME NEW ns, TablesOf(tables, ns, left), n \in ns \/ "wg" \in left[n]
        PROVE  TablesOf(tables', ns, left')
    <2>1. n \in ns \/ left'[n] # {}
      BY <1>1, <1>5
    <2> QED BY <1>1, <1>4, <1>5, <2>1, TablesChange
  <1>6. NftDocs'
    <2>1. ASSUME NEW f \in Docs, LinksOf(links, Nums(f), left)
          PROVE  n \in NamesIn(f) \/ "wg" \in left[n]
      BY <1>1, <2>1, NumsFacts DEF LinksOf
    <2>2. ~Writing => TablesOf(tables', NamesIn(file), left')
      <3>1. ~Writing => file \in Docs /\ LinksOf(links, Nums(file), left) /\ TablesOf(tables, NamesIn(file), left)
        BY DEF DocInv, NumInv, InOrder, NftInv, NftDocs
      <3> QED BY <1>5, <2>1, <3>1
    <2>3. ASSUME NEW r \in Requests, Editing(r) PROVE TablesOf(tables', NamesIn(req[r].doc), left')
      <3>1. req[r].doc \in Docs /\ LinksOf(links, Nums(req[r].doc), left) /\ TablesOf(tables, NamesIn(req[r].doc), left)
        BY <2>3 DEF DocInv, Fit, NumInv, InOrder, NftInv, NftDocs
      <3> QED BY <1>5, <2>1, <3>1
    <2> QED BY <1>1, <2>2, <2>3 DEF NftDocs, Editing, Writing
  <1>a. phase # "off" => n \in NamesIn(cfg) \/ "wg" \in left[n]
    <2>1. phase # "off" => LinksOf(links, ToSet(cfg.tunnels), left)
      BY DEF NumInv, HostNums
    <2>2. \A t \in ToSet(cfg.tunnels) : t.name \in NamesIn(cfg)
      BY CfgFacts, DocFacts
    <2> QED BY <1>1, <2>1, <2>2 DEF LinksOf
  <1>7. phase' # "off" => TablesOf(tables', NamesIn(cfg)', left')
    <2>1. phase # "off" => TablesOf(tables, NamesIn(cfg), left)
      BY DEF NftInv
    <2>2. NamesIn(cfg)' = NamesIn(cfg)
      BY <1>1 DEF NamesIn
    <2> QED BY <1>1, <1>5, <1>a, <2>1, <2>2
  <1>8. phase \in {"rules", "nft", "serve"} => legacy' = {}
    <2>1. SUFFICES ASSUME phase \in {"rules", "nft", "serve"} PROVE etc[n].by # "old"
      BY <1>1 DEF NftInv
    <2>2. CASE n \in NamesIn(cfg)
      <3>1. PICK i \in DOMAIN cfg.tunnels : Tun(i).name = n
        BY <2>2, CfgFacts
      <3>2. Taken(i)
        BY <2>1 DEF Taken
      <3> QED BY <3>1, <3>2 DEF NftInv, Prepared
    <2>3. CASE "wg" \in left[n]
      BY <2>3 DEF NftInv, Labelled
    <2> QED BY <1>a, <2>1, <2>2, <2>3
  <1>9. ASSUME NEW i \in DOMAIN cfg.tunnels
        PROVE  Prepared(i)'
    <2>1. /\ Tun(i)' = Tun(i) /\ Prepared(i) /\ NftName[Tun(i).name] \in Range(NftName)
          /\ (Written(i)' <=> Written(i)) /\ (Taken(i)' <=> Taken(i)) /\ (Loaded(i)' <=> Loaded(i))
      BY <1>1, OwnTable DEF Tun, NftInv, Written, Taken, Loaded
    <2>2. CASE Tun(i).name = n
      <3>1. Loaded(i) => Written(i) /\ Taken(i)
        BY DEF Loaded, Written, Taken
      <3>2. NftName[Tun(i).name] = x
        BY <2>2
      <3>3. Loaded(i) => runtime[x] = BuildNFT(Tun(i)) /\ etc[n].by = "program"
        BY <2>1, <2>2, <3>1, <3>2 DEF Prepared
      <3> HIDE DEF x
      <3>4. Loaded(i) => tables'[x] = BuildNFT(Tun(i))
        BY <1>1, <1>3, <3>3
      <3> QED BY <1>1, <2>1, <3>2, <3>4 DEF Prepared
    <2>3. CASE Tun(i).name # n
      <3>1. NftName[Tun(i).name] # x
        BY <2>3, OwnTable
      <3>2. tables'[NftName[Tun(i).name]] = tables[NftName[Tun(i).name]]
        BY <1>4, <2>1, <3>1
      <3> QED BY <1>1, <1>2, <2>1, <3>2, PreparedKept
    <2> QED BY <2>2, <2>3
  <1>10. Labelled'
    <2>1. \A k \in Names : NftName[k] \in Range(NftName) /\ (NftName[k] = x => k = n)
      BY OwnTable DEF OwnTables
    <2> HIDE DEF x
    <2> QED BY <1>1, <1>4, <2>1 DEF NftInv, Labelled
  <1> QED BY <1>1, <1>4, <1>6, <1>7, <1>8, <1>9, <1>10 DEF NftInv

LEMMA NftNext ==
  ASSUME Orderly, OwnTables, DocInv, CfgInv, MemInv, NumInv, NftInv, [Next]_allVars
  PROVE  NftInv'
  <1> USE DEF vars, hostVars
  <1>1. CASE Boot
    <2>1. /\ phase = "off" /\ phase' = "write" /\ step' = 1 /\ cfg' = Load(file)
          /\ UNCHANGED <<file, req, links, tables, runtime, etc, legacy, left>>
      BY <1>1 DEF Boot, LoadConfig
    <2>2. ~Writing
      BY <2>1 DEF DocInv, OneAtATime, Busy, Writing
    <2>a. NamesIn(cfg)' = NamesIn(file)
      BY <2>1, LoadFacts DEF DocInv, NamesIn
    <2>3. NftDocs' /\ TablesOf(tables', NamesIn(cfg)', left') /\ Labelled'
      BY <2>1, <2>2, <2>a, DocsKept DEF NftInv, NftDocs, Labelled
    <2>4. CfgInv'
      BY <1>1, DocNext DEF Next, Startup
    <2>5. \A i \in DOMAIN cfg'.tunnels : ~(i < 1)
      <3>1. cfg' \in Docs
        BY <2>4 DEF CfgInv, Fit
      <3> QED BY <3>1, DocFacts
    <2>6. \A i \in DOMAIN cfg'.tunnels : ~Written(i)' /\ ~Taken(i)' /\ ~Loaded(i)'
      BY <2>1, <2>5 DEF Written, Taken, Loaded
    <2>7. \A i \in DOMAIN cfg'.tunnels : Prepared(i)'
      BY <2>6 DEF Prepared
    <2> QED BY <2>1, <2>3, <2>7 DEF NftInv
  <1>2. CASE WriteNFT
    BY <1>2, NftWrite
  <1>3. CASE EnsureUp
    BY <1>3, NftEnsureUp
  <1>4. CASE LoadNFT
    BY <1>4, NftLoad
  <1>5. CASE LegacyDone
    <2>1. /\ phase = "takeover" /\ phase' = "rules" /\ step' = 1 /\ legacy = {}
          /\ UNCHANGED <<file, req, cfg, links, tables, runtime, etc, legacy, left>>
      BY <1>5 DEF LegacyDone
    <2>2. \A i \in DOMAIN cfg.tunnels : Written(i) /\ Taken(i) /\ ~Loaded(i)'
      BY <2>1, CfgFacts DEF Written, Taken, Loaded
    <2>3. NftDocs'
      BY <2>1, DocsKept DEF NftInv
    <2> QED BY <2>1, <2>2, <2>3, NftAside
  <1>6. CASE EnsureRule
    <2>1. /\ phase = "rules" /\ phase' = "nft" /\ step' = step
          /\ UNCHANGED <<file, req, cfg, links, tables, runtime, etc, legacy, left>>
      BY <1>6 DEF EnsureRule
    <2>2. \A i \in DOMAIN cfg.tunnels : Written(i) /\ Taken(i) /\ (Loaded(i)' => Loaded(i))
      BY <2>1 DEF Written, Taken, Loaded
    <2>3. NftDocs' /\ legacy' = {}
      BY <2>1, DocsKept DEF NftInv
    <2> QED BY <2>1, <2>2, <2>3, NftAside
  <1>7. CASE \E n \in Names : TakeoverLegacy(n)
    <2>1. /\ phase = "takeover" /\ UNCHANGED <<phase, step>>
          /\ UNCHANGED <<file, req, cfg, links, tables, runtime, etc, left>>
      BY <1>7 DEF TakeoverLegacy
    <2>2. \A i \in DOMAIN cfg.tunnels : Written(i) /\ Taken(i) /\ (Loaded(i)' => Loaded(i))
      BY <2>1 DEF Written, Taken, Loaded
    <2>3. NftDocs'
      BY <2>1, DocsKept DEF NftInv
    <2> QED BY <2>1, <2>2, <2>3, NftAside
  <1>8. CASE Handle
    BY <1>8, NftHandle
  <1>9. CASE HandleDown \/ HandleFails
    <2>1. ASSUME NEW r \in Requests, NEW n \in Names, NEW done \in SUBSET Commands, TakesDown(r, n, done)
          PROVE  NftInv'
      BY <2>1, NftTakesDown
    <2>2. ASSUME NEW r \in Requests, Errs(r), UNCHANGED <<phase, step, hostVars>> PROVE NftInv'
      BY <2>2, NftErrs
    <2> QED BY <1>9, <2>1, <2>2, Handlers
  <1>10. CASE Restart \/ Kill \/ Reboot
    <2>1. Stop /\ ~Writing
      BY <1>10 DEF Restart, Kill, Reboot, Whole, Resting, Writing, Orderly
    <2>2. /\ UNCHANGED <<file, runtime>> /\ phase' = "off"
          /\ UNCHANGED <<tables, left, etc>> \/ (tables' = [x \in DOMAIN tables |-> <<>>] /\ left' = [n \in Names |-> {}])
      BY <1>10 DEF Restart, Kill, Reboot, Stop
    <2>3. \A r \in Requests : ~Editing(r)'
      BY <2>1, FreeFacts DEF Stop, Editing
    <2>4. /\ DOMAIN tables' = DOMAIN tables /\ \A x \in DOMAIN tables : tables'[x] = tables[x] \/ tables'[x] = <<>>
          /\ UNCHANGED left \/ \A x \in DOMAIN tables : tables'[x] = <<>>
          /\ \A n \in Names : left'[n] # {} => left[n] # {} /\ etc'[n] = etc[n]
      BY <2>2
    <2> QED BY <2>1, <2>2, <2>3, <2>4, NftEnds
  <1>11. CASE Fails \/ UpRefused
    <2>1. UNCHANGED <<file, runtime, req, left>> /\ phase' = "off"
      BY <1>11 DEF Fails, UpRefused
    <2>2. tables' = tables \/ tables' = [tables EXCEPT ![NftName[Tun(step).name]] = <<>>]
      BY <1>11 DEF Fails, UpRefused
    <2>5. \A n \in Names : left'[n] # {} => (left[n] # {} /\ etc'[n] = etc[n]) \/ etc'[n].by = "program"
      <3>1. etc' = etc \/ etc' = [etc EXCEPT ![Tun(step).name] = Conf(Tun(step))]
        BY <1>11 DEF Fails, UpRefused
      <3>2. \A n \in Names : etc'[n] = etc[n] \/ etc'[n] = Conf(Tun(step))
        BY <3>1 DEF MemInv
      <3> QED BY <2>1, <3>2, ConfFacts
    <2>3. DOMAIN tables' = DOMAIN tables /\ \A x \in DOMAIN tables : tables'[x] = tables[x] \/ tables'[x] = <<>>
      BY <2>2
    <2>4. (Writing' <=> Writing) /\ \A r \in Requests : (Editing(r)' <=> Editing(r)) /\ req'[r].doc = req[r].doc
      BY <2>1 DEF Writing, Editing
    <2> QED BY <2>1, <2>3, <2>4, <2>5, NftEnds
  <1>12. CASE \E n \in Names : Flap(n)
    BY <1>12, NftFlap
  <1>13. CASE (\E i \in 1..MaxTunnels : Tick(i)) \/ Flush \/ UNCHANGED allVars
    <2>1. UNCHANGED <<file, req, cfg, links, tables, runtime, etc, legacy, left, phase, step>>
      BY <1>13 DEF Tick, Flush, allVars
    <2>2. \A i \in DOMAIN cfg.tunnels : (Written(i)' => Written(i)) /\ (Taken(i)' => Taken(i)) /\ (Loaded(i)' => Loaded(i))
      BY <2>1 DEF Written, Taken, Loaded
    <2>3. NftDocs' /\ (phase' \in {"rules", "nft", "serve"} => legacy' = {})
      BY <2>1, DocsKept DEF NftInv
    <2> QED BY <2>1, <2>2, <2>3, NftAside
  <1> QED BY <1>1, <1>2, <1>3, <1>4, <1>5, <1>6, <1>7, <1>8, <1>9, <1>10, <1>11, <1>12, <1>13
          DEF Next, Startup, Outside

LEMMA HostInvariant ==
  ASSUME Orderly, OwnNumbers, OwnTables
  PROVE  Spec => [](DocInv /\ CfgInv /\ MemInv /\ NumInv /\ NftInv)
  <1>1. Init => DocInv /\ CfgInv /\ MemInv /\ NumInv /\ NftInv
    BY DocInit, MemInit, NumInit, NftInit
  <1>2. DocInv /\ CfgInv /\ MemInv /\ NumInv /\ NftInv /\ [Next]_allVars
          => (DocInv /\ CfgInv /\ MemInv /\ NumInv /\ NftInv)'
    BY DocNext, MemNext, NumNext, NftNext
  <1> QED BY <1>1, <1>2, PTL DEF Spec

(* Once the proxy serves and no restart is due, interfaces and nft tables  *)
(* are those of its tunnels, but for what the Down of a deleted tunnel     *)
(* failed to remove.                                                       *)
THEOREM HostNothingLeft ==
  ASSUME Orderly, OwnNumbers, OwnTables
  PROVE  Spec => []NothingLeft
  <1>1. DocInv /\ CfgInv /\ MemInv /\ NumInv /\ NftInv => NothingLeft
    <2>1. SUFFICES ASSUME DocInv, CfgInv, MemInv, NumInv, NftInv, up, Resting, ~pending
                   PROVE  /\ \A n \in Names \ NamesIn(cfg) : links[n] # NoLink => "wg" \in left[n]
                          /\ \A x \in DOMAIN tables : tables[x] # <<>> =>
                               \E n \in Names : NftName[n] = x /\ (n \in NamesIn(cfg) \/ left[n] # {})
      BY DEF NothingLeft
    <2>2. phase # "off"
      BY <2>1 DEF DocInv, OneAtATime
    <2>3. /\ LinksOf(links, ToSet(cfg.tunnels), left) /\ TablesOf(tables, NamesIn(cfg), left)
          /\ DOMAIN tables = Range(NftName)
      BY <2>1, <2>2 DEF NumInv, HostNums, NftInv
    <2>4. \A t \in ToSet(cfg.tunnels) : t.name \in NamesIn(cfg)
      BY <2>1, CfgFacts, DocFacts
    <2> QED BY <2>3, <2>4 DEF LinksOf, TablesOf
  <1> QED BY <1>1, HostInvariant, PTL

-----------------------------------------------------------------------------
(* nft: what a packet meets in the tables.                                 *)

(* The chain of a tunnel: the seed marks, then what stays, then the pool.  *)
LEMMA ChainFacts ==
  ASSUME NEW t \in Tuns
  PROVE  \E k \in Nat :
           LET c == BuildNFT(t) IN
           /\ DOMAIN c = 1 .. k + 2
           /\ \A i \in 1 .. k : c[i].mark \in SeedMarks[t.name] /\ c[i].src = "any" /\ c[i].do = <<"seed", t.name>>
           /\ \A m \in SeedMarks[t.name] : \E i \in 1 .. k : c[i].mark = m
           /\ c[k + 1].mark = t.mark /\ c[k + 1].src = "notBase" /\ c[k + 1].do = <<"accept", t.name>>
           /\ c[k + 2].mark = t.mark /\ c[k + 2].src = "any" /\ c[k + 2].do = <<"pool", t.name>>
  <1> DEFINE seed(m) == [mark |-> m, src |-> "any", do |-> <<"seed", t.name>>]
             M == SeedMarks[t.name]
             R == {seed(m) : m \in M}
             s == SetToSeq(R)
             a == [mark |-> t.mark, src |-> "notBase", do |-> <<"accept", t.name>>]
             p == [mark |-> t.mark, src |-> "any", do |-> <<"pool", t.name>>]
  <1>1. BuildNFT(t) = s \o <<a, p>>
    BY DEF BuildNFT
  <1>2. IsFiniteSet(R)
    <2> DEFINE f == [m \in M |-> seed(m)]
    <2>1. IsFiniteSet(M)
      BY HostAssumption DEF Tuns
    <2>2. f \in Surjection(M, R)
      BY DEF Surjection
    <2> HIDE DEF f, R, M
    <2> QED BY <2>1, <2>2, FS_Surjection
  <1>3. s \in Seq(R) /\ \A x \in R : \E i \in DOMAIN s : s[i] = x
    <2> HIDE DEF R
    <2> QED BY <1>2, AllInSeq
  <1>4. /\ \A x \in R : x.mark \in M /\ x.src = "any" /\ x.do = <<"seed", t.name>>
        /\ \A m \in M : \E x \in R : x.mark = m
    <2>1. \A m : seed(m).mark = m /\ seed(m).src = "any" /\ seed(m).do = <<"seed", t.name>>
      OBVIOUS
    <2> HIDE DEF seed
    <2> QED BY <2>1
  <1>5. /\ a.mark = t.mark /\ a.src = "notBase" /\ a.do = <<"accept", t.name>>
        /\ p.mark = t.mark /\ p.src = "any" /\ p.do = <<"pool", t.name>>
    OBVIOUS
  <1> HIDE DEF a, p, R, s, M
  <1> DEFINE k == Len(s)
             c == BuildNFT(t)
  <1>6. k \in Nat /\ DOMAIN s = 1 .. k /\ \A i \in 1 .. k : s[i] \in R
    BY <1>3
  <1>7. /\ DOMAIN c = 1 .. k + 2 /\ \A i \in 1 .. k : c[i] = s[i]
        /\ c[k + 1] = a /\ c[k + 2] = p
    BY <1>1, <1>3
  <1> HIDE DEF k, c
  <1>8. /\ \A i \in 1 .. k : c[i].mark \in M /\ c[i].src = "any" /\ c[i].do = <<"seed", t.name>>
        /\ \A m \in M : \E i \in 1 .. k : c[i].mark = m
    BY <1>3, <1>4, <1>6, <1>7
  <1> QED BY <1>5, <1>6, <1>7, <1>8 DEF c, M

LEMMA VerdictFacts ==
  ASSUME NEW t \in Tuns, t.mark \notin SeedMarks[t.name]
  PROVE  LET c == BuildNFT(t) IN
         /\ \A m, src : m # t.mark /\ m \notin SeedMarks[t.name] => Verdict(c, m, src) = <<"none", NoName>>
         /\ Verdict(c, t.mark, "sticky") = <<"accept", t.name>>
         /\ Verdict(c, t.mark, "base") = <<"pool", t.name>>
         /\ \A m \in SeedMarks[t.name] : Verdict(c, m, "sticky") = <<"seed", t.name>>
  <1> DEFINE c == BuildNFT(t)
             Hits(m, src) == {i \in DOMAIN c : c[i].mark = m /\ (c[i].src = "any" \/ src # "base")}
  <1>1. PICK k \in Nat :
           /\ DOMAIN c = 1 .. k + 2
           /\ \A i \in 1 .. k : c[i].mark \in SeedMarks[t.name] /\ c[i].src = "any" /\ c[i].do = <<"seed", t.name>>
           /\ \A m \in SeedMarks[t.name] : \E i \in 1 .. k : c[i].mark = m
           /\ c[k + 1].mark = t.mark /\ c[k + 1].src = "notBase" /\ c[k + 1].do = <<"accept", t.name>>
           /\ c[k + 2].mark = t.mark /\ c[k + 2].src = "any" /\ c[k + 2].do = <<"pool", t.name>>
    BY ChainFacts
  <1>2. \A m, src : /\ Hits(m, src) = {} => Verdict(c, m, src) = <<"none", NoName>>
                    /\ Hits(m, src) # {} => Verdict(c, m, src) = c[Min(Hits(m, src))].do
    BY DEF Verdict
  <1> HIDE DEF c
  <1>3. \A i \in DOMAIN c : i \in 1 .. k \/ i = k + 1 \/ i = k + 2
    BY <1>1
  <1>4. ASSUME NEW m, NEW src, m # t.mark, m \notin SeedMarks[t.name]
        PROVE  Hits(m, src) = {}
    BY <1>1, <1>3, <1>4
  <1>5. ASSUME NEW m, NEW src
        PROVE  Hits(m, src) \in SUBSET Nat
    BY <1>1
  <1>6. Hits(t.mark, "base") = {k + 2}
    BY <1>1, <1>3
  <1>7. Hits(t.mark, "sticky") = {k + 1, k + 2}
    BY <1>1, <1>3
  <1>8. ASSUME NEW m \in SeedMarks[t.name]
        PROVE  Hits(m, "sticky") # {} /\ \A i \in Hits(m, "sticky") : c[i].do = <<"seed", t.name>>
    <2>1. m # t.mark
      OBVIOUS
    <2>2. \A i \in Hits(m, "sticky") : i \in 1 .. k
      BY <1>1, <1>3, <2>1
    <2>3. \E i \in 1 .. k : i \in Hits(m, "sticky")
      BY <1>1
    <2> QED BY <1>1, <2>2, <2>3
  <1> HIDE DEF Hits
  <1>9. Verdict(c, t.mark, "base") = <<"pool", t.name>>
    <2>1. Min(Hits(t.mark, "base")) = k + 2
      BY <1>5, <1>6, MinFacts
    <2>2. Hits(t.mark, "base") # {}
      BY <1>6
    <2>3. Verdict(c, t.mark, "base") = c[Min(Hits(t.mark, "base"))].do
      BY <1>2, <2>2
    <2> QED BY <1>1, <2>1, <2>3
  <1>10. Verdict(c, t.mark, "sticky") = <<"accept", t.name>>
    <2>1. Hits(t.mark, "sticky") # {} /\ Hits(t.mark, "sticky") \in SUBSET Nat
      BY <1>5, <1>7
    <2>2. /\ Min(Hits(t.mark, "sticky")) \in Hits(t.mark, "sticky")
          /\ \A y \in Hits(t.mark, "sticky") : Min(Hits(t.mark, "sticky")) <= y
      BY <2>1, MinFacts
    <2>3. Min(Hits(t.mark, "sticky")) = k + 1
      BY <1>7, <2>2
    <2>4. Verdict(c, t.mark, "sticky") = c[Min(Hits(t.mark, "sticky"))].do
      BY <1>2, <2>1
    <2> QED BY <1>1, <2>3, <2>4
  <1>11. ASSUME NEW m \in SeedMarks[t.name]
         PROVE  Verdict(c, m, "sticky") = <<"seed", t.name>>
    <2>1. Min(Hits(m, "sticky")) \in Hits(m, "sticky")
      BY <1>5, <1>8, MinFacts
    <2> QED BY <1>2, <1>8, <2>1
  <1> QED BY <1>2, <1>4, <1>9, <1>10, <1>11 DEF c

LEMMA NoVerdict ==
  ASSUME NEW m, NEW src
  PROVE  Verdict(<<>>, m, src) = <<"none", NoName>>
  BY DEF Verdict

(* What a tunnel's rules do bears its name.                                *)
LEMMA VerdictLabel ==
  ASSUME NEW n, NEW c \in Seq(NftRules(n)), NEW m, NEW src
  PROVE  Verdict(c, m, src) = <<"none", NoName>> \/ Verdict(c, m, src)[2] = n
  <1> DEFINE hits == {i \in DOMAIN c : c[i].mark = m /\ (c[i].src = "any" \/ src # "base")}
  <1>1. Verdict(c, m, src) = IF hits = {} THEN <<"none", NoName>> ELSE c[Min(hits)].do
    BY DEF Verdict
  <1>2. hits \in SUBSET Nat /\ hits \subseteq DOMAIN c
    OBVIOUS
  <1>3. ASSUME hits # {} PROVE c[Min(hits)].do[2] = n
    <2> HIDE DEF hits
    <2>1. Min(hits) \in DOMAIN c
      BY <1>2, <1>3, MinFacts
    <2>2. c[Min(hits)] \in NftRules(n)
      BY <2>1
    <2> QED BY <2>2 DEF NftRules
  <1> QED BY <1>1, <1>3

(* While the proxy serves and tunnel t is up, a mark of its own or of its  *)
(* seed accounts meets a rule in its table only, or in one that a deleted  *)
(* tunnel left.                                                            *)
LEMMA RewrittenOnce ==
  ASSUME OwnNumbers, OwnTables, DocInv, CfgInv, NumInv, NftInv, up,
         NEW i \in DOMAIN cfg.tunnels, ~TakenDown(Tun(i).name),
         NEW m \in {Tun(i).mark} \cup SeedMarks[Tun(i).name], NEW src
  PROVE  LET d == Verdict(BuildNFT(Tun(i)), m, src) IN
         {e \in Rewrites(m, src) : e[2] \in NamesIn(cfg) \/ left[e[2]] = {}}
           = IF d[1] \in {"none", "accept"} THEN {} ELSE {d}
  <1> DEFINE t == Tun(i)
             d == Verdict(BuildNFT(t), m, src)
             Kept(e) == e[2] \in NamesIn(cfg) \/ left[e[2]] = {}
  <1>1. phase = "serve" /\ legacy = {} /\ DOMAIN tables = Range(NftName) /\ TablesOf(tables, NamesIn(cfg), left)
    BY DEF DocInv, OneAtATime, NftInv
  <1>2. \A j \in DOMAIN cfg.tunnels :
          LET x == NftName[Tun(j).name] IN
          \/ tables[x] = BuildNFT(Tun(j))
          \/ tables[x] = <<>> /\ (links[Tun(j).name] = NoLink \/ "wg" \in left[Tun(j).name])
    BY <1>1 DEF NftInv, Prepared, Loaded
  <1>3. NftName[t.name] \in DOMAIN tables /\ tables[NftName[t.name]] = BuildNFT(t)
    BY <1>1, <1>2, OwnTable DEF TakenDown
  <1>4. ASSUME NEW j \in DOMAIN cfg.tunnels, j # i
        PROVE  Verdict(BuildNFT(Tun(j)), m, src) = <<"none", NoName>>
    <2>1. /\ Tun(j) \in Tuns /\ Tun(j).name \in Names /\ t.name \in Names /\ Tun(j).name # t.name
          /\ OwnNumber(t) /\ OwnNumber(Tun(j)) /\ Tun(j) \in ToSet(cfg.tunnels)
          /\ \A u \in ToSet(cfg.tunnels) : u.table = t.table => u = t
      BY <1>4, CfgFacts, CfgNums
    <2>2. Tun(j).mark # t.mark
      BY <2>1 DEF OwnNumber
    <2>3. /\ t.mark \notin SeedMarks[t.name] /\ t.mark \notin SeedMarks[Tun(j).name]
          /\ Tun(j).mark \notin SeedMarks[t.name] /\ Tun(j).mark \notin SeedMarks[Tun(j).name]
          /\ SeedMarks[t.name] \cap SeedMarks[Tun(j).name] = {}
      <3>1. t.mark \in 1 .. MaxNumber /\ Tun(j).mark \in 1 .. MaxNumber
        BY <2>1 DEF OwnNumber
      <3>2. /\ SeedMarks[t.name] \cap (1 .. MaxNumber) = {} /\ SeedMarks[Tun(j).name] \cap (1 .. MaxNumber) = {}
            /\ SeedMarks[t.name] \cap SeedMarks[Tun(j).name] = {}
        BY <2>1 DEF OwnTables
      <3> QED BY <3>1, <3>2
    <2>4. m # Tun(j).mark /\ m \notin SeedMarks[Tun(j).name]
      BY <2>2, <2>3
    <2> QED BY <2>1, <2>3, <2>4, VerdictFacts
  <1>5. ASSUME NEW x \in DOMAIN tables
        PROVE  LET e == Verdict(tables[x], m, src) IN e \in {d, <<"none", NoName>>} \/ ~Kept(e)
    <2> DEFINE e == Verdict(tables[x], m, src)
    <2>1. CASE tables[x] = <<>>
      BY <2>1, NoVerdict
    <2>2. CASE tables[x] # <<>>
      <3>1. PICK n \in Names : NftName[n] = x /\ (n \in NamesIn(cfg) \/ left[n] # {})
        BY <1>1, <2>2 DEF TablesOf
      <3>2. CASE n \in NamesIn(cfg)
        <4>1. PICK j \in DOMAIN cfg.tunnels : Tun(j).name = n
          BY <3>2, CfgFacts
        <4>2. tables[x] = BuildNFT(Tun(j))
          BY <1>2, <2>2, <3>1, <4>1
        <4> QED BY <1>4, <4>2
      <3>3. CASE n \notin NamesIn(cfg)
        <4>1. tables[x] \in Seq(NftRules(n))
          BY <3>1 DEF NftInv, Labelled
        <4>2. e = <<"none", NoName>> \/ e[2] = n
          BY <4>1, VerdictLabel
        <4> HIDE DEF e
        <4>3. e[2] = n => ~Kept(e)
          BY <3>1, <3>3
        <4> QED BY <4>2, <4>3 DEF e
      <3> QED BY <3>2, <3>3
    <2> QED BY <2>1, <2>2
  <1>6. Verdict(tables[NftName[t.name]], m, src) = d
    BY <1>3
  <1>7. d = <<"none", NoName>> \/ Kept(d)
    <2>1. t \in Tuns /\ t.name \in NamesIn(cfg)
      BY CfgFacts, OwnTable
    <2>2. d = <<"none", NoName>> \/ d[2] = t.name
      BY <2>1, BuildFacts, VerdictLabel
    <2> HIDE DEF d, t
    <2> QED BY <2>1, <2>2
  <1> DEFINE V == {Verdict(tables[x], m, src) : x \in DOMAIN tables}
             W == {Verdict(LegacyNFT(n), m, src) : n \in legacy}
  <1>8. W = {} /\ d \in V /\ \A e \in V : e \in {d, <<"none", NoName>>} \/ ~Kept(e)
    BY <1>1, <1>3, <1>5, <1>6
  <1>9. Rewrites(m, src) = {e \in V \cup W : e[1] \notin {"none", "accept"}}
    BY DEF Rewrites
  <1>10. <<"none", NoName>>[1] = "none"
    OBVIOUS
  <1> HIDE DEF V, W, d, Kept
  <1>11. {e \in Rewrites(m, src) : Kept(e)} = IF d[1] \in {"none", "accept"} THEN {} ELSE {d}
    BY <1>7, <1>8, <1>9, <1>10
  <1> QED BY <1>11 DEF d, Kept

(* nft.go's promise: while the proxy serves, until a handler takes the     *)
(* tunnel down, the tables, all on one hook, leave a sticky account's      *)
(* address alone, spread the base address over its own pool, and send seed *)
(* marks to their address, but for a table that a deleted tunnel left.     *)
THEOREM HostStickyUntouched ==
  ASSUME Orderly, OwnNumbers, OwnTables
  PROVE  Spec => []StickyUntouched
  <1>1. DocInv /\ CfgInv /\ MemInv /\ NumInv /\ NftInv => StickyUntouched
    <2> DEFINE Done(m, src) == {d \in Rewrites(m, src) : d[2] \in NamesIn(cfg) \/ left[d[2]] = {}}
    <2>1. SUFFICES ASSUME DocInv, CfgInv, NumInv, NftInv, up,
                          NEW i \in DOMAIN cfg.tunnels, ~TakenDown(Tun(i).name)
                   PROVE  /\ Done(Tun(i).mark, "sticky") = {}
                          /\ Done(Tun(i).mark, "base") = {<<"pool", Tun(i).name>>}
                          /\ \A m \in SeedMarks[Tun(i).name] : Done(m, "sticky") = {<<"seed", Tun(i).name>>}
      BY DEF StickyUntouched
    <2> DEFINE t == Tun(i)
               c == BuildNFT(t)
               M == SeedMarks[t.name]
    <2>2. t \in Tuns /\ t.name \in Names /\ t.mark \in 1 .. MaxNumber
      BY <2>1, CfgFacts, CfgNums DEF OwnNumber
    <2>3. t.mark \notin M
      BY <2>2 DEF OwnTables
    <2>4. /\ Verdict(c, t.mark, "sticky") = <<"accept", t.name>>
          /\ Verdict(c, t.mark, "base") = <<"pool", t.name>>
          /\ \A m \in M : Verdict(c, m, "sticky") = <<"seed", t.name>>
      BY <2>2, <2>3, VerdictFacts
    <2>5. \A m \in {t.mark} \cup M, src \in {"sticky", "base"} :
            LET d == Verdict(c, m, src) IN Done(m, src) = IF d[1] \in {"none", "accept"} THEN {} ELSE {d}
      BY <2>1, RewrittenOnce
    <2> HIDE DEF t, c, M, Done
    <2>6. Done(t.mark, "sticky") = {}
      BY <2>4, <2>5
    <2>7. Done(t.mark, "base") = {<<"pool", t.name>>}
      <3>1. <<"pool", t.name>>[1] = "pool"
        OBVIOUS
      <3> QED BY <2>4, <2>5, <3>1
    <2>8. \A m \in M : Done(m, "sticky") = {<<"seed", t.name>>}
      <3>1. <<"seed", t.name>>[1] = "seed"
        OBVIOUS
      <3> QED BY <2>4, <2>5, <3>1
    <2> QED BY <2>6, <2>7, <2>8 DEF t, M
  <1> QED BY <1>1, HostInvariant, PTL
=============================================================================
