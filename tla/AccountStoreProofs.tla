------------------------- MODULE AccountStoreProofs -------------------------
(***************************************************************************)
(* What AccountStore promises for every set of users, tunnels, seeds and   *)
(* old files, with the disk failing and the process dying at any step: the *)
(* files and the answers agree, and no address ever serves two accounts.   *)
(***************************************************************************)
EXTENDS AccountStore, TLAPS

-----------------------------------------------------------------------------
(* Lemmas about the operators on store values.                             *)

(* An identifier computed modulo IIDCount is an identifier.                *)
LEMMA WrapType == ASSUME NEW i \in Nat PROVE Wrap(i) \in IIDs
  BY ConstantsAssumption DEF Wrap, IIDs

(* Start is an identifier of the tunnel's range or beyond it.              *)
LEMMA StartType ==
  ASSUME NEW s \in Stores, NEW t \in Tunnels
  PROVE  /\ t.name \in Names /\ t.net \in Nets
         /\ Start(s, t) \in IIDs
         /\ Start(s, t) >= t.sticky
  <1>1. t.name \in Names /\ t.net \in Nets
    BY DEF Names, Nets
  <1>2. s.next[t.name] \in IIDs /\ t.sticky \in IIDs
    BY <1>1, ConstantsAssumption DEF Stores
  <1> QED BY <1>1, <1>2 DEF Start, IIDs

LEMMA AddrAtType ==
  ASSUME NEW s \in Stores, NEW t \in Tunnels, NEW k \in Nat
  PROVE  AddrAt(s, t, k) \in Addrs
  <1>1. Start(s, t) + k \in Nat
    BY StartType, ConstantsAssumption DEF IIDs
  <1>2. Wrap(Start(s, t) + k) \in IIDs
    BY <1>1, WrapType
  <1> QED BY <1>2, StartType DEF AddrAt, Addrs

(* r holds no account that s lacks, and each at the address it has in s.   *)
Within(r, s) ==
  \A u \in Registered(r) :
     u \in Registered(s) /\ r.records[u].addr = s.records[u].addr

LEMMA WithoutType ==
  ASSUME NEW s \in Stores, NEW gone
  PROVE  Without(s, gone) \in Stores /\ Within(Without(s, gone), s)
  BY DEF Without, Stores, Within, Registered

LEMMA DroppedType ==
  ASSUME NEW s \in Stores, NEW n \in Names
  PROVE  Dropped(s, n) \in Stores /\ Within(Dropped(s, n), s)
  <1>1. 0 \in IIDs
    BY ConstantsAssumption DEF IIDs
  <1> DEFINE w == Without(s, OfTunnel(s, n))
  <1>2. w \in Stores /\ Within(w, s)
    BY WithoutType
  <1>3. Dropped(s, n) = [w EXCEPT !.next[n] = 0]
    BY DEF Dropped
  <1> HIDE DEF w
  <1>4. Dropped(s, n) \in Stores /\ Dropped(s, n).records = w.records
    BY <1>1, <1>2, <1>3 DEF Stores
  <1> QED BY <1>2, <1>4 DEF Within, Registered

LEMMA TouchedType ==
  ASSUME NEW s \in Stores, NEW u \in Users, s.records[u] # NoRec
  PROVE  Touched(s, u) \in Stores /\ Within(Touched(s, u), s) /\ Within(s, Touched(s, u))
  <1>1. [s.records[u] EXCEPT !.used = "recent"] \in Records
    BY DEF Stores, Records, Ages
  <1>2. [s.records[u] EXCEPT !.used = "recent"].addr = s.records[u].addr
    BY DEF Stores, Records
  <1>3. [s.records[u] EXCEPT !.used = "recent"] # NoRec
    BY <1>1, SentinelsAssumption
  <1>4. Touched(s, u) =
          [s EXCEPT !.records = [s.records EXCEPT ![u] = [s.records[u] EXCEPT !.used = "recent"]]]
    BY DEF Touched, Stores
  <1> QED BY <1>1, <1>2, <1>3, <1>4 DEF Stores, Within, Registered

LEMMA LoadedType ==
  ASSUME NEW s \in Stores
  PROVE  /\ Loaded(s) \in Stores
         /\ Within(Loaded(s), s) /\ Within(s, Loaded(s))
         /\ \A u \in Registered(Loaded(s)) : Loaded(s).records[u].used # "unset"
  <1> DEFINE R(u) == IF s.records[u] # NoRec /\ s.records[u].used = "unset"
                     THEN [s.records[u] EXCEPT !.used = "recent"]
                     ELSE s.records[u]
  <1>1. \A u \in Users : s.records[u] \in Records \cup {NoRec}
    BY DEF Stores
  <1>2. \A u \in Users : s.records[u] = NoRec => R(u) = NoRec
    OBVIOUS
  <1>3. \A u \in Users : s.records[u] # NoRec =>
          /\ R(u) \in Records
          /\ R(u).addr = s.records[u].addr
          /\ R(u).used # "unset"
    BY <1>1 DEF Records, Ages
  <1>4. Loaded(s) = [s EXCEPT !.records = [u \in Users |-> R(u)]]
    BY DEF Loaded
  <1>5. Loaded(s).records = [u \in Users |-> R(u)] /\ Loaded(s).next = s.next
    BY <1>4 DEF Stores
  <1> HIDE DEF R
  <1>6. \A u \in Users : R(u) # NoRec <=> s.records[u] # NoRec
    BY <1>2, <1>3, SentinelsAssumption
  <1>7. Loaded(s) \in Stores
    BY <1>1, <1>2, <1>3, <1>4 DEF Stores
  <1> QED BY <1>3, <1>5, <1>6, <1>7 DEF Within, Registered

LEMMA AgedType ==
  ASSUME NEW s \in Stores
  PROVE  /\ Aged(s) \in Stores
         /\ Within(Aged(s), s) /\ Within(s, Aged(s))
         /\ \A u \in Registered(s) : s.records[u].used # "unset"
                                       => Aged(s).records[u].used # "unset"
  <1> DEFINE R(u) == IF s.records[u] # NoRec /\ s.records[u].used = "recent"
                     THEN [s.records[u] EXCEPT !.used = "old"]
                     ELSE s.records[u]
  <1>1. \A u \in Users : s.records[u] \in Records \cup {NoRec}
    BY DEF Stores
  <1>2. \A u \in Users : s.records[u] = NoRec => R(u) = NoRec
    OBVIOUS
  <1>3. \A u \in Users : s.records[u] # NoRec =>
          /\ R(u) \in Records
          /\ R(u).addr = s.records[u].addr
          /\ s.records[u].used # "unset" => R(u).used # "unset"
    BY <1>1 DEF Records, Ages
  <1>4. Aged(s) = [s EXCEPT !.records = [u \in Users |-> R(u)]]
    BY DEF Aged
  <1>5. Aged(s).records = [u \in Users |-> R(u)] /\ Aged(s).next = s.next
    BY <1>4 DEF Stores
  <1> HIDE DEF R
  <1>6. \A u \in Users : R(u) # NoRec <=> s.records[u] # NoRec
    BY <1>2, <1>3, SentinelsAssumption
  <1>7. Aged(s) \in Stores
    BY <1>1, <1>2, <1>3, <1>4 DEF Stores
  <1> QED BY <1>3, <1>5, <1>6, <1>7 DEF Within, Registered

(* A new record: nobody else's entry moves.                                *)
LEMMA WithRecordType ==
  ASSUME NEW s \in Stores, NEW u \in Users, NEW n \in Names, NEW a \in Addrs, NEW i \in IIDs
  PROVE  LET r == WithRecord(s, u, n, a, i) IN
         /\ r \in Stores
         /\ r.records[u] = [tun |-> n, addr |-> a, used |-> "recent"]
         /\ Registered(r) = Registered(s) \cup {u}
         /\ \A v \in Users \ {u} : r.records[v] = s.records[v]
  <1> DEFINE new == [tun |-> n, addr |-> a, used |-> "recent"]
  <1>1. new \in Records /\ new # NoRec
    BY SentinelsAssumption DEF Records, Ages
  <1> HIDE DEF new
  <1>2. WithRecord(s, u, n, a, i) =
          [records |-> [s.records EXCEPT ![u] = new], next |-> [s.next EXCEPT ![n] = i]]
    BY DEF WithRecord, new
  <1>3. s.records \in [Users -> Records \cup {NoRec}] /\ s.next \in [Names -> IIDs]
    BY DEF Stores
  <1>4. [s.records EXCEPT ![u] = new] \in [Users -> Records \cup {NoRec}]
    BY <1>1, <1>3
  <1>5. [s.next EXCEPT ![n] = i] \in [Names -> IIDs]
    BY <1>3
  <1>6. WithRecord(s, u, n, a, i) \in Stores
    BY <1>2, <1>4, <1>5 DEF Stores
  <1>7. WithRecord(s, u, n, a, i).records = [s.records EXCEPT ![u] = new]
    BY <1>2
  <1> QED BY <1>1, <1>3, <1>6, <1>7 DEF Registered, new

(* Uniqueness and placement only look at who is registered at which        *)
(* address, so they pass to every store within another.                    *)
LEMMA WithinUnique ==
  ASSUME NEW r, NEW s, Within(r, s)
  PROVE  /\ NoShared(s) => NoShared(r)
         /\ Placed(s) => Placed(r)
  BY DEF Within, NoShared, Placed

(* Every live record carries a last_used.                                  *)
Timed(s) == \A u \in Registered(s) : s.records[u].used # "unset"

LEMMA WithRecordTimed ==
  ASSUME NEW s \in Stores, Timed(s), NEW u \in Users, NEW n \in Names, NEW a \in Addrs, NEW i \in IIDs
  PROVE  WithRecord(s, u, n, a, i) \in Stores /\ Timed(WithRecord(s, u, n, a, i))
  <1> DEFINE r == WithRecord(s, u, n, a, i)
  <1>1. /\ r \in Stores
        /\ r.records[u] = [tun |-> n, addr |-> a, used |-> "recent"]
        /\ Registered(r) = Registered(s) \cup {u}
        /\ \A v \in Users \ {u} : r.records[v] = s.records[v]
    BY WithRecordType
  <1> HIDE DEF r
  <1>2. Timed(r)
    BY <1>1 DEF Timed, Registered
  <1> QED BY <1>1, <1>2 DEF r

(* The store that a step of Seed or Allocate leaves in memory.             *)
LEMMA SeededType ==
  ASSUME NEW s \in Stores, Timed(s), NEW t \in Tunnels, NEW u \in Users, NEW a \in Addrs
  PROVE  Seeded(s, t, u, a) \in Stores /\ Timed(Seeded(s, t, u, a))
  <1>1. t.name \in Names
    BY DEF Names
  <1>2. a.iid \in Nat
    BY DEF Addrs, IIDs
  <1>3. NextAfterSeed(s, t, a.iid) \in IIDs
    BY <1>1, <1>2, WrapType DEF NextAfterSeed, Stores
  <1> QED BY <1>1, <1>3, WithRecordTimed DEF Seeded

LEMMA AllocatedType ==
  ASSUME NEW s \in Stores, Timed(s), NEW t \in Tunnels, NEW u \in Users, NEW k \in Nat
  PROVE  Allocated(s, t, u, k) \in Stores /\ Timed(Allocated(s, t, u, k))
  <1>1. t.name \in Names
    BY DEF Names
  <1>2. AddrAt(s, t, k) \in Addrs
    BY AddrAtType
  <1>3. Wrap(AddrAt(s, t, k).iid + 1) \in IIDs
    BY <1>2, WrapType DEF Addrs, IIDs
  <1> QED BY <1>1, <1>2, <1>3, WithRecordTimed DEF Allocated

LEMMA TouchedTimed ==
  ASSUME NEW s \in Stores, Timed(s), NEW u \in Users, s.records[u] # NoRec
  PROVE  Timed(Touched(s, u))
  <1>1. [s.records[u] EXCEPT !.used = "recent"].used # "unset"
    BY DEF Stores, Records
  <1>2. Touched(s, u) =
          [s EXCEPT !.records = [s.records EXCEPT ![u] = [s.records[u] EXCEPT !.used = "recent"]]]
    BY DEF Touched, Stores
  <1> QED BY <1>1, <1>2 DEF Stores, Timed, Registered

LEMMA WithoutTimed ==
  ASSUME NEW s \in Stores, Timed(s), NEW gone, NEW n \in Names
  PROVE  Timed(Without(s, gone)) /\ Timed(Dropped(s, n))
  BY DEF Timed, Without, Dropped, Stores, Registered

LEMMA GrantType ==
  ASSUME NEW u \in Users, NEW a \in Addrs, Grant(u, a),
         granted \in [Users -> Addrs \cup {NoAddr}], issued \subseteq Addrs \X Users
  PROVE  granted' \in [Users -> Addrs \cup {NoAddr}] /\ issued' \subseteq Addrs \X Users
  BY DEF Grant

LEMMA RevokeType ==
  ASSUME NEW gone, Revoke(gone), granted \in [Users -> Addrs \cup {NoAddr}]
  PROVE  granted' \in [Users -> Addrs \cup {NoAddr}]
  BY DEF Revoke

(* One step keeps the type invariant.                                      *)
LEMMA TypeStep == StoreTypeOK /\ [StoreNext]_storeVars => StoreTypeOK'
  <1> SUFFICES ASSUME StoreTypeOK, [StoreNext]_storeVars PROVE StoreTypeOK'
    OBVIOUS
  <1> USE DEF StoreTypeOK
  <1>0. Timed(mem)
    BY DEF Timed
  <1> SUFFICES /\ mem' \in Stores /\ Timed(mem')
               /\ file' \in Stores
               /\ granted' \in [Users -> Addrs \cup {NoAddr}]
               /\ issued' \subseteq Addrs \X Users
    BY DEF Timed, Registered
  <1>1. ASSUME NEW u \in DOMAIN Seeds, NEW t \in Tunnels, NEW ok \in BOOLEAN,
               Seed(t, u, Seeds[u], ok)
        PROVE  /\ mem' \in Stores /\ Timed(mem') /\ file' \in Stores
               /\ UNCHANGED <<granted, issued>>
    <2>1. u \in Users /\ Seeds[u] \in Addrs
      BY ConstantsAssumption
    <2> QED BY <1>0, <1>1, <2>1, SeededType DEF Seed, Save
  <1>2. ASSUME NEW u \in Users, NEW ok \in BOOLEAN, AllocateKnown(u, ok)
        PROVE  /\ mem' \in Stores /\ Timed(mem') /\ file' \in Stores
               /\ granted' \in [Users -> Addrs \cup {NoAddr}]
               /\ issued' \subseteq Addrs \X Users
    <2>1. mem.records[u].addr \in Addrs
      BY <1>2 DEF AllocateKnown, Stores, Records
    <2>2. /\ granted' \in [Users -> Addrs \cup {NoAddr}]
          /\ issued' \subseteq Addrs \X Users
      BY <1>2, <2>1, GrantType DEF AllocateKnown
    <2> QED BY <1>0, <1>2, <2>2, TouchedType, TouchedTimed DEF AllocateKnown, Save
  <1>3. ASSUME NEW t \in Tunnels, NEW u \in Users, NEW k \in Nat, NEW ok \in BOOLEAN,
               AllocateNew(t, u, k, ok)
        PROVE  /\ mem' \in Stores /\ Timed(mem') /\ file' \in Stores
               /\ granted' \in [Users -> Addrs \cup {NoAddr}]
               /\ issued' \subseteq Addrs \X Users
    <2>1. AddrAt(mem, t, k) \in Addrs
      BY AddrAtType
    <2>2. /\ granted' \in [Users -> Addrs \cup {NoAddr}]
          /\ issued' \subseteq Addrs \X Users
      BY <1>3, <2>1, GrantType DEF AllocateNew
    <2> QED BY <1>0, <1>3, <2>2, AllocatedType DEF AllocateNew, Save
  <1>4. ASSUME NEW protected, NEW ok \in BOOLEAN, ReapIdle(protected, ok)
        PROVE  /\ mem' \in Stores /\ Timed(mem') /\ file' \in Stores
               /\ granted' \in [Users -> Addrs \cup {NoAddr}]
               /\ issued' = issued
    <2> DEFINE gone == Expired(mem, protected)
    <2>1. Revoke(gone) /\ issued' = issued
      BY <1>4 DEF ReapIdle
    <2>2. \/ UNCHANGED <<mem, file>>
          \/ Save(Without(mem, gone), ok)
      BY <1>4 DEF ReapIdle
    <2>3. mem' \in Stores /\ file' \in Stores
      BY <2>2, WithoutType DEF Save
    <2>4. Timed(mem')
      BY <1>0, <2>2 DEF Save, Timed, Without, Stores, Registered
    <2> QED BY <2>1, <2>3, <2>4, RevokeType
  <1>5. ASSUME NEW u \in Users, NEW ok \in BOOLEAN, Unregister(u, ok)
        PROVE  /\ mem' \in Stores /\ Timed(mem') /\ file' \in Stores
               /\ granted' \in [Users -> Addrs \cup {NoAddr}]
               /\ issued' = issued
    <2>1. Timed(Without(mem, {u}))
      BY <1>0 DEF Timed, Without, Stores, Registered
    <2> QED BY <1>5, <2>1, WithoutType, RevokeType DEF Unregister, Save
  <1>6. ASSUME NEW n \in Names, NEW ok \in BOOLEAN, DropTunnel(n, ok)
        PROVE  /\ mem' \in Stores /\ Timed(mem') /\ file' \in Stores
               /\ granted' \in [Users -> Addrs \cup {NoAddr}]
               /\ issued' \subseteq issued
    <2>1. Timed(Dropped(mem, n))
      BY <1>0, WithoutTimed
    <2>2. Revoke(OfTunnel(mem, n)) /\ issued' \subseteq issued
      BY <1>6 DEF DropTunnel
    <2> QED BY <1>6, <2>1, <2>2, DroppedType, RevokeType DEF DropTunnel, Save
  <1>7. CASE Restart
    BY <1>7, LoadedType DEF Restart, Timed
  <1>8. CASE TtlPasses
    <2>1. Timed(Aged(mem))
      BY <1>0, AgedType DEF Timed, Within
    <2> QED BY <1>8, <2>1, AgedType DEF TtlPasses
  <1>9. CASE UNCHANGED storeVars
    BY <1>0, <1>9 DEF storeVars
  <1>10. ASSUME NEW t \in Tunnels, NEW u \in Users, NEW ok \in BOOLEAN, Allocate(t, u, ok)
         PROVE  \/ AllocateKnown(u, ok)
                \/ \E k \in Nat : AllocateNew(t, u, k, ok)
    BY <1>10 DEF Allocate
  <1> QED
    BY <1>1, <1>2, <1>3, <1>4, <1>5, <1>6, <1>7, <1>8, <1>9, <1>10 DEF StoreNext

LEMMA TypeInit == StoreInit => StoreTypeOK
  BY OldFilesAssumption, LoadedType DEF StoreInit, StoreTypeOK

(* The store, its file and the promises stay well formed, and every live   *)
(* record can age: Allocate, Seed, ReapIdle, DropTunnel, Unregister and    *)
(* LoadStore, with any save failing.                                       *)
THEOREM TypeCorrect == StoreSpec => []StoreTypeOK
  BY TypeInit, TypeStep, PTL DEF StoreSpec

-----------------------------------------------------------------------------
(* Promises are durable.                                                   *)

(* s has every address that g promises.                                    *)
Honors(s, g) ==
  \A u \in Users : g[u] # NoAddr =>
     s.records[u] # NoRec /\ s.records[u].addr = g[u]

LEMMA DurableIsHonored ==
  GrantsDurable <=> Honors(mem, granted) /\ Honors(file, granted)
  BY DEF GrantsDurable, Honors

(* A store that has every account of an honoring one, where it had it,     *)
(* honors too.                                                             *)
LEMMA HonorsWithin ==
  ASSUME NEW r, NEW s, NEW g, Honors(s, g), Within(s, r)
  PROVE  Honors(r, g)
  BY DEF Honors, Within, Registered

(* An account without a record has no promise, so it can be given any.     *)
LEMMA HonorsNew ==
  ASSUME NEW s \in Stores, NEW g \in [Users -> Addrs \cup {NoAddr}], Honors(s, g),
         NEW u \in Users, s.records[u] = NoRec,
         NEW n \in Names, NEW a \in Addrs, NEW i \in IIDs
  PROVE  LET r == WithRecord(s, u, n, a, i) IN
         Honors(r, g) /\ Honors(r, [g EXCEPT ![u] = a]) /\ g[u] = NoAddr
  <1> DEFINE r == WithRecord(s, u, n, a, i)
  <1>1. /\ r \in Stores
        /\ r.records[u] = [tun |-> n, addr |-> a, used |-> "recent"]
        /\ \A v \in Users \ {u} : r.records[v] = s.records[v]
    BY WithRecordType
  <1>2. r.records[u] # NoRec /\ r.records[u].addr = a
    <2>1. [tun |-> n, addr |-> a, used |-> "recent"] \in Records
      BY DEF Records, Ages
    <2> HIDE DEF r
    <2> QED BY <1>1, <2>1, SentinelsAssumption
  <1> HIDE DEF r
  <1>3. g[u] = NoAddr
    BY DEF Honors
  <1>4. Honors(r, g) /\ Honors(r, [g EXCEPT ![u] = a])
    BY <1>1, <1>2, <1>3 DEF Honors
  <1> QED BY <1>3, <1>4 DEF r

(* Taking accounts away with their promises.                               *)
LEMMA HonorsWithout ==
  ASSUME NEW s \in Stores, NEW g \in [Users -> Addrs \cup {NoAddr}], NEW gone
  PROVE  LET h == [u \in Users |-> IF u \in gone THEN NoAddr ELSE g[u]] IN
         Honors(s, g) => Honors(s, h) /\ Honors(Without(s, gone), h)
  BY DEF Honors, Without, Stores

LEMMA HonorsDropped ==
  ASSUME NEW s \in Stores, NEW n \in Names, NEW h, Honors(Without(s, OfTunnel(s, n)), h)
  PROVE  Honors(Dropped(s, n), h)
  <1>1. Dropped(s, n).records = Without(s, OfTunnel(s, n)).records
    BY DEF Dropped, Without, Stores
  <1> QED BY <1>1 DEF Honors

(* The promise of u after a step is the one before, a first one, or none.  *)
SameOrFresh ==
  \A u \in Users : granted[u] # NoAddr /\ granted'[u] # NoAddr => granted'[u] = granted[u]

LEMMA DurableStep ==
  StoreTypeOK /\ GrantsDurable /\ [StoreNext]_storeVars => GrantsDurable' /\ SameOrFresh
  <1> SUFFICES ASSUME StoreTypeOK, GrantsDurable, [StoreNext]_storeVars
               PROVE  GrantsDurable' /\ SameOrFresh
    OBVIOUS
  <1>0. /\ mem \in Stores /\ file \in Stores
        /\ granted \in [Users -> Addrs \cup {NoAddr}]
        /\ Honors(mem, granted) /\ Honors(file, granted)
    BY DurableIsHonored DEF StoreTypeOK
  <1> SUFFICES Honors(mem', granted') /\ Honors(file', granted') /\ SameOrFresh
    BY DEF GrantsDurable, Honors
  <1>a. UNCHANGED granted => SameOrFresh
    BY DEF SameOrFresh
  <1>b. ASSUME NEW gone, Revoke(gone)
        PROVE  SameOrFresh
    BY <1>b, <1>0 DEF Revoke, SameOrFresh
  <1>1. ASSUME NEW u \in DOMAIN Seeds, NEW t \in Tunnels, NEW ok \in BOOLEAN,
               Seed(t, u, Seeds[u], ok)
        PROVE  Honors(mem', granted') /\ Honors(file', granted') /\ SameOrFresh
    <2>1. u \in Users /\ Seeds[u] \in Addrs /\ t.name \in Names
      BY ConstantsAssumption DEF Names
    <2>2. NextAfterSeed(mem, t, Seeds[u].iid) \in IIDs
      BY <1>0, <2>1, WrapType DEF NextAfterSeed, Stores, Addrs, IIDs
    <2>3. mem.records[u] = NoRec /\ Save(Seeded(mem, t, u, Seeds[u]), ok) /\ UNCHANGED granted
      BY <1>1 DEF Seed
    <2>4. Honors(Seeded(mem, t, u, Seeds[u]), granted)
      BY <1>0, <2>1, <2>2, <2>3, HonorsNew DEF Seeded
    <2> QED BY <1>0, <1>a, <2>3, <2>4 DEF Save
  <1>2. ASSUME NEW u \in Users, NEW ok \in BOOLEAN, AllocateKnown(u, ok)
        PROVE  Honors(mem', granted') /\ Honors(file', granted') /\ SameOrFresh
    <2> DEFINE a == mem.records[u].addr
               s == Touched(mem, u)
    <2>1. mem.records[u] # NoRec /\ Save(s, ok)
      BY <1>2 DEF AllocateKnown
    <2>2. Within(mem, s)
      BY <1>0, <2>1, TouchedType
    <2>3. Honors(s, granted)
      BY <1>0, <2>2, HonorsWithin
    <2>4. s.records[u] # NoRec /\ s.records[u].addr = a
      BY <2>1, <2>2 DEF Within, Registered
    <2>5. granted[u] # NoAddr => granted[u] = a
      BY <1>0 DEF Honors
    <2> HIDE DEF s, a
    <2>6. CASE ok
      <3>1. granted' = [granted EXCEPT ![u] = a] /\ mem' = s /\ file' = s
        BY <1>2, <2>1, <2>6 DEF AllocateKnown, Grant, Save, a
      <3>2. Honors(s, granted')
        BY <1>0, <2>3, <2>4, <3>1 DEF Honors
      <3>3. SameOrFresh
        BY <1>0, <2>5, <3>1 DEF SameOrFresh
      <3> QED BY <3>1, <3>2, <3>3
    <2>7. CASE ~ok
      <3>1. granted' = granted /\ mem' = s /\ file' = file
        BY <1>2, <2>1, <2>7 DEF AllocateKnown, Save
      <3> QED BY <1>0, <1>a, <2>3, <3>1
    <2> QED BY <2>6, <2>7
  <1>3. ASSUME NEW t \in Tunnels, NEW u \in Users, NEW k \in Nat, NEW ok \in BOOLEAN,
               AllocateNew(t, u, k, ok)
        PROVE  Honors(mem', granted') /\ Honors(file', granted') /\ SameOrFresh
    <2> DEFINE a == AddrAt(mem, t, k)
               s == Allocated(mem, t, u, k)
    <2>1. a \in Addrs /\ t.name \in Names
      BY <1>0, AddrAtType DEF Names
    <2>2. Wrap(a.iid + 1) \in IIDs
      BY <2>1, WrapType DEF Addrs, IIDs
    <2>3. mem.records[u] = NoRec /\ Save(s, ok)
      BY <1>3 DEF AllocateNew
    <2>4. Honors(s, granted) /\ Honors(s, [granted EXCEPT ![u] = a]) /\ granted[u] = NoAddr
      BY <1>0, <2>1, <2>2, <2>3, HonorsNew DEF Allocated
    <2>5. IF ok THEN granted' = [granted EXCEPT ![u] = a] ELSE granted' = granted
      BY <1>3 DEF AllocateNew, Grant
    <2> HIDE DEF s, a
    <2>6. SameOrFresh
      BY <1>0, <2>4, <2>5 DEF SameOrFresh
    <2> QED BY <1>0, <2>3, <2>4, <2>5, <2>6 DEF Save
  <1>4. ASSUME NEW protected, NEW ok \in BOOLEAN, ReapIdle(protected, ok)
        PROVE  Honors(mem', granted') /\ Honors(file', granted') /\ SameOrFresh
    <2> DEFINE gone == Expired(mem, protected)
    <2>1. Revoke(gone) /\ (UNCHANGED <<mem, file>> \/ Save(Without(mem, gone), ok))
      BY <1>4 DEF ReapIdle
    <2> HIDE DEF gone
    <2>2. /\ Honors(mem, granted') /\ Honors(Without(mem, gone), granted')
          /\ Honors(file, granted')
      BY <1>0, <2>1, HonorsWithout DEF Revoke
    <2> QED BY <1>b, <2>1, <2>2 DEF Save
  <1>5. ASSUME NEW u \in Users, NEW ok \in BOOLEAN, Unregister(u, ok)
        PROVE  Honors(mem', granted') /\ Honors(file', granted') /\ SameOrFresh
    <2>1. Revoke({u}) /\ Save(Without(mem, {u}), ok)
      BY <1>5 DEF Unregister
    <2>2. Honors(Without(mem, {u}), granted') /\ Honors(file, granted')
      BY <1>0, <2>1, HonorsWithout DEF Revoke
    <2> QED BY <1>b, <2>1, <2>2 DEF Save
  <1>6. ASSUME NEW n \in Names, NEW ok \in BOOLEAN, DropTunnel(n, ok)
        PROVE  Honors(mem', granted') /\ Honors(file', granted') /\ SameOrFresh
    <2> DEFINE gone == OfTunnel(mem, n)
    <2>1. Revoke(gone) /\ Save(Dropped(mem, n), ok)
      BY <1>6 DEF DropTunnel
    <2>2. Honors(Without(mem, gone), granted') /\ Honors(file, granted')
      BY <1>0, <2>1, HonorsWithout DEF Revoke
    <2>3. Honors(Dropped(mem, n), granted')
      BY <1>0, <2>2, HonorsDropped
    <2> QED BY <1>b, <2>1, <2>2, <2>3 DEF Save
  <1>7. CASE Restart
    <2>1. mem' = Loaded(file) /\ UNCHANGED <<file, granted>>
      BY <1>7 DEF Restart
    <2>2. Honors(Loaded(file), granted)
      BY <1>0, LoadedType, HonorsWithin
    <2> QED BY <1>0, <1>a, <2>1, <2>2
  <1>8. CASE TtlPasses
    <2>1. mem' = Aged(mem) /\ file' = Aged(file) /\ UNCHANGED granted
      BY <1>8 DEF TtlPasses
    <2>2. Honors(Aged(mem), granted) /\ Honors(Aged(file), granted)
      BY <1>0, AgedType, HonorsWithin
    <2> QED BY <1>a, <2>1, <2>2
  <1>9. CASE UNCHANGED storeVars
    BY <1>0, <1>9, <1>a DEF storeVars
  <1>10. ASSUME NEW t \in Tunnels, NEW u \in Users, NEW ok \in BOOLEAN, Allocate(t, u, ok)
         PROVE  \/ AllocateKnown(u, ok)
                \/ \E k \in Nat : AllocateNew(t, u, k, ok)
    BY <1>10 DEF Allocate
  <1> QED
    BY <1>1, <1>2, <1>3, <1>4, <1>5, <1>6, <1>7, <1>8, <1>9, <1>10 DEF StoreNext

LEMMA DurableInit == StoreInit => GrantsDurable
  BY DEF StoreInit, GrantsDurable

(* Whatever Allocate answered survives: failed saves and crashes never     *)
(* leave an account whose answered address is not both in memory and on    *)
(* disk.                                                                   *)
THEOREM GrantsAreDurable == StoreSpec => []GrantsDurable
  <1>1. StoreTypeOK /\ GrantsDurable /\ [StoreNext]_storeVars => (StoreTypeOK /\ GrantsDurable)'
    BY TypeStep, DurableStep
  <1> QED BY <1>1, TypeInit, DurableInit, PTL DEF StoreSpec

(* An account that was answered an address is answered the same one until  *)
(* it is reaped, unregistered or loses its tunnel.                         *)
THEOREM AddressesAreSticky == StoreSpec => StickyForever
  <1>1. StoreTypeOK /\ GrantsDurable /\ [StoreNext]_storeVars => [SameOrFresh]_storeVars
    BY DurableStep
  <1>2. StoreSpec => [](StoreTypeOK /\ GrantsDurable)
    BY TypeCorrect, GrantsAreDurable, PTL
  <1> QED BY <1>1, <1>2, PTL DEF StoreSpec, StickyForever, SameOrFresh

-----------------------------------------------------------------------------
(***************************************************************************)
(* No address ever serves two accounts: not at once (AddrsUnique), and,    *)
(* when the files found at startup carry their counters, not one after     *)
(* the other either (OneOwner).  Both need the seeds to lie below the      *)
(* sticky range and the 2^64 identifiers not to run out.                   *)
(***************************************************************************)
LEMMA NoWrapAddr ==
  ASSUME NoWrap, NEW s \in Stores, NEW t \in Tunnels, NEW k \in Nat, Start(s, t) + k <= IIDBound
  PROVE  /\ AddrAt(s, t, k).net = t.net
         /\ AddrAt(s, t, k).iid = Start(s, t) + k
         /\ AddrAt(s, t, k) \in StickyZone
         /\ Wrap(AddrAt(s, t, k).iid + 1) = AddrAt(s, t, k).iid + 1
  <1>1. Start(s, t) \in Nat /\ Start(s, t) >= t.sticky /\ t.sticky \in Nat
    BY StartType, ConstantsAssumption DEF IIDs
  <1>2. IIDCount \in Nat /\ IIDBound \in Nat /\ IIDBound + 1 < IIDCount
    BY ConstantsAssumption DEF NoWrap
  <1>3. ASSUME NEW i \in Nat, i < IIDCount PROVE Wrap(i) = i
    BY <1>2, <1>3 DEF Wrap
  <1>4. Wrap(Start(s, t) + k) = Start(s, t) + k
    BY <1>1, <1>2, <1>3
  <1>5. AddrAt(s, t, k) = [net |-> t.net, iid |-> Start(s, t) + k]
    BY <1>4 DEF AddrAt
  <1>6. AddrAt(s, t, k) \in Addrs
    BY AddrAtType
  <1>7. AddrAt(s, t, k) \in StickyZone
    BY <1>1, <1>5, <1>6 DEF StickyZone
  <1>8. Wrap(Start(s, t) + k + 1) = Start(s, t) + k + 1
    BY <1>1, <1>2, <1>3
  <1> QED BY <1>5, <1>7, <1>8

-----------------------------------------------------------------------------
(* One address, one account, at any time.                                  *)

Sound(s) == NoShared(s) /\ Placed(s)

(* A seed's address is free as long as the seed is not on record.          *)
LEMMA SeedFree ==
  ASSUME SeedsApart, NEW s, Placed(s), NEW u \in DOMAIN Seeds, s.records[u] = NoRec
  PROVE  Seeds[u] \notin AddrsIn(s)
  <1> SUFFICES ASSUME NEW v \in Registered(s), s.records[v].addr = Seeds[u] PROVE FALSE
    BY DEF AddrsIn
  <1>1. v # u
    BY DEF Registered
  <1> QED BY <1>1 DEF Placed, SeedsApart

(* A free address that is sticky, or the account's own seed, can be added. *)
LEMMA SoundNew ==
  ASSUME NEW s \in Stores, Sound(s), NEW u \in Users, s.records[u] = NoRec,
         NEW n \in Names, NEW a \in Addrs, NEW i \in IIDs,
         a \notin AddrsIn(s),
         a \in StickyZone \/ (u \in DOMAIN Seeds /\ a = Seeds[u])
  PROVE  Sound(WithRecord(s, u, n, a, i))
  <1> DEFINE r == WithRecord(s, u, n, a, i)
  <1>1. /\ r.records[u] = [tun |-> n, addr |-> a, used |-> "recent"]
        /\ Registered(r) = Registered(s) \cup {u}
        /\ \A v \in Users \ {u} : r.records[v] = s.records[v]
    BY WithRecordType
  <1>2. r.records[u].addr = a
    BY <1>1
  <1> HIDE DEF r
  <1>3. \A v \in Registered(r) : v # u =>
          v \in Registered(s) /\ r.records[v].addr = s.records[v].addr /\ r.records[v].addr # a
    BY <1>1 DEF Registered, AddrsIn
  <1>4. NoShared(r)
    BY <1>2, <1>3 DEF Sound, NoShared
  <1>5. Placed(r)
    BY <1>2, <1>3 DEF Sound, Placed
  <1> QED BY <1>4, <1>5 DEF Sound, r

LEMMA SoundWithin ==
  ASSUME NEW r, NEW s, Within(r, s), Sound(s)
  PROVE  Sound(r)
  BY WithinUnique DEF Sound

LEMMA SoundStep ==
  SeedsApart /\ NoWrap /\ StoreTypeOK /\ Sound(mem) /\ Sound(file) /\ [StoreNext]_storeVars
    => Sound(mem') /\ Sound(file')
  <1> SUFFICES ASSUME SeedsApart, NoWrap, StoreTypeOK, Sound(mem), Sound(file), [StoreNext]_storeVars
               PROVE  Sound(mem') /\ Sound(file')
    OBVIOUS
  <1>0. mem \in Stores /\ file \in Stores
    BY DEF StoreTypeOK
  <1>a. ASSUME NEW s, NEW ok, Save(s, ok), Sound(s) PROVE Sound(mem') /\ Sound(file')
    BY <1>a DEF Save
  <1>1. ASSUME NEW u \in DOMAIN Seeds, NEW t \in Tunnels, NEW ok \in BOOLEAN, Seed(t, u, Seeds[u], ok)
        PROVE  Sound(mem') /\ Sound(file')
    <2>1. u \in Users /\ Seeds[u] \in Addrs /\ t.name \in Names /\ mem.records[u] = NoRec
      BY <1>1, ConstantsAssumption DEF Names, Seed
    <2>2. NextAfterSeed(mem, t, Seeds[u].iid) \in IIDs
      BY <1>0, <2>1, WrapType DEF NextAfterSeed, Stores, Addrs, IIDs
    <2>3. Seeds[u] \notin AddrsIn(mem)
      BY <2>1, SeedFree DEF Sound
    <2>4. Sound(Seeded(mem, t, u, Seeds[u]))
      BY <1>0, <2>1, <2>2, <2>3, SoundNew DEF Seeded
    <2> QED BY <1>1, <1>a, <2>4 DEF Seed
  <1>2. ASSUME NEW u \in Users, NEW ok \in BOOLEAN, AllocateKnown(u, ok)
        PROVE  Sound(mem') /\ Sound(file')
    <2>1. Sound(Touched(mem, u))
      BY <1>0, <1>2, TouchedType, SoundWithin DEF AllocateKnown
    <2> QED BY <1>2, <1>a, <2>1 DEF AllocateKnown
  <1>3. ASSUME NEW t \in Tunnels, NEW u \in Users, NEW k \in Nat, NEW ok \in BOOLEAN,
               AllocateNew(t, u, k, ok)
        PROVE  Sound(mem') /\ Sound(file')
    <2> DEFINE a == AddrAt(mem, t, k)
    <2>1. a \in Addrs /\ t.name \in Names
      BY <1>0, AddrAtType DEF Names
    <2>2. Wrap(a.iid + 1) \in IIDs
      BY <2>1, WrapType DEF Addrs, IIDs
    <2>3. a \in StickyZone /\ a \notin AddrsIn(mem) /\ mem.records[u] = NoRec
      BY <1>0, <1>3, NoWrapAddr DEF AllocateNew, StopsAt
    <2>4. Sound(Allocated(mem, t, u, k))
      BY <1>0, <2>1, <2>2, <2>3, SoundNew DEF Allocated
    <2> QED BY <1>3, <1>a, <2>4 DEF AllocateNew
  <1>4. ASSUME NEW protected, NEW ok \in BOOLEAN, ReapIdle(protected, ok)
        PROVE  Sound(mem') /\ Sound(file')
    <2> DEFINE gone == Expired(mem, protected)
    <2>1. UNCHANGED <<mem, file>> \/ Save(Without(mem, gone), ok)
      BY <1>4 DEF ReapIdle
    <2>2. Sound(Without(mem, gone))
      BY <1>0, WithoutType, SoundWithin
    <2> QED BY <1>a, <2>1, <2>2
  <1>5. ASSUME NEW u \in Users, NEW ok \in BOOLEAN, Unregister(u, ok)
        PROVE  Sound(mem') /\ Sound(file')
    <2>1. Sound(Without(mem, {u}))
      BY <1>0, WithoutType, SoundWithin
    <2> QED BY <1>5, <1>a, <2>1 DEF Unregister
  <1>6. ASSUME NEW n \in Names, NEW ok \in BOOLEAN, DropTunnel(n, ok)
        PROVE  Sound(mem') /\ Sound(file')
    <2>1. Sound(Dropped(mem, n))
      BY <1>0, DroppedType, SoundWithin
    <2> QED BY <1>6, <1>a, <2>1 DEF DropTunnel
  <1>7. CASE Restart
    <2>1. Sound(Loaded(file))
      BY <1>0, LoadedType, SoundWithin
    <2> QED BY <1>7, <2>1 DEF Restart
  <1>8. CASE TtlPasses
    <2>1. Sound(Aged(mem)) /\ Sound(Aged(file))
      BY <1>0, AgedType, SoundWithin
    <2> QED BY <1>8, <2>1 DEF TtlPasses
  <1>9. CASE UNCHANGED storeVars
    BY <1>9 DEF storeVars
  <1>10. ASSUME NEW t \in Tunnels, NEW u \in Users, NEW ok \in BOOLEAN, Allocate(t, u, ok)
         PROVE  \/ AllocateKnown(u, ok)
                \/ \E k \in Nat : AllocateNew(t, u, k, ok)
    BY <1>10 DEF Allocate
  <1> QED
    BY <1>1, <1>2, <1>3, <1>4, <1>5, <1>6, <1>7, <1>8, <1>9, <1>10 DEF StoreNext

(* No two accounts ever share an address, in memory or in the file a       *)
(* restart would load: Allocate skips what is used, LoadStore and failed   *)
(* saves bring back only consistent stores.                                *)
THEOREM AddressesAreUnique ==
  ASSUME SeedsApart, NoWrap,
         \A s \in OldFiles : NoShared(s) /\ Placed(s)
  PROVE  StoreSpec => []AddrsUnique
  <1>1. StoreInit => Sound(mem) /\ Sound(file)
    <2> SUFFICES ASSUME StoreInit PROVE Sound(mem) /\ Sound(file)
      OBVIOUS
    <2>1. file \in Stores /\ Sound(file) /\ mem = Loaded(file)
      BY OldFilesAssumption DEF StoreInit, Sound
    <2> QED BY <2>1, LoadedType, SoundWithin
  <1>2. (StoreTypeOK /\ Sound(mem) /\ Sound(file)) /\ [StoreNext]_storeVars
          => (StoreTypeOK /\ Sound(mem) /\ Sound(file))'
    BY TypeStep, SoundStep DEF Sound, NoShared, Placed, Registered
  <1>3. Sound(mem) /\ Sound(file) => AddrsUnique
    BY DEF Sound, AddrsUnique
  <1> QED BY <1>1, <1>2, <1>3, TypeInit, PTL DEF StoreSpec

-----------------------------------------------------------------------------
(* One address, one account, ever.                                         *)

(* Every record lies in its tunnel's /64 and behind its tunnel's counter.  *)
Orderly(s) == Sound(s) /\ Homed(s) /\ Counted(s)

(* The counters of s are past every sticky address answered so far, and    *)
(* what s has on record of the answered addresses is still their owner's.  *)
Past(s, given) ==
  \A p \in given, t \in Tunnels :
     p[1] \in StickyZone /\ t.net = p[1].net => s.next[t.name] > p[1].iid

OwnersKept(s, given) ==
  \A p \in given, v \in Registered(s) : s.records[v].addr = p[1] => v = p[2]

SeedsTheirs(given) ==
  \A p \in given : p[1] \notin StickyZone => p[2] \in DOMAIN Seeds /\ p[1] = Seeds[p[2]]

Tracks(s, given) == Past(s, given) /\ OwnersKept(s, given)

(* r has some of the accounts of s, where they were, and the same counters *)
LEMMA OrderlyWithin ==
  ASSUME NEW r, NEW s, NEW given, Within(r, s), r.next = s.next,
         \A u \in Registered(r) : r.records[u].tun = s.records[u].tun
  PROVE  /\ Orderly(s) => Orderly(r)
         /\ Tracks(s, given) => Tracks(r, given)
  <1>1. Sound(s) => Sound(r)
    BY SoundWithin
  <1>2. Homed(s) => Homed(r)
    BY DEF Within, Homed
  <1>3. Counted(s) => Counted(r)
    BY DEF Within, Counted
  <1>4. Tracks(s, given) => Tracks(r, given)
    BY DEF Within, Tracks, Past, OwnersKept
  <1> QED BY <1>1, <1>2, <1>3, <1>4 DEF Orderly

LEMMA WithoutFrame ==
  ASSUME NEW s \in Stores, NEW gone
  PROVE  /\ Within(Without(s, gone), s) /\ Without(s, gone).next = s.next
         /\ \A u \in Registered(Without(s, gone)) :
               Without(s, gone).records[u].tun = s.records[u].tun
  <1>1. /\ Without(s, gone).next = s.next
        /\ \A u \in Registered(Without(s, gone)) :
               Without(s, gone).records[u].tun = s.records[u].tun
    BY DEF Without, Stores, Registered
  <1> QED BY <1>1, WithoutType

LEMMA TouchedFrame ==
  ASSUME NEW s \in Stores, NEW u \in Users, s.records[u] # NoRec
  PROVE  /\ Within(Touched(s, u), s) /\ Touched(s, u).next = s.next
         /\ \A v \in Registered(Touched(s, u)) :
               Touched(s, u).records[v].tun = s.records[v].tun
  <1>1. [s.records[u] EXCEPT !.used = "recent"].tun = s.records[u].tun
    BY DEF Stores, Records
  <1>2. Touched(s, u) =
          [s EXCEPT !.records = [s.records EXCEPT ![u] = [s.records[u] EXCEPT !.used = "recent"]]]
    BY DEF Touched, Stores
  <1>3. /\ Touched(s, u).next = s.next
        /\ \A v \in Registered(Touched(s, u)) :
               Touched(s, u).records[v].tun = s.records[v].tun
    BY <1>1, <1>2 DEF Stores, Registered
  <1> QED BY <1>3, TouchedType

LEMMA LoadedFrame ==
  ASSUME NEW s \in Stores
  PROVE  /\ Within(Loaded(s), s) /\ Loaded(s).next = s.next
         /\ \A u \in Registered(Loaded(s)) : Loaded(s).records[u].tun = s.records[u].tun
  <1> DEFINE R(u) == IF s.records[u] # NoRec /\ s.records[u].used = "unset"
                     THEN [s.records[u] EXCEPT !.used = "recent"]
                     ELSE s.records[u]
  <1>1. \A u \in Users : s.records[u] # NoRec => R(u).tun = s.records[u].tun
    BY DEF Stores, Records
  <1>2. Loaded(s).records = [u \in Users |-> R(u)] /\ Loaded(s).next = s.next
    BY DEF Loaded, Stores
  <1>3. Within(Loaded(s), s)
    BY LoadedType
  <1> HIDE DEF R
  <1> QED BY <1>1, <1>2, <1>3 DEF Within, Registered

LEMMA AgedFrame ==
  ASSUME NEW s \in Stores
  PROVE  /\ Within(Aged(s), s) /\ Aged(s).next = s.next
         /\ \A u \in Registered(Aged(s)) : Aged(s).records[u].tun = s.records[u].tun
  <1> DEFINE R(u) == IF s.records[u] # NoRec /\ s.records[u].used = "recent"
                     THEN [s.records[u] EXCEPT !.used = "old"]
                     ELSE s.records[u]
  <1>1. \A u \in Users : s.records[u] # NoRec => R(u).tun = s.records[u].tun
    BY DEF Stores, Records
  <1>2. Aged(s).records = [u \in Users |-> R(u)] /\ Aged(s).next = s.next
    BY DEF Aged, Stores
  <1>3. Within(Aged(s), s)
    BY AgedType
  <1> HIDE DEF R
  <1> QED BY <1>1, <1>2, <1>3 DEF Within, Registered

(* Adding an account at an address that is free and was only ever its own. *)
LEMMA OrderlyNew ==
  ASSUME OneNetPerName,
         NEW s \in Stores, Orderly(s), NEW u \in Users, s.records[u] = NoRec,
         NEW t \in Tunnels, NEW a \in Addrs, a.net = t.net, NEW i \in IIDs,
         a \notin AddrsIn(s),
         a \in StickyZone \/ (u \in DOMAIN Seeds /\ a = Seeds[u]),
         i >= s.next[t.name], a \in StickyZone => i > a.iid,
         NEW given, Tracks(s, given), \A p \in given : p[1] = a => p[2] = u
  PROVE  LET r == WithRecord(s, u, t.name, a, i) IN
         /\ Orderly(r)
         /\ Tracks(r, given)
         /\ Tracks(r, given \cup {<<a, u>>})
  <1> DEFINE n == t.name
             r == WithRecord(s, u, n, a, i)
  <1>0. n \in Names /\ a.iid \in Nat
    BY DEF Names, Addrs, IIDs
  <1>1. /\ r.records[u] = [tun |-> n, addr |-> a, used |-> "recent"]
        /\ Registered(r) = Registered(s) \cup {u}
        /\ \A v \in Users \ {u} : r.records[v] = s.records[v]
    BY <1>0, WithRecordType
  <1>2. r.records[u].addr = a /\ r.records[u].tun = n
    BY <1>1
  <1>3. r.next = [s.next EXCEPT ![n] = i] /\ s.next \in [Names -> IIDs]
    BY DEF WithRecord, Stores
  <1>4. Sound(r)
    BY <1>0, SoundNew DEF Orderly
  <1> HIDE DEF r
  <1>5. \A v \in Registered(r) : v # u => v \in Registered(s) /\ r.records[v] = s.records[v]
    BY <1>1 DEF Registered
  <1>6. \A x \in Tunnels : x.name \in Names /\ (x.net = a.net => x.name = n)
    BY DEF Names, OneNetPerName
  <1>7. \A m \in Names : /\ s.next[m] \in Nat /\ r.next[m] \in Nat
                         /\ r.next[m] >= s.next[m]
    BY <1>3 DEF IIDs
  <1>8. r.next[n] = i
    BY <1>0, <1>3
  <1>9. Homed(r)
    <2>1. ASSUME NEW v \in Registered(r)
          PROVE  \E x \in Tunnels : x.name = r.records[v].tun /\ x.net = r.records[v].addr.net
      <3>1. CASE v = u
        BY <1>2, <3>1
      <3>2. CASE v # u
        BY <1>5, <3>2 DEF Orderly, Homed
      <3> QED BY <3>1, <3>2
    <2> QED BY <2>1 DEF Homed
  <1>10. Counted(r)
    <2>1. ASSUME NEW v \in Registered(r), NEW x \in Tunnels,
                 r.records[v].addr \in StickyZone, x.net = r.records[v].addr.net
          PROVE  r.next[x.name] > r.records[v].addr.iid
      <3>1. CASE v = u
        BY <1>2, <1>6, <1>8, <2>1, <3>1
      <3>2. CASE v # u
        <4>1. s.next[x.name] > s.records[v].addr.iid
          BY <1>5, <2>1, <3>2 DEF Orderly, Counted
        <4>2. s.records[v].addr.iid \in Nat
          BY <1>5, <2>1, <3>2 DEF StickyZone, Addrs, IIDs
        <4> QED BY <1>5, <1>6, <1>7, <3>2, <4>1, <4>2
      <3> QED BY <3>1, <3>2
    <2> QED BY <2>1 DEF Counted
  <1>11. Past(r, given)
    <2>1. ASSUME NEW p \in given, NEW x \in Tunnels, p[1] \in StickyZone, x.net = p[1].net
          PROVE  r.next[x.name] > p[1].iid
      <3>1. s.next[x.name] > p[1].iid /\ p[1].iid \in Nat
        BY <2>1 DEF Tracks, Past, StickyZone, Addrs, IIDs
      <3> QED BY <1>6, <1>7, <3>1
    <2> QED BY <2>1 DEF Past
  <1>12. OwnersKept(r, given)
    BY <1>2, <1>5 DEF Tracks, OwnersKept
  <1>13. Past(r, given \cup {<<a, u>>})
    <2>1. ASSUME NEW x \in Tunnels, a \in StickyZone, x.net = a.net
          PROVE  r.next[x.name] > a.iid
      BY <1>6, <1>8, <2>1
    <2> QED BY <1>11, <2>1 DEF Past
  <1>14. OwnersKept(r, given \cup {<<a, u>>})
    BY <1>1, <1>2, <1>4, <1>12 DEF OwnersKept, Sound, NoShared
  <1> QED BY <1>4, <1>9, <1>10, <1>11, <1>12, <1>13, <1>14 DEF Orderly, Tracks, r

(* What of the answers is left when tunnel n is dropped.                   *)
Left(given, n) ==
  {p \in given : p[1].net \notin {t.net : t \in {x \in Tunnels : x.name = n}}}

LEMMA OrderlyDropped ==
  ASSUME OneNetPerName, NEW s \in Stores, NEW n \in Names, Orderly(s),
         NEW given, Tracks(s, given)
  PROVE  Orderly(Dropped(s, n)) /\ Tracks(Dropped(s, n), Left(given, n))
  <1> DEFINE r == Dropped(s, n)
  <1>1. /\ Within(r, s)
        /\ \A u \in Registered(r) : r.records[u] = s.records[u] /\ s.records[u].tun # n
        /\ \A m \in Names \ {n} : r.next[m] = s.next[m]
    <2>1. Within(r, s)
      BY DroppedType
    <2> QED BY <2>1 DEF Dropped, Without, Stores, Registered, OfTunnel
  <1> HIDE DEF r
  <1>2. Sound(r)
    BY <1>1, SoundWithin DEF Orderly
  <1>3. Homed(r)
    BY <1>1 DEF Orderly, Homed, Within
  <1>4. Counted(r)
    <2>1. ASSUME NEW u \in Registered(r), NEW x \in Tunnels,
                 r.records[u].addr \in StickyZone, x.net = r.records[u].addr.net
          PROVE  r.next[x.name] > r.records[u].addr.iid
      <3>1. u \in Registered(s) /\ r.records[u] = s.records[u] /\ s.records[u].tun # n
        BY <1>1 DEF Within
      <3>2. x.name = s.records[u].tun /\ x.name \in Names
        BY <2>1, <3>1 DEF Orderly, Homed, OneNetPerName, Names
      <3>3. s.next[x.name] > s.records[u].addr.iid
        BY <2>1, <3>1 DEF Orderly, Counted
      <3> QED BY <1>1, <3>1, <3>2, <3>3
    <2> QED BY <2>1 DEF Counted
  <1>5. Past(r, Left(given, n))
    <2>1. ASSUME NEW p \in Left(given, n), NEW x \in Tunnels,
                 p[1] \in StickyZone, x.net = p[1].net
          PROVE  r.next[x.name] > p[1].iid
      <3>1. x.name # n /\ x.name \in Names /\ p \in given
        BY <2>1 DEF Left, Names
      <3> QED BY <1>1, <2>1, <3>1 DEF Tracks, Past
    <2> QED BY <2>1 DEF Past
  <1>6. OwnersKept(r, Left(given, n))
    BY <1>1 DEF Tracks, OwnersKept, Left, Within
  <1> QED BY <1>2, <1>3, <1>4, <1>5, <1>6 DEF Orderly, Tracks, r

(* Answering the address on record once more.                              *)
LEMMA TracksKnown ==
  ASSUME NEW s, Orderly(s), NEW u \in Registered(s), NEW given, Tracks(s, given)
  PROVE  Tracks(s, given \cup {<<s.records[u].addr, u>>})
  <1> DEFINE a == s.records[u].addr
  <1>1. Past(s, {<<a, u>>})
    BY DEF Past, Orderly, Counted
  <1>2. OwnersKept(s, {<<a, u>>})
    BY DEF OwnersKept, Orderly, Sound, NoShared
  <1> HIDE DEF a
  <1>3. Past(s, given \cup {<<a, u>>})
    BY <1>1 DEF Tracks, Past
  <1>4. OwnersKept(s, given \cup {<<a, u>>})
    BY <1>2 DEF Tracks, OwnersKept
  <1> QED BY <1>3, <1>4 DEF Tracks, a

OwnerInv ==
  /\ Orderly(mem) /\ Orderly(file)
  /\ Tracks(mem, issued) /\ Tracks(file, issued)
  /\ SeedsTheirs(issued)
  /\ OneOwner

LEMMA OwnerStep ==
  SeedsApart /\ NoWrap /\ OneNetPerName /\ StoreTypeOK /\ OwnerInv /\ [StoreNext]_storeVars => OwnerInv'
  <1> SUFFICES ASSUME SeedsApart, NoWrap, OneNetPerName, StoreTypeOK, OwnerInv, [StoreNext]_storeVars
               PROVE  OwnerInv'
    OBVIOUS
  <1> DEFINE Good(m, f, given) ==
               /\ Orderly(m) /\ Orderly(f) /\ Tracks(m, given) /\ Tracks(f, given)
               /\ SeedsTheirs(given)
               /\ \A p, q \in given : p[1] = q[1] => p[2] = q[2]
  <1>0. mem \in Stores /\ file \in Stores /\ Good(mem, file, issued)
    BY DEF StoreTypeOK, OwnerInv, OneOwner
  <1> SUFFICES Good(mem', file', issued')
    BY DEF OwnerInv, OneOwner, Orderly, Sound, NoShared, Placed, Homed, Counted,
           Tracks, Past, OwnersKept, SeedsTheirs, Registered
  <1>a. ASSUME NEW s, NEW ok, Save(s, ok), Orderly(s), Tracks(s, issued), issued' = issued
        PROVE  Good(mem', file', issued')
    BY <1>0, <1>a DEF Save
  <1>b. ASSUME NEW s, NEW ok \in BOOLEAN, Save(s, ok), Orderly(s), Tracks(s, issued),
               NEW u \in Users, NEW a \in Addrs,
               IF ok THEN Grant(u, a) ELSE UNCHANGED <<granted, issued>>,
               Tracks(s, issued \cup {<<a, u>>}),
               \A p \in issued : p[1] = a => p[2] = u,
               a \in StickyZone \/ (u \in DOMAIN Seeds /\ a = Seeds[u])
        PROVE  Good(mem', file', issued')
    <2>1. CASE ok
      <3>1. issued' = issued \cup {<<a, u>>} /\ mem' = s /\ file' = s
        BY <1>b, <2>1 DEF Grant, Save
      <3>2. SeedsTheirs(issued')
        BY <1>0, <1>b, <3>1 DEF SeedsTheirs
      <3>3. \A p, q \in issued' : p[1] = q[1] => p[2] = q[2]
        BY <1>0, <1>b, <3>1
      <3> QED BY <1>b, <3>1, <3>2, <3>3
    <2>2. CASE ~ok
      BY <1>a, <1>b, <2>2
    <2> QED BY <2>1, <2>2
  <1> HIDE DEF Good
  <1>c. Orderly(mem) /\ Orderly(file) /\ Tracks(mem, issued) /\ Tracks(file, issued)
    BY <1>0 DEF Good
  <1>d. SeedsTheirs(issued) /\ (\A p, q \in issued : p[1] = q[1] => p[2] = q[2])
    BY <1>0 DEF Good
  <1>1. ASSUME NEW u \in DOMAIN Seeds, NEW t \in Tunnels, NEW ok \in BOOLEAN,
               t.net = Seeds[u].net, Seed(t, u, Seeds[u], ok)
        PROVE  Good(mem', file', issued')
    <2> DEFINE a == Seeds[u]
    <2>1. /\ u \in Users /\ a \in Addrs /\ t.name \in Names /\ mem.records[u] = NoRec
          /\ a \notin StickyZone
      BY <1>1, ConstantsAssumption DEF Names, Seed, SeedsApart
    <2>2. a.iid < t.sticky /\ mem.next[t.name] \in IIDs
      BY <1>0, <1>1, <2>1, ConstantsAssumption DEF StickyZone, Addrs, IIDs, Stores
    <2>3. NextAfterSeed(mem, t, a.iid) = mem.next[t.name]
      BY <2>1, <2>2, ConstantsAssumption DEF NextAfterSeed, Addrs, IIDs
    <2>4. a \notin AddrsIn(mem)
      BY <1>c, <2>1, SeedFree DEF Orderly, Sound
    <2>5. \A p \in issued : p[1] = a => p[2] = u
      BY <1>d, <2>1 DEF SeedsTheirs, SeedsApart
    <2>6. mem.next[t.name] >= mem.next[t.name]
      BY <2>2 DEF IIDs
    <2> HIDE DEF a
    <2>7. /\ Orderly(WithRecord(mem, u, t.name, a, mem.next[t.name]))
          /\ Tracks(WithRecord(mem, u, t.name, a, mem.next[t.name]), issued)
      BY <1>0, <1>1, <1>c, <2>1, <2>2, <2>4, <2>5, <2>6, OrderlyNew DEF a
    <2>8. Seeded(mem, t, u, a) = WithRecord(mem, u, t.name, a, mem.next[t.name])
      BY <2>3 DEF Seeded
    <2>9. Save(Seeded(mem, t, u, a), ok) /\ issued' = issued
      BY <1>1 DEF Seed, a
    <2> QED BY <1>a, <2>7, <2>8, <2>9
  <1>2. ASSUME NEW u \in Users, NEW ok \in BOOLEAN, AllocateKnown(u, ok)
        PROVE  Good(mem', file', issued')
    <2> DEFINE a == mem.records[u].addr
               s == Touched(mem, u)
    <2>1. mem.records[u] # NoRec /\ u \in Registered(mem) /\ a \in Addrs
      BY <1>0, <1>2 DEF AllocateKnown, Registered, Stores, Records
    <2>2. Within(s, mem) /\ s.next = mem.next /\ \A v \in Registered(s) : s.records[v].tun = mem.records[v].tun
      BY <1>0, <2>1, TouchedFrame
    <2>3. Tracks(mem, issued \cup {<<a, u>>})
      BY <1>c, <2>1, TracksKnown
    <2>4. \A p \in issued : p[1] = a => p[2] = u
      BY <1>c, <2>1 DEF Tracks, OwnersKept
    <2>5. a \in StickyZone \/ (u \in DOMAIN Seeds /\ a = Seeds[u])
      BY <1>c, <2>1 DEF Orderly, Sound, Placed
    <2>6. Save(s, ok) /\ IF ok THEN Grant(u, a) ELSE UNCHANGED <<granted, issued>>
      BY <1>2 DEF AllocateKnown
    <2> HIDE DEF s, a
    <2>7. Orderly(s) /\ Tracks(s, issued) /\ Tracks(s, issued \cup {<<a, u>>})
      BY <1>c, <2>2, <2>3, OrderlyWithin
    <2> QED BY <1>b, <2>1, <2>4, <2>5, <2>6, <2>7
  <1>3. ASSUME NEW t \in Tunnels, NEW u \in Users, NEW k \in Nat, NEW ok \in BOOLEAN,
               AllocateNew(t, u, k, ok)
        PROVE  Good(mem', file', issued')
    <2> DEFINE a == AddrAt(mem, t, k)
               i == Wrap(a.iid + 1)
    <2>1. /\ mem.records[u] = NoRec /\ Start(mem, t) + k <= IIDBound
          /\ a \notin AddrsIn(mem)
      BY <1>3 DEF AllocateNew, StopsAt
    <2>2. a \in Addrs /\ t.name \in Names /\ Start(mem, t) \in Nat
      BY <1>0, AddrAtType, StartType DEF IIDs
    <2>3. /\ a.net = t.net /\ a.iid = Start(mem, t) + k
          /\ a \in StickyZone /\ i = a.iid + 1
      BY <1>0, <2>1, NoWrapAddr
    <2>4. i \in IIDs
      BY <2>2, WrapType DEF Addrs, IIDs
    <2>5. mem.next[t.name] \in Nat /\ mem.next[t.name] <= Start(mem, t)
      BY <1>0, <2>2, ConstantsAssumption DEF Start, Stores, IIDs
    <2>6. Save(WithRecord(mem, u, t.name, a, i), ok)
      BY <1>3 DEF AllocateNew, Allocated
    <2>7. IF ok THEN Grant(u, a) ELSE UNCHANGED <<granted, issued>>
      BY <1>3 DEF AllocateNew
    <2> HIDE DEF a, i
    <2>8. \A p \in issued : p[1] = a => p[2] = u
      <3>1. ASSUME NEW p \in issued, p[1] = a PROVE FALSE
        <4>1. mem.next[t.name] > a.iid
          BY <1>c, <2>3, <3>1 DEF Tracks, Past
        <4> QED BY <2>2, <2>3, <2>5, <4>1
      <3> QED BY <3>1
    <2>9. i >= mem.next[t.name] /\ i > a.iid
      BY <2>2, <2>3, <2>5
    <2>10. /\ Orderly(WithRecord(mem, u, t.name, a, i))
           /\ Tracks(WithRecord(mem, u, t.name, a, i), issued)
           /\ Tracks(WithRecord(mem, u, t.name, a, i), issued \cup {<<a, u>>})
      BY <1>0, <1>c, <2>1, <2>2, <2>3, <2>4, <2>8, <2>9, OrderlyNew
    <2> QED BY <1>b, <2>2, <2>3, <2>6, <2>7, <2>8, <2>10
  <1>4. ASSUME NEW protected, NEW ok \in BOOLEAN, ReapIdle(protected, ok)
        PROVE  Good(mem', file', issued')
    <2> DEFINE gone == Expired(mem, protected)
    <2>1. issued' = issued /\ (UNCHANGED <<mem, file>> \/ Save(Without(mem, gone), ok))
      BY <1>4 DEF ReapIdle
    <2> HIDE DEF gone
    <2>2. Orderly(Without(mem, gone)) /\ Tracks(Without(mem, gone), issued)
      BY <1>0, <1>c, WithoutFrame, OrderlyWithin
    <2> QED BY <1>0, <1>a, <2>1, <2>2
  <1>5. ASSUME NEW u \in Users, NEW ok \in BOOLEAN, Unregister(u, ok)
        PROVE  Good(mem', file', issued')
    <2>1. Orderly(Without(mem, {u})) /\ Tracks(Without(mem, {u}), issued)
      BY <1>0, <1>c, WithoutFrame, OrderlyWithin
    <2> QED BY <1>5, <1>a, <2>1 DEF Unregister
  <1>6. ASSUME NEW n \in Names, NEW ok \in BOOLEAN, DropTunnel(n, ok)
        PROVE  Good(mem', file', issued')
    <2>1. issued' = Left(issued, n) /\ Save(Dropped(mem, n), ok)
      BY <1>6 DEF DropTunnel, Left
    <2>2. Orderly(Dropped(mem, n)) /\ Tracks(Dropped(mem, n), Left(issued, n))
      BY <1>0, <1>c, OrderlyDropped
    <2>3. Left(issued, n) \subseteq issued
      BY DEF Left
    <2>4. /\ Tracks(file, Left(issued, n)) /\ SeedsTheirs(Left(issued, n))
          /\ \A p, q \in Left(issued, n) : p[1] = q[1] => p[2] = q[2]
      BY <1>c, <1>d, <2>3 DEF Tracks, Past, OwnersKept, SeedsTheirs
    <2> QED BY <1>c, <2>1, <2>2, <2>4 DEF Save, Good
  <1>7. CASE Restart
    <2>1. Orderly(Loaded(file)) /\ Tracks(Loaded(file), issued)
      BY <1>0, <1>c, LoadedFrame, OrderlyWithin
    <2> QED BY <1>7, <1>c, <1>d, <2>1 DEF Restart, Good
  <1>8. CASE TtlPasses
    <2>1. /\ Orderly(Aged(mem)) /\ Tracks(Aged(mem), issued)
          /\ Orderly(Aged(file)) /\ Tracks(Aged(file), issued)
      BY <1>0, <1>c, AgedFrame, OrderlyWithin
    <2> QED BY <1>8, <1>d, <2>1 DEF TtlPasses, Good
  <1>9. CASE UNCHANGED storeVars
    BY <1>0, <1>9 DEF storeVars
  <1>10. ASSUME NEW t \in Tunnels, NEW u \in Users, NEW ok \in BOOLEAN, Allocate(t, u, ok)
         PROVE  \/ AllocateKnown(u, ok)
                \/ \E k \in Nat : AllocateNew(t, u, k, ok)
    BY <1>10 DEF Allocate
  <1> QED
    BY <1>1, <1>2, <1>3, <1>4, <1>5, <1>6, <1>7, <1>8, <1>9, <1>10 DEF StoreNext

LEMMA OwnerInvariant ==
  ASSUME SeedsApart, NoWrap, OneNetPerName,
         \A s \in OldFiles : NoShared(s) /\ Placed(s) /\ Homed(s) /\ Counted(s)
  PROVE  StoreSpec => []OwnerInv
  <1>1. StoreInit => OwnerInv
    <2> SUFFICES ASSUME StoreInit PROVE OwnerInv
      OBVIOUS
    <2>1. file \in Stores /\ Orderly(file) /\ mem = Loaded(file) /\ issued = {}
      BY OldFilesAssumption DEF StoreInit, Orderly, Sound
    <2>2. Orderly(mem)
      BY <2>1, LoadedFrame, OrderlyWithin
    <2> QED BY <2>1, <2>2 DEF OwnerInv, Tracks, Past, OwnersKept, SeedsTheirs, OneOwner
  <1>2. (StoreTypeOK /\ OwnerInv) /\ [StoreNext]_storeVars => (StoreTypeOK /\ OwnerInv)'
    BY TypeStep, OwnerStep
  <1> QED BY <1>1, <1>2, TypeInit, PTL DEF StoreSpec

(* An address answered to one account is never answered to another, across *)
(* reaping, unregistering, failed saves and restarts; dropping a tunnel    *)
(* voids what was answered from its /64.                                   *)
THEOREM AddressesHaveOneOwner ==
  ASSUME SeedsApart, NoWrap, OneNetPerName,
         \A s \in OldFiles : NoShared(s) /\ Placed(s) /\ Homed(s) /\ Counted(s)
  PROVE  StoreSpec => []OneOwner
  <1>1. OwnerInv => OneOwner
    BY DEF OwnerInv
  <1> QED BY <1>1, OwnerInvariant, PTL

=============================================================================
