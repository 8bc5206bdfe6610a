-------------------------- MODULE ConnectionProofs --------------------------
(***************************************************************************)
(* Proofs about the two modules one connection of the default account      *)
(* passes through: EphemeralPool, for every set of connections,            *)
(* identifiers and sticky accounts and with every fault the module has,    *)
(* and ProxyConn, for any number of connections, any max_conns,            *)
(* idle_timeout, capacity of the done channel and amount of data.  The two *)
(* state machines share no state and each part stands on its own.          *)
(***************************************************************************)
EXTENDS EphemeralPool, ProxyConn, TLAPS, FiniteSetTheorems

-----------------------------------------------------------------------------
(* EphemeralPool.                                                          *)
(*                                                                         *)
(* OwnAddress and GraceKept hold each other up: a released identifier is   *)
(* nobody else's only because live connections have different ones, and a  *)
(* drawn one is fresh only because `used` holds all the live ones.  NoLeak *)
(* needs two facts more (Accounted): nothing is in use before the first    *)
(* netlink call found the interface, and an identifier whose removal       *)
(* failed is not in use, as the kernel refuses to add it again.            *)

(* The identifiers of live connections.                                    *)
LiveIIDs == {conn[c].iid : c \in {d \in Proxies : Live(d)}}

(* What NoLeak needs besides GraceKept.                                    *)
Accounted ==
  /\ index = "unknown" => used = {}
  /\ leaked \cap used = {}

PoolInv == PoolTypeOK /\ OwnAddress /\ GraceKept /\ Accounted /\ NoLeak

-----------------------------------------------------------------------------
(* A pool that has just started satisfies the invariant.                   *)
LEMMA PoolInitially == PoolInit => PoolInv
<1>1. SUFFICES ASSUME PoolInit PROVE PoolInv
  OBVIOUS
<1>2. \A c \in Proxies : conn[c] = NoConn /\ ~Live(c)
  BY <1>1 DEF PoolInit, NoConn, Live
<1>3. PoolTypeOK
  BY <1>1 DEF PoolInit, PoolTypeOK, NoConn, IIDs
<1>4. OwnAddress /\ GraceKept
  BY <1>1, <1>2 DEF PoolInit, OwnAddress, GraceKept
<1>5. Accounted /\ NoLeak
  BY <1>1 DEF PoolInit, Accounted, NoLeak
<1>6. QED
  BY <1>3, <1>4, <1>5 DEF PoolInv

(* Acquire: the identifier drawn is fresh, for used holds all live ones.   *)
LEMMA AcquireKeeps ==
  ASSUME PoolInv, NEW c \in Proxies, NEW i \in Random, Acquire(c, i)
  PROVE  PoolInv'
<1>1. PoolTypeOK /\ OwnAddress /\ GraceKept /\ Accounted /\ NoLeak
  BY DEF PoolInv
<1>2. i \in IIDs /\ i \notin Reserved /\ i \notin used /\ i # Base /\ i \notin iface
  BY DEF Acquire, Taken, Addable, IIDs
<1>3. /\ conn'[c].pc = "dial" /\ conn'[c].iid = i
      /\ \A d \in Proxies \ {c} : conn'[d] = conn[d]
  BY <1>1 DEF Acquire, PoolTypeOK
<1>4. Live(c)' /\ ~Live(c) /\ \A d \in Proxies \ {c} : Live(d)' <=> Live(d)
  BY <1>2, <1>3 DEF Acquire, Live
<1>5. \A d \in Proxies : Live(d) => conn[d].iid \in used /\ conn[d].iid # i
  BY <1>1, <1>2 DEF GraceKept
<1>6. PoolTypeOK'
  <2>1. conn' \in [Proxies -> [pc : {"idle", "dial", "relay"}, iid : IIDs]]
    BY <1>1, <1>2 DEF Acquire, PoolTypeOK
  <2>2. QED
    BY <1>1, <1>2, <2>1 DEF Acquire, PoolTypeOK, LinkKnown
<1>7. OwnAddress'
  BY <1>1, <1>3, <1>4, <1>5 DEF OwnAddress
<1>8. GraceKept'
  <2>1. used' = used \cup {i} /\ timers' = timers
    BY DEF Acquire
  <2>2. used = timers \cup LiveIIDs
    BY <1>1 DEF GraceKept, LiveIIDs
  <2>3. LiveIIDs' = LiveIIDs \cup {i}
    BY <1>3, <1>4 DEF LiveIIDs
  <2>4. \A d \in Proxies : Live(d)' => conn'[d].iid \notin timers'
    BY <1>1, <1>2, <1>3, <1>4, <2>1, <2>2 DEF GraceKept
  <2>5. QED
    BY <2>1, <2>2, <2>3, <2>4 DEF GraceKept, LiveIIDs
<1>9. Accounted' /\ NoLeak'
  BY <1>1, <1>2 DEF Acquire, LinkKnown, Accounted, NoLeak, PoolTypeOK
<1>10. QED
  BY <1>6, <1>7, <1>8, <1>9 DEF PoolInv

(* AcquireBase and Dialed: no live connection's identifier changes.        *)
LEMMA SameLiveKeeps ==
  ASSUME PoolInv, NEW c \in Proxies, AcquireBase(c) \/ Dialed(c)
  PROVE  PoolInv'
<1>1. PoolTypeOK /\ OwnAddress /\ GraceKept /\ Accounted /\ NoLeak
  BY DEF PoolInv
<1>2. PoolTypeOK'
  BY <1>1 DEF AcquireBase, Dialed, LinkKnown, PoolTypeOK, IIDs
<1>3. \A d \in Proxies : /\ Live(d)' <=> Live(d)
                         /\ Live(d) => conn'[d].iid = conn[d].iid
  BY <1>1 DEF AcquireBase, Dialed, PoolTypeOK, Live
<1>4. OwnAddress'
  BY <1>1, <1>3 DEF OwnAddress
<1>5. GraceKept'
  <2>1. LiveIIDs' = LiveIIDs
    BY <1>3 DEF LiveIIDs
  <2>2. used' = used /\ timers' = timers
    BY DEF AcquireBase, Dialed
  <2>3. used = timers \cup LiveIIDs
    BY <1>1 DEF GraceKept, LiveIIDs
  <2>4. \A d \in Proxies : Live(d)' => conn'[d].iid \notin timers'
    BY <1>1, <1>3, <2>2 DEF GraceKept
  <2>5. QED
    BY <2>1, <2>2, <2>3, <2>4 DEF GraceKept, LiveIIDs
<1>6. Accounted' /\ NoLeak'
  BY <1>1 DEF AcquireBase, Dialed, LinkKnown, Accounted, NoLeak, PoolTypeOK
<1>7. QED
  BY <1>2, <1>4, <1>5, <1>6 DEF PoolInv

(* Release: the identifier passes from the connection to its timer, and no *)
(* other connection has it.                                                *)
LEMMA ReleaseKeeps ==
  ASSUME PoolInv, NEW c \in Proxies, Release(c)
  PROVE  PoolInv'
<1>1. PoolTypeOK /\ OwnAddress /\ GraceKept /\ Accounted /\ NoLeak
  BY DEF PoolInv
<1>2. /\ conn'[c] = NoConn /\ ~Live(c)'
      /\ \A d \in Proxies \ {c} : conn'[d] = conn[d] /\ (Live(d)' <=> Live(d))
  BY <1>1 DEF Release, PoolTypeOK, Live, NoConn
<1>3. Live(c) <=> conn[c].iid # Base
  BY DEF Release, Live
<1>4. Live(c) => conn[c].iid \in used
  BY <1>1 DEF GraceKept
<1>5. PoolTypeOK'
  <2>1. conn' \in [Proxies -> [pc : {"idle", "dial", "relay"}, iid : IIDs]]
    BY <1>1 DEF Release, PoolTypeOK, NoConn, IIDs
  <2>2. timers' \subseteq Random \ Reserved
    BY <1>1, <1>3, <1>4 DEF Release, PoolTypeOK
  <2>3. QED
    BY <1>1, <2>1, <2>2 DEF Release, PoolTypeOK
<1>6. OwnAddress'
  BY <1>1, <1>2 DEF OwnAddress
<1>7. GraceKept'
  <2>1. used = timers \cup LiveIIDs /\ used' = used
    BY <1>1 DEF GraceKept, LiveIIDs, Release
  <2>2. timers' = timers \cup {j \in {conn[c].iid} : Live(c)}
    BY <1>3 DEF Release
  <2>3. LiveIIDs = LiveIIDs' \cup {j \in {conn[c].iid} : Live(c)}
    BY <1>2 DEF LiveIIDs
  <2>4. \A d \in Proxies : Live(d)' => conn'[d].iid \notin timers'
    BY <1>1, <1>2, <2>2 DEF GraceKept, OwnAddress
  <2>5. QED
    BY <2>1, <2>2, <2>3, <2>4 DEF GraceKept, LiveIIDs
<1>8. Accounted' /\ NoLeak'
  BY <1>1 DEF Release, Accounted, NoLeak
<1>9. QED
  BY <1>5, <1>6, <1>7, <1>8 DEF PoolInv

(* GraceEnds: an identifier with a timer is no live connection's.          *)
LEMMA GraceEndsKeeps ==
  ASSUME PoolInv, NEW i \in timers, GraceEnds(i)
  PROVE  PoolInv'
<1>1. PoolTypeOK /\ OwnAddress /\ GraceKept /\ Accounted /\ NoLeak
  BY DEF PoolInv
<1>2. /\ conn' = conn /\ index' = index /\ ensured' = ensured
      /\ used' = used \ {i} /\ timers' = timers \ {i}
  BY DEF GraceEnds
<1>3. \/ iface' = iface \ {i} /\ leaked' = leaked
      \/ iface' = iface /\ leaked' = leaked \cup (iface \cap {i})
  BY DEF GraceEnds
<1>4. i \in used /\ i \notin leaked /\ i \notin LiveIIDs
  BY <1>1 DEF GraceKept, Accounted, LiveIIDs
<1>5. PoolTypeOK'
  BY <1>1, <1>2, <1>3, <1>4 DEF PoolTypeOK
<1>6. \A c \in Proxies : Live(c)' <=> Live(c)
  BY <1>2 DEF Live
<1>7. OwnAddress'
  BY <1>1, <1>2, <1>6 DEF OwnAddress
<1>8. GraceKept'
  <2>1. LiveIIDs' = LiveIIDs
    BY <1>2, <1>6 DEF LiveIIDs
  <2>2. used = timers \cup LiveIIDs
    BY <1>1 DEF GraceKept, LiveIIDs
  <2>3. used' = timers' \cup LiveIIDs'
    BY <1>2, <1>4, <2>1, <2>2
  <2>4. QED
    BY <1>1, <1>2, <1>6, <2>3 DEF GraceKept, LiveIIDs
<1>9. Accounted' /\ NoLeak'
  BY <1>1, <1>2, <1>3, <1>4 DEF Accounted, NoLeak
<1>10. QED
  BY <1>5, <1>7, <1>8, <1>9 DEF PoolInv

(* EnsureSticky and Flap touch no identifier in use and no connection.      *)
LEMMA NeighboursKeep ==
  ASSUME PoolInv, (\E i \in Sticky : EnsureSticky(i)) \/ Flap \/ UNCHANGED poolVars
  PROVE  PoolInv'
<1>1. PoolTypeOK /\ OwnAddress /\ GraceKept /\ Accounted /\ NoLeak
  BY DEF PoolInv
<1>2. conn' = conn /\ used' = used /\ timers' = timers
  BY DEF EnsureSticky, Flap, poolVars
<1>3. \A c \in Proxies : Live(c)' <=> Live(c)
  BY <1>2 DEF Live
<1>4. OwnAddress'
  BY <1>1, <1>2, <1>3 DEF OwnAddress
<1>5. GraceKept'
  <2>1. LiveIIDs' = LiveIIDs
    BY <1>2, <1>3 DEF LiveIIDs
  <2>2. QED
    BY <1>1, <1>2, <1>3, <2>1 DEF GraceKept, LiveIIDs
<1>6. CASE \E i \in Sticky : EnsureSticky(i)
  BY <1>1, <1>4, <1>5, <1>6 DEF EnsureSticky, PoolInv, PoolTypeOK, Accounted, NoLeak, IIDs
<1>7. CASE Flap
  BY <1>1, <1>4, <1>5, <1>7 DEF Flap, PoolInv, PoolTypeOK, Accounted, NoLeak
<1>8. CASE UNCHANGED poolVars
  BY <1>1, <1>4, <1>5, <1>8 DEF poolVars, PoolInv, PoolTypeOK, Accounted, NoLeak
<1>9. QED
  BY <1>6, <1>7, <1>8

(* Restart: a new process has no connection and nothing in use.            *)
LEMMA RestartKeeps == ASSUME PoolInv, Restart PROVE PoolInv'
<1>1. \A c \in Proxies : conn'[c] = NoConn /\ ~Live(c)'
  BY DEF Restart, Live, NoConn
<1>2. PoolTypeOK'
  BY DEF PoolInv, PoolTypeOK, Restart, NoConn, IIDs
<1>3. OwnAddress' /\ GraceKept'
  BY <1>1 DEF Restart, OwnAddress, GraceKept
<1>4. Accounted' /\ NoLeak'
  BY DEF Restart, Accounted, NoLeak
<1>5. QED
  BY <1>2, <1>3, <1>4 DEF PoolInv

-----------------------------------------------------------------------------
(* The invariant holds in every state the pool reaches.                    *)
LEMMA PoolInvariant == PoolSpec => []PoolInv
<1>1. PoolInv /\ [PoolNext]_poolVars => PoolInv'
  BY AcquireKeeps, SameLiveKeeps, ReleaseKeeps, GraceEndsKeeps, NeighboursKeep,
     RestartKeeps DEF PoolNext
<1>2. QED
  BY PoolInitially, <1>1, PTL DEF PoolSpec

(* The pool's sets and its connections stay within their types.            *)
THEOREM PoolTypeCorrect == PoolSpec => []PoolTypeOK
  BY PoolInvariant, PTL DEF PoolInv

(* No two live connections leave through one random address, whatever      *)
(* netlink answers and whenever the interface or the process restarts.     *)
THEOREM AddressesAreOwn == PoolSpec => []OwnAddress
  BY PoolInvariant, PTL DEF PoolInv

(* An identifier is in use exactly while a connection or a grace period    *)
(* holds it, never both: Acquire cannot hand it out before.                *)
THEOREM GraceIsKept == PoolSpec => []GraceKept
  BY PoolInvariant, PTL DEF PoolInv

(* While the interface stays, its random addresses are those in use, in    *)
(* grace, or those whose removal failed.                                   *)
THEOREM NothingElseLeaks == PoolSpec => []NoLeak
  BY PoolInvariant, PTL DEF PoolInv

-----------------------------------------------------------------------------
(* ProxyConn.                                                              *)

(* The semaphore's holders are finitely many, so that they can be counted. *)
SlotInv == TypeOK /\ SlotsExact /\ IsFiniteSet(sem)

(* What a goroutine knows when it has stopped, and the handler when it has *)
(* a message: a stream stopped for its end has nothing pending and its     *)
(* source sends no more; a message comes from a goroutine that has ended;  *)
(* there are no goroutines before the relay.                               *)
Stopped(c, d) == copier[c][d].pc \in {"telling", "ended"}

Reasons ==
  \A c \in Conns :
     /\ \A d \in Dirs :
          /\ Stopped(c, d) /\ copier[c][d].why = "eof" => ends[c][d].eof /\ ~Pending(c, d)
          /\ copier[c][d].pc # "off" => pc[c] \in {"relay", "closed"}
     /\ done[c] > 0 => \E d \in Dirs : copier[c][d].pc = "ended"

ConnInv == SlotInv /\ Reasons /\ EndedWhole

-----------------------------------------------------------------------------
(* The parts of the state that concern one goroutine are typed.            *)
LEMMA CopierTypes ==
  ASSUME TypeOK, NEW c \in Conns, NEW d \in Dirs
  PROVE  /\ copier[c][d] \in Copiers /\ ends[c][d] \in [sent : Nat, eof : BOOLEAN]
         /\ done[c] \in 0 .. DoneCap /\ Chunks[c] \in Nat
  BY ConnAssumption DEF TypeOK

(* Before the first connection.                                            *)
LEMMA ConnInitially == Init => ConnInv
<1>1. SUFFICES ASSUME Init PROVE ConnInv
  OBVIOUS
<1>2. TypeOK
  BY <1>1, ConnAssumption DEF Init, TypeOK, Fresh, Off, Copiers
<1>3. IsFiniteSet(sem) /\ Cardinality(sem) = 0
  BY <1>1, FS_EmptySet DEF Init
<1>4. SlotsExact
  BY <1>1, <1>3, ConnAssumption DEF Init, SlotsExact
<1>5. Reasons /\ EndedWhole
  BY <1>1 DEF Init, Reasons, EndedWhole, Off, Fresh, Stopped
<1>6. QED
  BY <1>2, <1>3, <1>4, <1>5 DEF ConnInv, SlotInv

(* Slots: only Take adds a holder, when there is room; only a connection   *)
(* that holds one returns it.                                              *)
LEMMA SlotStep ==
  ASSUME SlotInv, [Next]_vars
  PROVE  SlotsExact' /\ IsFiniteSet(sem')
<1>1. TypeOK /\ SlotsExact /\ IsFiniteSet(sem) /\ Cardinality(sem) \in Nat
  BY FS_CardinalityType DEF SlotInv
<1>2. CASE \E c \in Conns : Take(c)
  <2>1. PICK c \in Conns : Take(c)
    BY <1>2
  <2>2. c \notin sem
    BY <1>1, <2>1 DEF Take, SlotsExact
  <2>3. IsFiniteSet(sem') /\ Cardinality(sem') = Cardinality(sem) + 1
    BY <1>1, <2>1, <2>2, FS_AddElement DEF Take
  <2>4. Cardinality(sem') <= MaxConns
    BY <1>1, <2>1, <2>3, ConnAssumption DEF Take
  <2>5. sem' = {b \in Conns : pc'[b] \notin {"none", "closed"}}
    BY <1>1, <2>1 DEF Take, Become, SlotsExact, TypeOK
  <2>6. QED
    BY <2>3, <2>4, <2>5 DEF SlotsExact
<1>3. CASE \E c \in Conns : GiveUp(c) \/ HandlerDone(c)
  <2>1. PICK c \in Conns : GiveUp(c) \/ HandlerDone(c)
    BY <1>3
  <2>2. sem' = sem \ {c} /\ pc' = [pc EXCEPT ![c] = "closed"]
    BY <2>1 DEF GiveUp, HandlerDone, Return, Become
  <2>3. IsFiniteSet(sem') /\ Cardinality(sem') <= Cardinality(sem)
    <3>1. IsFiniteSet(sem \ {c}) /\ Cardinality(sem \ {c}) \in {Cardinality(sem), Cardinality(sem) - 1}
      BY <1>1, FS_RemoveElement
    <3>2. QED
      BY <1>1, <2>2, <3>1
  <2>4. Cardinality(sem') <= MaxConns
    <3>1. Cardinality(sem') \in Nat
      BY <2>3, FS_CardinalityType
    <3>2. QED
      BY <1>1, <2>3, <3>1, ConnAssumption DEF SlotsExact
  <2>5. sem' = {b \in Conns : pc'[b] \notin {"none", "closed"}}
    BY <1>1, <2>2 DEF SlotsExact, TypeOK
  <2>6. QED
    BY <2>3, <2>4, <2>5 DEF SlotsExact
<1>4. CASE \E c \in Conns : Refuse(c) \/ HandshakeOk(c) \/ DialOk(c) \/ Reply(c)
  <2>1. PICK c \in Conns : Refuse(c) \/ HandshakeOk(c) \/ DialOk(c) \/ Reply(c)
    BY <1>4
  <2>2. sem' = sem
    BY <2>1 DEF Refuse, HandshakeOk, DialOk, Reply
  <2>3. \E p, q \in {"none", "closed"}, r, t \in {"handshake", "dial", "reply", "relay"} :
           \/ pc[c] = p /\ pc' = [pc EXCEPT ![c] = q]
           \/ pc[c] = r /\ pc' = [pc EXCEPT ![c] = t]
    BY <2>1 DEF Refuse, HandshakeOk, DialOk, Reply, Become
  <2>4. \A b \in Conns : pc'[b] \in {"none", "closed"} <=> pc[b] \in {"none", "closed"}
    BY <1>1, <2>3 DEF TypeOK
  <2>5. QED
    BY <1>1, <2>2, <2>4 DEF SlotsExact
<1>5. CASE \/ \E c \in Conns, d \in Dirs : Copier(c, d) \/ Fail(c, d) \/ Send(c, d) \/ ShutDown(c, d)
           \/ Tick
           \/ UNCHANGED vars
  <2>1. ASSUME NEW c \in Conns, NEW d \in Dirs,
               Copier(c, d) \/ Fail(c, d) \/ Send(c, d) \/ ShutDown(c, d)
        PROVE  sem' = sem /\ pc' = pc
    <3>1. CASE Copier(c, d)
      BY <3>1 DEF Copier, Copy, SeeEof, TimeOut, Tell
    <3>2. QED
      BY <2>1, <3>1 DEF Fail, Send, ShutDown
  <2>2. sem' = sem /\ pc' = pc
    BY <1>5, <2>1 DEF Tick, vars
  <2>3. QED
    BY <1>1, <2>2 DEF SlotsExact
<1>6. QED
  BY <1>2, <1>3, <1>4, <1>5 DEF Next, Handler

(* Before the relay: the goroutines do not exist and no message is there.  *)
LEMMA BeforeRelay ==
  ASSUME ConnInv, NEW c \in Conns, pc[c] \notin {"relay", "closed"}
  PROVE  done[c] = 0 /\ \A d \in Dirs : copier[c][d].pc = "off"
<1>1. \A d \in Dirs : copier[c][d].pc = "off"
  BY DEF ConnInv, Reasons
<1>2. ~(done[c] > 0)
  BY <1>1 DEF ConnInv, Reasons
<1>3. QED
  BY <1>1, <1>2, CopierTypes DEF ConnInv, SlotInv, Dirs

(* Steps of the handler before the relay touch no goroutine.               *)
LEMMA SetupKeeps ==
  ASSUME ConnInv, NEW c \in Conns,
         Take(c) \/ Refuse(c) \/ HandshakeOk(c) \/ DialOk(c) \/ GiveUp(c)
  PROVE  TypeOK' /\ Reasons' /\ EndedWhole'
<1>1. TypeOK /\ Reasons /\ EndedWhole
  BY DEF ConnInv, SlotInv
<1>2. ends' = ends /\ copier' = copier /\ done' = done
  BY DEF Take, Refuse, HandshakeOk, DialOk, GiveUp
<1>3. \E p \in {"handshake", "dial", "reply", "closed"} : pc' = [pc EXCEPT ![c] = p]
  BY DEF Take, Refuse, HandshakeOk, DialOk, GiveUp, Return, Become
<1>4. pc[c] \notin {"relay", "closed"}
  BY DEF Take, Refuse, HandshakeOk, DialOk, GiveUp
<1>5. done[c] = 0 /\ \A d \in Dirs : copier[c][d].pc = "off"
  BY <1>4, BeforeRelay
<1>6. sem' \subseteq Conns
  BY <1>1 DEF TypeOK, Take, Refuse, HandshakeOk, DialOk, GiveUp, Return
<1>7. \A b \in Conns \ {c} : pc'[b] = pc[b]
  BY <1>1, <1>3 DEF TypeOK
<1>8. TypeOK'
  BY <1>1, <1>2, <1>3, <1>6 DEF TypeOK
<1>9. Reasons'
  BY <1>1, <1>2, <1>5, <1>7 DEF Reasons, Stopped, Pending
<1>10. EndedWhole'
  BY <1>1, <1>2, <1>5, <1>7 DEF EndedWhole, Pending
<1>11. QED
  BY <1>8, <1>9, <1>10

(* Reply starts both goroutines.                                           *)
LEMMA ReplyKeeps ==
  ASSUME ConnInv, NEW c \in Conns, Reply(c)
  PROVE  TypeOK' /\ Reasons' /\ EndedWhole'
<1>1. TypeOK /\ Reasons /\ EndedWhole
  BY DEF ConnInv, SlotInv
<1>2. done[c] = 0
  BY BeforeRelay DEF Reply
<1>3. /\ sem' = sem /\ ends' = ends /\ done' = done
      /\ pc' = [pc EXCEPT ![c] = "relay"]
  BY DEF Reply, Become
<1>4. /\ \A d \in Dirs : copier'[c][d] = [Off EXCEPT !.pc = "copying"]
      /\ \A b \in Conns \ {c} : copier'[b] = copier[b]
  BY <1>1 DEF Reply, TypeOK
<1>5. copier' \in [Conns -> [Dirs -> Copiers]]
  <2>1. [d \in Dirs |-> [Off EXCEPT !.pc = "copying"]] \in [Dirs -> Copiers]
    BY DEF Off, Copiers
  <2>2. QED
    BY <1>1, <2>1 DEF Reply, TypeOK
<1>6. \A d \in Dirs : /\ copier'[c][d].pc = "copying"
                      /\ copier'[c][d].got = 0 /\ copier'[c][d].quiet = 0
  BY <1>4 DEF Off
<1>7. TypeOK'
  <2>1. \A b \in Conns, d \in Dirs :
           /\ ends[b][d].sent <= Chunks[b]
           /\ copier'[b][d].got <= ends[b][d].sent
           /\ copier'[b][d].quiet <= Idle
    <3>1. \A d \in Dirs : ends[c][d].sent \in Nat /\ ends[c][d].sent <= Chunks[c]
      BY <1>1, CopierTypes DEF TypeOK
    <3>2. \A d \in Dirs : /\ copier'[c][d].got <= ends[c][d].sent
                         /\ copier'[c][d].quiet <= Idle
      BY <1>6, <3>1, ConnAssumption
    <3>3. \A b \in Conns \ {c}, d \in Dirs :
             /\ ends[b][d].sent <= Chunks[b]
             /\ copier'[b][d].got <= ends[b][d].sent
             /\ copier'[b][d].quiet <= Idle
      BY <1>1, <1>4 DEF TypeOK
    <3>4. QED
      BY <3>1, <3>2, <3>3
  <2>2. QED
    BY <1>1, <1>3, <1>5, <2>1 DEF TypeOK
<1>8. \A b \in Conns \ {c} : pc'[b] = pc[b]
  BY <1>1, <1>3 DEF TypeOK
<1>9. pc'[c] = "relay"
  BY <1>1, <1>3 DEF TypeOK
<1>10. Reasons'
  BY <1>1, <1>2, <1>3, <1>4, <1>6, <1>8, <1>9 DEF Reasons, Stopped, Pending
<1>11. EndedWhole'
  BY <1>1, <1>3, <1>4, <1>8, <1>9 DEF EndedWhole, Pending
<1>12. QED
  BY <1>7, <1>10, <1>11

(* HandlerDone: the message comes from a goroutine that has ended.         *)
LEMMA HandlerDoneKeeps ==
  ASSUME ConnInv, NEW c \in Conns, HandlerDone(c)
  PROVE  TypeOK' /\ Reasons' /\ EndedWhole'
<1>1. TypeOK /\ Reasons /\ EndedWhole
  BY DEF ConnInv, SlotInv
<1>2. /\ sem' = sem \ {c} /\ ends' = ends /\ copier' = copier
      /\ done' = [done EXCEPT ![c] = @ - 1] /\ done[c] > 0
      /\ pc' = [pc EXCEPT ![c] = "closed"] /\ pc[c] = "relay"
  BY DEF HandlerDone, Return, Become
<1>3. done[c] \in 0 .. DoneCap /\ done[c] - 1 \in 0 .. DoneCap
  BY <1>1, <1>2, ConnAssumption DEF TypeOK
<1>4. TypeOK'
  BY <1>1, <1>2, <1>3 DEF TypeOK
<1>5. /\ pc'[c] = "closed" /\ \A b \in Conns \ {c} : pc'[b] = pc[b] /\ done'[b] = done[b]
  BY <1>1, <1>2 DEF TypeOK
<1>6. \E d \in Dirs : copier[c][d].pc = "ended"
  BY <1>1, <1>2 DEF Reasons
<1>7. Reasons'
  BY <1>1, <1>2, <1>5, <1>6 DEF Reasons, Stopped, Pending
<1>8. EndedWhole'
  BY <1>1, <1>2, <1>5, <1>6 DEF EndedWhole, Reasons, Stopped, Pending
<1>9. QED
  BY <1>4, <1>7, <1>8

-----------------------------------------------------------------------------
(* A step of one goroutine, from what it was (still at work) to r: it      *)
(* moves no stream backwards, knows why it stops, and sends its message    *)
(* when it ends.                                                           *)
LEMMA GoroutineKeeps ==
  ASSUME ConnInv, NEW c \in Conns, NEW d \in Dirs, NEW r \in Copiers,
         copier' = [copier EXCEPT ![c][d] = r],
         sem' = sem, pc' = pc, ends' = ends,
         copier[c][d].pc \in {"copying", "telling"}, r.pc # "off",
         r.got <= ends[c][d].sent, r.quiet <= Idle,
         r.pc # "copying" /\ r.why = "eof" => ends[c][d].eof /\ r.got = ends[c][d].sent,
         \/ done' = done
         \/ r.pc = "ended" /\ done[c] < DoneCap /\ done' = [done EXCEPT ![c] = @ + 1]
  PROVE  TypeOK' /\ Reasons' /\ EndedWhole'
<1>1. TypeOK /\ Reasons /\ EndedWhole
  BY DEF ConnInv, SlotInv
<1>2. copier' \in [Conns -> [Dirs -> Copiers]]
  BY <1>1 DEF TypeOK
<1>3. /\ copier'[c][d] = r
      /\ \A b \in Conns, e \in Dirs : b # c \/ e # d => copier'[b][e] = copier[b][e]
  BY <1>1 DEF TypeOK
<1>4. /\ done' \in [Conns -> 0 .. DoneCap]
      /\ \A b \in Conns \ {c} : done'[b] = done[b]
      /\ done'[c] > 0 => done[c] > 0 \/ r.pc = "ended"
  <2>1. done \in [Conns -> 0 .. DoneCap] /\ DoneCap \in Nat
    BY <1>1, ConnAssumption DEF TypeOK
  <2>2. CASE done' = done
    BY <2>1, <2>2
  <2>3. CASE r.pc = "ended" /\ done[c] < DoneCap /\ done' = [done EXCEPT ![c] = @ + 1]
    <3>1. done[c] + 1 \in 0 .. DoneCap
      BY <2>1, <2>3
    <3>2. QED
      BY <2>1, <2>3, <3>1
  <2>4. QED
    BY <2>2, <2>3
<1>5. TypeOK'
  <2>1. \A b \in Conns, e \in Dirs :
           /\ ends[b][e].sent <= Chunks[b]
           /\ copier'[b][e].got <= ends[b][e].sent
           /\ copier'[b][e].quiet <= Idle
    BY <1>1, <1>3 DEF TypeOK
  <2>2. QED
    BY <1>1, <1>2, <1>4, <2>1 DEF TypeOK
<1>6. Reasons'
  <2>1. ASSUME NEW b \in Conns, NEW e \in Dirs
        PROVE  /\ Stopped(b, e)' /\ copier'[b][e].why = "eof"
                    => ends'[b][e].eof /\ ~Pending(b, e)'
               /\ copier'[b][e].pc # "off" => pc'[b] \in {"relay", "closed"}
    <3>1. CASE b = c /\ e = d
      <4>1. pc[c] \in {"relay", "closed"}
        BY <1>1 DEF Reasons
      <4>2. ends[c][d].sent \in Nat /\ r.got \in Nat
        BY <1>1, CopierTypes DEF Copiers
      <4>3. QED
        BY <1>3, <3>1, <4>1, <4>2 DEF Stopped, Pending
    <3>2. CASE b # c \/ e # d
      BY <1>1, <1>3, <3>2 DEF Reasons, Stopped, Pending
    <3>3. QED
      BY <3>1, <3>2
  <2>2. ASSUME NEW b \in Conns, done'[b] > 0
        PROVE  \E e \in Dirs : copier'[b][e].pc = "ended"
    <3>1. CASE done[b] > 0
      <4>1. PICK e \in Dirs : copier[b][e].pc = "ended"
        BY <1>1, <3>1 DEF Reasons
      <4>2. b # c \/ e # d
        BY <4>1
      <4>3. QED
        BY <1>3, <4>1, <4>2
    <3>2. CASE ~(done[b] > 0)
      BY <1>3, <1>4, <2>2, <3>2
    <3>3. QED
      BY <3>1, <3>2
  <2>3. QED
    BY <2>1, <2>2 DEF Reasons
<1>7. EndedWhole'
  <2>1. SUFFICES ASSUME NEW b \in Conns, pc[b] = "closed",
                        \E e \in Dirs : copier'[b][e].pc # "off"
                 PROVE  \E e \in Dirs : /\ copier'[b][e].pc = "ended"
                                        /\ copier'[b][e].why = "eof" => ~Pending(b, e)'
    BY DEF EndedWhole
  <2>2. \E e \in Dirs : copier[b][e].pc # "off"
    BY <1>3, <2>1
  <2>3. PICK e \in Dirs : /\ copier[b][e].pc = "ended"
                          /\ copier[b][e].why = "eof" => ~Pending(b, e)
    BY <1>1, <2>1, <2>2 DEF EndedWhole
  <2>4. copier'[b][e] = copier[b][e]
    BY <1>3, <2>3
  <2>5. QED
    BY <2>3, <2>4 DEF Pending
<1>8. QED
  BY <1>5, <1>6, <1>7

(* Copying, stopping for any reason, and telling are such steps.           *)
LEMMA CopierKeeps ==
  ASSUME ConnInv, NEW c \in Conns, NEW d \in Dirs, Copier(c, d) \/ Fail(c, d)
  PROVE  TypeOK' /\ Reasons' /\ EndedWhole'
<1>1. TypeOK /\ Reasons
  BY DEF ConnInv, SlotInv
<1> DEFINE old == copier[c][d]
<1>2. /\ old \in Copiers /\ ends[c][d] \in [sent : Nat, eof : BOOLEAN]
      /\ old.got <= ends[c][d].sent /\ old.quiet <= Idle
      /\ Idle \in Nat
  BY <1>1, CopierTypes, ConnAssumption DEF TypeOK
<1>3. CASE Copy(c, d)
  <2> DEFINE more == old.got + 1
             new  == [old EXCEPT !.got = more, !.quiet = 0]
  <2>0. more \in Nat
    BY <1>2 DEF Copiers
  <2>1. new \in Copiers /\ new.got = more /\ new.quiet = 0 /\ new.pc = old.pc
    <3> HIDE DEF more
    <3>1. QED
      BY <1>2, <2>0 DEF Copiers
  <2>2. /\ copier' = [copier EXCEPT ![c][d] = new]
        /\ old.pc = "copying" /\ old.got < ends[c][d].sent
    BY <1>3 DEF Copy, Pending
  <2> HIDE DEF new
  <2>3. PICK r \in Copiers : r = new
    BY <2>1
  <2>4. r.got <= ends[c][d].sent /\ r.quiet <= Idle /\ r.pc = "copying"
    <3>1. old.got \in Nat /\ ends[c][d].sent \in Nat
      BY <1>2 DEF Copiers
    <3>2. QED
      BY <1>2, <2>1, <2>2, <2>3, <3>1
  <2>5. QED
    BY <1>3, <2>2, <2>3, <2>4, GoroutineKeeps DEF Copy
<1>4. CASE SeeEof(c, d) \/ TimeOut(c, d) \/ Fail(c, d)
  <2>1. PICK why \in {"eof", "error", "idle"} :
           Stop(c, d, why) /\ (why = "eof" => ends[c][d].eof /\ ~Pending(c, d))
    BY <1>4 DEF SeeEof, TimeOut, Fail
  <2> DEFINE new == [old EXCEPT !.pc = "telling", !.why = why, !.quiet = 0]
  <2>2. /\ new \in Copiers
        /\ new.pc = "telling" /\ new.got = old.got /\ new.quiet = 0 /\ new.why = why
    BY <1>2 DEF Copiers
  <2>3. copier' = [copier EXCEPT ![c][d] = new]
    BY <2>1 DEF Stop
  <2> HIDE DEF new
  <2>4. PICK r \in Copiers : r = new
    BY <2>2
  <2>5. old.got \in Nat /\ ends[c][d].sent \in Nat
    BY <1>2 DEF Copiers
  <2>6. /\ r.got <= ends[c][d].sent /\ r.quiet <= Idle /\ r.pc = "telling"
        /\ r.why = "eof" => ends[c][d].eof /\ r.got = ends[c][d].sent
    BY <1>2, <2>1, <2>2, <2>4, <2>5 DEF Pending
  <2>7. QED
    BY <1>4, <2>3, <2>4, <2>6, GoroutineKeeps DEF SeeEof, TimeOut, Fail
<1>5. CASE Tell(c, d)
  <2> DEFINE new == [old EXCEPT !.pc = "ended"]
  <2>1. /\ new \in Copiers /\ new.pc = "ended" /\ new.got = old.got
        /\ new.quiet = old.quiet /\ new.why = old.why
    BY <1>2 DEF Copiers
  <2>2. copier' = [copier EXCEPT ![c][d] = new] /\ old.pc = "telling"
    BY <1>5 DEF Tell
  <2> HIDE DEF new
  <2>3. PICK r \in Copiers : r = new
    BY <2>1
  <2>4. old.got \in Nat /\ ends[c][d].sent \in Nat
    BY <1>2 DEF Copiers
  <2>5. old.why = "eof" => ends[c][d].eof /\ ~Pending(c, d)
    BY <1>1, <2>2 DEF Reasons, Stopped
  <2>6. /\ r.got <= ends[c][d].sent /\ r.quiet <= Idle /\ r.pc = "ended"
        /\ r.why = "eof" => ends[c][d].eof /\ r.got = ends[c][d].sent
    BY <1>2, <2>1, <2>3, <2>4, <2>5 DEF Pending
  <2>7. QED
    BY <1>5, <2>2, <2>3, <2>6, GoroutineKeeps DEF Tell
<1>6. QED
  BY <1>3, <1>4, <1>5 DEF Copier

(* An end that sends or shuts down has not ended yet, so no goroutine has  *)
(* stopped for its end.                                                    *)
LEMMA EndsKeep ==
  ASSUME ConnInv, NEW c \in Conns, NEW d \in Dirs, Send(c, d) \/ ShutDown(c, d)
  PROVE  TypeOK' /\ Reasons' /\ EndedWhole'
<1>1. TypeOK /\ Reasons /\ EndedWhole
  BY DEF ConnInv, SlotInv
<1>2. /\ sem' = sem /\ pc' = pc /\ copier' = copier /\ done' = done
      /\ pc[c] = "relay" /\ ~ends[c][d].eof
  BY DEF Send, ShutDown
<1>3. /\ ends[c][d] \in [sent : Nat, eof : BOOLEAN] /\ Chunks[c] \in Nat
      /\ copier[c][d].got \in Nat
      /\ ends[c][d].sent <= Chunks[c] /\ copier[c][d].got <= ends[c][d].sent
  BY <1>1, CopierTypes DEF TypeOK, Copiers
<1>4. /\ ends' \in [Conns -> [Dirs -> [sent : Nat, eof : BOOLEAN]]]
      /\ \A b \in Conns, e \in Dirs : b # c \/ e # d => ends'[b][e] = ends[b][e]
      /\ ends[c][d].sent <= ends'[c][d].sent /\ ends'[c][d].sent <= Chunks[c]
  <2> DEFINE old  == ends[c][d]
             more == old.sent + 1
  <2>1. CASE Send(c, d)
    <3> DEFINE new == [old EXCEPT !.sent = more]
    <3>1. more \in Nat /\ old.sent <= more /\ more <= Chunks[c]
      BY <1>3, <2>1 DEF Send
    <3>2. ends' = [ends EXCEPT ![c][d] = new]
      BY <2>1 DEF Send
    <3> HIDE DEF more
    <3>3. new \in [sent : Nat, eof : BOOLEAN] /\ new.sent = more
      BY <1>3, <3>1
    <3> HIDE DEF new
    <3>4. QED
      BY <1>1, <3>1, <3>2, <3>3 DEF TypeOK
  <2>2. CASE ShutDown(c, d)
    <3> DEFINE new == [old EXCEPT !.eof = TRUE]
    <3>1. ends' = [ends EXCEPT ![c][d] = new]
      BY <2>2 DEF ShutDown
    <3>2. new \in [sent : Nat, eof : BOOLEAN] /\ new.sent = old.sent
      BY <1>3
    <3> HIDE DEF new
    <3>3. QED
      BY <1>1, <1>3, <3>1, <3>2 DEF TypeOK
  <2>3. QED
    BY <2>1, <2>2
<1>5. TypeOK'
  <2>1. ASSUME NEW b \in Conns, NEW e \in Dirs
        PROVE  /\ ends'[b][e].sent <= Chunks[b]
               /\ copier[b][e].got <= ends'[b][e].sent
               /\ copier[b][e].quiet <= Idle
    <3>1. CASE b = c /\ e = d
      <4>1. ends'[c][d].sent \in Nat
        BY <1>4
      <4>2. copier[c][d].got <= ends'[c][d].sent
        BY <1>3, <1>4, <4>1
      <4>3. QED
        BY <1>1, <1>4, <3>1, <4>2 DEF TypeOK
    <3>2. CASE b # c \/ e # d
      BY <1>1, <1>4, <3>2 DEF TypeOK
    <3>3. QED
      BY <3>1, <3>2
  <2>2. QED
    BY <1>1, <1>2, <1>4, <2>1 DEF TypeOK
<1>6. Reasons'
  <2>1. ASSUME NEW b \in Conns, NEW e \in Dirs, Stopped(b, e), copier[b][e].why = "eof"
        PROVE  ends'[b][e].eof /\ ~(copier[b][e].got < ends'[b][e].sent)
    <3>1. ends[b][e].eof /\ ~(copier[b][e].got < ends[b][e].sent)
      BY <1>1, <2>1 DEF Reasons, Pending
    <3>2. b # c \/ e # d
      BY <1>2, <3>1
    <3>3. ends'[b][e] = ends[b][e]
      BY <1>4, <3>2
    <3>4. QED
      BY <3>1, <3>3
  <2>2. QED
    BY <1>1, <1>2, <2>1 DEF Reasons, Stopped, Pending
<1>7. EndedWhole'
  <2>1. \A b \in Conns : pc[b] = "closed" => \A e \in Dirs : ends'[b][e] = ends[b][e]
    BY <1>2, <1>4
  <2>2. QED
    BY <1>1, <1>2, <2>1 DEF EndedWhole, Pending
<1>8. QED
  BY <1>5, <1>6, <1>7

(* A tick makes the waiting goroutines wait longer, none beyond its        *)
(* deadline.                                                               *)
LEMMA TickKeeps ==
  ASSUME ConnInv, Tick
  PROVE  TypeOK' /\ Reasons' /\ EndedWhole'
<1>1. TypeOK /\ Reasons /\ EndedWhole
  BY DEF ConnInv, SlotInv
<1>2. sem' = sem /\ pc' = pc /\ ends' = ends /\ done' = done
  BY DEF Tick
<1>3. ASSUME NEW c \in Conns, NEW d \in Dirs
      PROVE  /\ copier'[c][d] \in Copiers
             /\ copier'[c][d].pc = copier[c][d].pc /\ copier'[c][d].got = copier[c][d].got
             /\ copier'[c][d].why = copier[c][d].why /\ copier'[c][d].quiet <= Idle
  <2> DEFINE old  == copier[c][d]
             more == old.quiet + 1
             Waiting == pc[c] = "relay" /\ old.pc = "copying"
  <2>1. old \in Copiers /\ old.quiet \in Nat /\ old.quiet <= Idle
    BY <1>1, CopierTypes DEF TypeOK, Copiers
  <2>2. copier'[c][d] = IF Waiting THEN [old EXCEPT !.quiet = more] ELSE old
    BY DEF Tick
  <2>3. more \in Nat /\ (Waiting => more <= Idle)
    BY <2>1, ConnAssumption DEF Tick, CopyFasterThanIdle
  <2> HIDE DEF more, Waiting
  <2>4. QED
    BY <2>1, <2>2, <2>3 DEF Copiers
<1>4. copier' \in [Conns -> [Dirs -> Copiers]]
  <2>1. copier' = [c \in Conns |-> [d \in Dirs |-> copier'[c][d]]]
    BY DEF Tick
  <2>2. QED
    BY <1>3, <2>1
<1>5. TypeOK'
  BY <1>1, <1>2, <1>3, <1>4 DEF TypeOK
<1>6. Reasons'
  BY <1>1, <1>2, <1>3 DEF Reasons, Stopped, Pending
<1>7. EndedWhole'
  BY <1>1, <1>2, <1>3 DEF EndedWhole, Pending
<1>8. QED
  BY <1>5, <1>6, <1>7

(* Every step.                                                             *)
LEMMA ConnStep == ASSUME ConnInv, [Next]_vars PROVE ConnInv'
<1>1. SlotsExact' /\ IsFiniteSet(sem')
  BY SlotStep DEF ConnInv
<1>2. TypeOK' /\ Reasons' /\ EndedWhole'
  <2>1. CASE \E c \in Conns : Take(c) \/ Refuse(c) \/ Handler(c)
    BY <2>1, SetupKeeps, ReplyKeeps, HandlerDoneKeeps DEF Handler
  <2>2. CASE \E c \in Conns, d \in Dirs :
                Copier(c, d) \/ Fail(c, d) \/ Send(c, d) \/ ShutDown(c, d)
    BY <2>2, CopierKeeps, EndsKeep
  <2>3. CASE Tick
    BY <2>3, TickKeeps
  <2>4. CASE UNCHANGED vars
    BY <2>4 DEF ConnInv, SlotInv, vars, TypeOK, Reasons, EndedWhole, Stopped, Pending
  <2>5. QED
    BY <2>1, <2>2, <2>3, <2>4 DEF Next
<1>3. QED
  BY <1>1, <1>2 DEF ConnInv, SlotInv

-----------------------------------------------------------------------------
(* The invariant holds in every state the connections reach.               *)
LEMMA ConnInvariant == Spec => []ConnInv
  BY ConnInitially, ConnStep, PTL DEF Spec

(* Types, the bound on idle time and the capacity of the done channel are  *)
(* never exceeded.                                                         *)
THEOREM ConnTypeCorrect == Spec => []TypeOK
  BY ConnInvariant, PTL DEF ConnInv, SlotInv

(* Every way out of handle gives exactly its own slot back, a refusal      *)
(* none, and max_conns is never exceeded.                                  *)
THEOREM SlotsAreExact == Spec => []SlotsExact
  BY ConnInvariant, PTL DEF ConnInv, SlotInv

(* The handler closes the sockets only after a stream ended whole, failed  *)
(* or sat idle, however resets, deadlines and half-closes interleave.      *)
THEOREM StreamsEndWhole == Spec => []EndedWhole
  BY ConnInvariant, PTL DEF ConnInv
=============================================================================
