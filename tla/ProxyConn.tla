------------------------------ MODULE ProxyConn -----------------------------
(***************************************************************************)
(* One client connection from accept to close (socks5.go): the slot of     *)
(* max_conns, the SOCKS handshake under its deadline, the dial, and the    *)
(* relay, two goroutines copying in opposite directions that tell the      *)
(* handler over a channel when they are done.  What is dialled and from    *)
(* which address is left to StickyEgress and EphemeralPool.                *)
(***************************************************************************)
EXTENDS Integers, FiniteSets

CONSTANTS
  Conns,     (* accepted connections                                       *)
  MaxConns,  (* max_conns, the capacity of the semaphore channel           *)
  DoneCap,   (* capacity of the done channel: 2                            *)
  Idle,      (* idle_timeout, in ticks; 0 means none                       *)
  Chunks     (* bound: what each side of a connection may send, in reads;  *)
             (* with 0 both sides are silent and leave the end to others   *)

ASSUME ConnAssumption ==
  MaxConns \in Nat \ {0} /\ DoneCap \in Nat /\ Idle \in Nat /\ Chunks \in [Conns -> Nat]

Dirs == {"up", "down"}   (* client to remote, remote to client             *)
Other(d) == IF d = "up" THEN "down" ELSE "up"

VARIABLES
  sem,    (* connections holding a slot                                    *)
  pc,     (* connection -> where its handler is                            *)
  ends,   (* connection -> direction -> what its source has done:          *)
          (* [sent, eof]                                                   *)
  copier, (* connection -> direction -> the copying goroutine:             *)
          (* [pc, got, quiet, why]                                         *)
  done    (* connection -> messages in its done channel                    *)

vars == <<sem, pc, ends, copier, done>>

Fresh == [sent |-> 0, eof |-> FALSE]
Off   == [pc |-> "off", got |-> 0, quiet |-> 0, why |-> "none"]

Init ==
  /\ sem = {}
  /\ pc = [c \in Conns |-> "none"]
  /\ ends = [c \in Conns |-> [d \in Dirs |-> Fresh]]
  /\ copier = [c \in Conns |-> [d \in Dirs |-> Off]]
  /\ done = [c \in Conns |-> 0]

Become(c, p) == pc' = [pc EXCEPT ![c] = p]

-----------------------------------------------------------------------------
(* handle.                                                                 *)

(* Mutant: a refused connection gives a slot back too.                     *)
RefuseReleasing(c) ==
  /\ pc[c] = "none" /\ Cardinality(sem) >= MaxConns
  /\ sem' \in {sem \ {b} : b \in sem}
  /\ Become(c, "closed")
  /\ UNCHANGED <<ends, copier, done>>

Take(c) ==
  /\ pc[c] = "none" /\ Cardinality(sem) < MaxConns
  /\ sem' = sem \cup {c}
  /\ Become(c, "handshake")
  /\ UNCHANGED <<ends, copier, done>>

Refuse(c) ==
  /\ pc[c] = "none" /\ Cardinality(sem) >= MaxConns
  /\ Become(c, "closed")
  /\ UNCHANGED <<sem, ends, copier, done>>

(* Greeting, password, account and request were read in time.              *)
HandshakeOk(c) ==
  /\ pc[c] = "handshake"
  /\ Become(c, "dial")
  /\ UNCHANGED <<sem, ends, copier, done>>

(* A handler that returns closes both sockets and gives its slot back.     *)
Return(c) == sem' = sem \ {c} /\ Become(c, "closed")

(* Malformed, refused, too slow for the 15 seconds; no address or no route *)
(* within connect_timeout; or the reply cannot be written.                 *)
GiveUp(c) ==
  /\ pc[c] \in {"handshake", "dial", "reply"}
  /\ Return(c)
  /\ UNCHANGED <<ends, copier, done>>

DialOk(c) ==
  /\ pc[c] = "dial"
  /\ Become(c, "reply")
  /\ UNCHANGED <<sem, ends, copier, done>>

(* The reply is out, the deadline off, both goroutines start.              *)
Reply(c) ==
  /\ pc[c] = "reply"
  /\ Become(c, "relay")
  /\ copier' = [copier EXCEPT ![c] = [d \in Dirs |-> [Off EXCEPT !.pc = "copying"]]]
  /\ UNCHANGED <<sem, ends, done>>

(* The handler waits for one of the two, then closes both sockets.         *)
HandlerDone(c) ==
  /\ pc[c] = "relay"
  /\ done[c] > 0
  /\ done' = [done EXCEPT ![c] = @ - 1]
  /\ Return(c)
  /\ UNCHANGED <<ends, copier>>

-----------------------------------------------------------------------------
(* The goroutines.                                                         *)

Stop(c, d, why) ==
  copier' = [copier EXCEPT ![c][d] = [@ EXCEPT !.pc = "telling", !.why = why, !.quiet = 0]]

Pending(c, d) == copier[c][d].got < ends[c][d].sent

(* One Read and its Write; each sets its deadline anew.                    *)
Copy(c, d) ==
  /\ pc[c] = "relay" /\ copier[c][d].pc = "copying"
  /\ Pending(c, d)
  /\ copier' = [copier EXCEPT ![c][d] = [@ EXCEPT !.got = copier[c][d].got + 1, !.quiet = 0]]
  /\ UNCHANGED <<sem, pc, ends, done>>

(* Mutant: the end of the source is acted on before what it sent.          *)
SeeEofEarly(c, d) ==
  /\ copier[c][d].pc = "copying"
  /\ ends[c][d].eof
  /\ Stop(c, d, "eof")
  /\ UNCHANGED <<sem, pc, ends, done>>

SeeEof(c, d) ==
  /\ copier[c][d].pc = "copying"
  /\ ends[c][d].eof /\ ~Pending(c, d)
  /\ Stop(c, d, "eof")
  /\ UNCHANGED <<sem, pc, ends, done>>

(* Read or Write fails: a reset, or the handler closed the sockets.        *)
Fail(c, d) ==
  /\ copier[c][d].pc = "copying"
  /\ Stop(c, d, "error")
  /\ UNCHANGED <<sem, pc, ends, done>>

(* The read deadline of the source passes.                                 *)
TimeOut(c, d) ==
  /\ pc[c] = "relay" /\ copier[c][d].pc = "copying"
  /\ Idle > 0 /\ copier[c][d].quiet >= Idle
  /\ Stop(c, d, "idle")
  /\ UNCHANGED <<sem, pc, ends, done>>

(* Mutant: the goroutine leaves the message to the other one.              *)
TellLast(c, d) ==
  /\ copier[c][d].pc = "telling"
  /\ done[c] < DoneCap /\ copier[c][Other(d)].pc = "ended"
  /\ done' = [done EXCEPT ![c] = @ + 1]
  /\ copier' = [copier EXCEPT ![c][d] = [@ EXCEPT !.pc = "ended"]]
  /\ UNCHANGED <<sem, pc, ends>>

(* CloseWrite, whatever the reason, and a message that may have to wait.   *)
Tell(c, d) ==
  /\ copier[c][d].pc = "telling"
  /\ done[c] < DoneCap
  /\ done' = [done EXCEPT ![c] = @ + 1]
  /\ copier' = [copier EXCEPT ![c][d] = [@ EXCEPT !.pc = "ended"]]
  /\ UNCHANGED <<sem, pc, ends>>

-----------------------------------------------------------------------------
(* The two ends, and time.                                                 *)

Send(c, d) ==
  /\ pc[c] = "relay" /\ ~ends[c][d].eof /\ ends[c][d].sent < Chunks[c]
  /\ ends' = [ends EXCEPT ![c][d] = [@ EXCEPT !.sent = ends[c][d].sent + 1]]
  /\ UNCHANGED <<sem, pc, copier, done>>

ShutDown(c, d) ==
  /\ pc[c] = "relay" /\ ~ends[c][d].eof /\ Chunks[c] > 0
  /\ ends' = [ends EXCEPT ![c][d] = [@ EXCEPT !.eof = TRUE]]
  /\ UNCHANGED <<sem, pc, copier, done>>

(* A tick passes; copying takes far less than idle_timeout, and a deadline *)
(* that has passed wakes its reader before the next tick.                  *)
CopyFasterThanIdle ==
  \A c \in Conns, d \in Dirs :
     pc[c] = "relay" /\ copier[c][d].pc = "copying"
       => ~Pending(c, d) /\ ~ends[c][d].eof /\ copier[c][d].quiet < Idle

Tick ==
  /\ Idle > 0
  /\ \E c \in Conns : pc[c] = "relay"
  /\ CopyFasterThanIdle
  /\ copier' = [c \in Conns |-> [d \in Dirs |->
                  IF pc[c] = "relay" /\ copier[c][d].pc = "copying"
                    THEN [copier[c][d] EXCEPT !.quiet = @ + 1] ELSE copier[c][d]]]
  /\ UNCHANGED <<sem, pc, ends, done>>

Copier(c, d) == Copy(c, d) \/ SeeEof(c, d) \/ TimeOut(c, d) \/ Tell(c, d)
Handler(c) == HandshakeOk(c) \/ GiveUp(c) \/ DialOk(c) \/ Reply(c) \/ HandlerDone(c)

Next ==
  \/ \E c \in Conns : Take(c) \/ Refuse(c) \/ Handler(c)
  \/ \E c \in Conns, d \in Dirs : Copier(c, d) \/ Fail(c, d) \/ Send(c, d) \/ ShutDown(c, d)
  \/ Tick

Spec == Init /\ [][Next]_vars

(* Goroutines that can run do, deadlines and timeouts fire, a Read on a    *)
(* closed socket returns; the two ends need not send or close.             *)
FairSpec ==
  /\ Spec
  /\ \A c \in Conns : WF_vars(Handler(c))
  /\ \A c \in Conns, d \in Dirs : WF_vars(Copier(c, d)) /\ WF_vars(pc[c] = "closed" /\ Fail(c, d))

-----------------------------------------------------------------------------
(* Properties.                                                             *)

Copiers == [pc : {"off", "copying", "telling", "ended"}, got : Nat, quiet : Nat,
            why : {"none", "eof", "error", "idle"}]

(* Counters and program counters are in range; the done channel never      *)
(* holds more than its capacity.                                           *)
TypeOK ==
  /\ sem \subseteq Conns
  /\ pc \in [Conns -> {"none", "handshake", "dial", "reply", "relay", "closed"}]
  /\ done \in [Conns -> 0 .. DoneCap]
  /\ ends \in [Conns -> [Dirs -> [sent : Nat, eof : BOOLEAN]]]
  /\ copier \in [Conns -> [Dirs -> Copiers]]
  /\ \A c \in Conns, d \in Dirs :
       /\ ends[c][d].sent <= Chunks[c]
       /\ copier[c][d].got <= ends[c][d].sent
       /\ copier[c][d].quiet <= Idle

(* Exactly the connections being served hold a slot, and never more than   *)
(* max_conns: every early return gives its slot back, a refusal none.      *)
SlotsExact ==
  /\ sem = {c \in Conns : pc[c] \notin {"none", "closed"}}
  /\ Cardinality(sem) <= MaxConns

(* The relay closes both sockets only after one stream ended whole, with   *)
(* everything its source sent delivered, or failed, or sat idle.           *)
EndedWhole ==
  \A c \in Conns :
     pc[c] = "closed" /\ (\E d \in Dirs : copier[c][d].pc # "off") =>
        \E d \in Dirs : /\ copier[c][d].pc = "ended"
                        /\ copier[c][d].why = "eof" => ~Pending(c, d)

(* When one stream ends, the handler ends and so do both goroutines: none  *)
(* is left waiting on a channel nobody reads.                              *)
GoroutinesEnd ==
  \A c \in Conns, d \in Dirs :
     copier[c][d].pc = "telling"
       ~> pc[c] = "closed" /\ \A e \in Dirs : copier[c][e].pc = "ended"

(* idle_timeout cuts connections that are idle: nothing moved either way   *)
(* for that long.                                                          *)
OnlyIdleCut ==
  [][\A c \in Conns, d \in Dirs :
       copier'[c][d].why = "idle" /\ copier[c][d].why # "idle"
         => copier[c][Other(d)].quiet >= Idle \/ copier[c][Other(d)].pc # "copying"]_vars
=============================================================================
