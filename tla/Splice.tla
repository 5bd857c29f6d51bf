------------------------------- MODULE Splice -------------------------------
(***************************************************************************)
(* A TCP flow end to end: a socket spliced onto each of the two ends of an *)
(* edge connection.  Each end runs `splice` (tunnel/proxy.rs) or           *)
(* `splice_until_killed` (tunnel/intercept/splice_kill.rs) over the read   *)
(* and write halves of its EdgeConn (edge/data/conn.rs): two pumps under   *)
(* one join!, so that another pump runs only while one awaits.             *)
(*                                                                         *)
(* A chunk is one read of the socket, numbered; a frame is what one write  *)
(* puts on the channel.  `log` is everything an end has written; its peer  *)
(* reads it in order (see EdgeChannel for the multiplexer in between).     *)
(***************************************************************************)
EXTENDS Naturals, Sequences, FiniteSets

CONSTANTS
  Encrypted,  \* BOOLEAN: the service requires end-to-end encryption
  Headerless, \* the ends whose stream header may never come
  Killable,   \* the ends that run splice_until_killed
  SocketErrs, \* the ends whose socket may fail
  Stuck,      \* the ends whose client may stop reading its socket
  Stalls,     \* the ends whose channel may stop taking writes
  MayLose,    \* BOOLEAN: the channel may die
  MaxChunks   \* bound: chunks read from each socket

Ends == {"dialer", "host"}
Peer(e) == IF e = "dialer" THEN "host" ELSE "dialer"

ASSUME SpliceAssumption ==
  /\ Encrypted \in BOOLEAN /\ MayLose \in BOOLEAN
  /\ Headerless \subseteq Ends /\ Killable \subseteq Ends /\ SocketErrs \subseteq Ends
  /\ Stuck \subseteq Ends /\ Stalls \subseteq Ends
  /\ MaxChunks \in Nat

VARIABLES
  s2z,      \* where the socket-to-ziti pump is
  z2s,      \* where the ziti-to-socket pump is
  ending,   \* where the full close after the join! is
  sentFin,  \* EdgeConn's shared sent_fin
  rxKey,    \* ReadCrypto.rx_key: the peer's stream header is still due
  taken,    \* chunks read from the socket
  hand,     \* the chunk z2s holds, 0 if none
  got,      \* chunks written to the socket
  readEnd,  \* why the read half stopped
  killed,   \* the flow's CancellationToken
  drains,   \* the ends whose client reads its socket to the end
  stalled,  \* the ends in a write that their channel neither takes nor fails
  log,      \* frames the end has written
  next,     \* how many of the peer's frames it has received
  up        \* the channel is alive

pumps == <<s2z, z2s, ending>>
vars  == <<pumps, sentFin, rxKey, taken, hand, got, readEnd, killed, drains, stalled, log, next, up>>

Header == [kind |-> "header", n |-> 0]
Data(n) == [kind |-> "data", n |-> n]
Fin == [kind |-> "fin", n |-> 0]
StateClosed == [kind |-> "closed", n |-> 0]
Frames == {Header, Fin, StateClosed} \cup {Data(n) : n \in 1..MaxChunks}

TypeOK ==
  /\ s2z \in [Ends -> {"read", "lock", "closewrite", "finlock", "done"}]
  /\ z2s \in [Ends -> {"read", "write", "shutdown", "done"}]
  /\ ending \in [Ends -> {"join", "lock", "closed"}]
  /\ sentFin \in [Ends -> BOOLEAN] /\ rxKey \in [Ends -> BOOLEAN]
  /\ taken \in [Ends -> 0..MaxChunks] /\ hand \in [Ends -> 0..MaxChunks]
  /\ got \in [Ends -> Seq(1..MaxChunks)]
  /\ readEnd \in [Ends -> {"none", "fin", "closed", "eof", "crypto"}]
  /\ killed \in [Ends -> BOOLEAN] /\ drains \subseteq Ends /\ stalled \subseteq Ends
  /\ log \in [Ends -> Seq(Frames)] /\ next \in [Ends -> Nat]
  /\ up \in BOOLEAN
  /\ \A e \in Ends : /\ z2s[e] = "write" <=> hand[e] # 0
                     /\ next[e] <= Len(log[Peer(e)])

\* Both EdgeConns exist: dial and complete_success have each sent the stream
\* header of an encrypted conn, unless the peer does not keep to the protocol.
Init ==
  /\ s2z = [e \in Ends |-> "read"] /\ z2s = [e \in Ends |-> "read"]
  /\ ending = [e \in Ends |-> "join"]
  /\ sentFin = [e \in Ends |-> FALSE] /\ rxKey = [e \in Ends |-> Encrypted]
  /\ taken = [e \in Ends |-> 0] /\ hand = [e \in Ends |-> 0]
  /\ got = [e \in Ends |-> <<>>]
  /\ readEnd = [e \in Ends |-> "none"]
  /\ killed = [e \in Ends |-> FALSE]
  /\ drains \in {Ends \ S : S \in SUBSET Stuck} /\ stalled = {}
  /\ \E lost \in SUBSET Headerless :
       log = [e \in Ends |-> IF Encrypted /\ e \notin lost THEN <<Header>> ELSE <<>>]
  /\ next = [e \in Ends |-> 0]
  /\ up = TRUE

----------------------------------------------------------------------------
(* pump_sock_to_ziti, then close_write.                                    *)

\* EdgeWriteHalf::write looks at sent_fin and then awaits the channel's lock.
ReadSocket(e) ==
  /\ s2z[e] = "read" /\ ~killed[e] /\ taken[e] < MaxChunks
  /\ taken' = [taken EXCEPT ![e] = @ + 1]
  /\ s2z' = [s2z EXCEPT ![e] = IF sentFin[e] THEN "closewrite" ELSE "lock"]
  /\ UNCHANGED <<z2s, ending, sentFin, rxKey, hand, got, readEnd, killed, drains, stalled, log, next, up>>

\* The socket's EOF, or its error: either way the write side is half-closed.
SocketEnds(e) ==
  /\ s2z[e] = "read" /\ ~killed[e]
  /\ s2z' = [s2z EXCEPT ![e] = "closewrite"]
  /\ UNCHANGED <<z2s, ending, sentFin, rxKey, taken, hand, got, readEnd, killed, drains, stalled, log, next, up>>

\* A write waits for the channel's lock and then for its transport, unbounded;
\* neither the kill nor the teardown reaches it.
WriteData(e) ==
  /\ s2z[e] = "lock" /\ e \notin stalled
  /\ IF up THEN log' = [log EXCEPT ![e] = Append(@, Data(taken[e]))] ELSE UNCHANGED log
  /\ s2z' = [s2z EXCEPT ![e] = IF up THEN "read" ELSE "closewrite"]
  /\ UNCHANGED <<z2s, ending, sentFin, rxKey, taken, hand, got, readEnd, killed, drains, stalled, next, up>>

\* Fault: the write side is marked closed but no FIN goes out.
CloseWriteSilent(e) ==
  /\ s2z[e] = "closewrite"
  /\ sentFin' = [sentFin EXCEPT ![e] = TRUE]
  /\ s2z' = [s2z EXCEPT ![e] = "done"]
  /\ UNCHANGED <<z2s, ending, rxKey, taken, hand, got, readEnd, killed, drains, stalled, log, next, up>>

\* close_write: a compare-exchange on sent_fin, then the FIN.
CloseWrite(e) ==
  /\ s2z[e] = "closewrite"
  /\ sentFin' = [sentFin EXCEPT ![e] = TRUE]
  /\ s2z' = [s2z EXCEPT ![e] = IF sentFin[e] THEN "done" ELSE "finlock"]
  /\ UNCHANGED <<z2s, ending, rxKey, taken, hand, got, readEnd, killed, drains, stalled, log, next, up>>

WriteFin(e) ==
  /\ s2z[e] = "finlock" /\ e \notin stalled
  /\ IF up THEN log' = [log EXCEPT ![e] = Append(@, Fin)] ELSE UNCHANGED log
  /\ s2z' = [s2z EXCEPT ![e] = "done"]
  /\ UNCHANGED <<z2s, ending, sentFin, rxKey, taken, hand, got, readEnd, killed, drains, stalled, next, up>>

\* Fault: the kill drops a pending write and half-closes as if at EOF.
KillSocketToZitiWithFin(e) ==
  /\ s2z[e] \in {"read", "lock"} /\ killed[e]
  /\ s2z' = [s2z EXCEPT ![e] = "closewrite"]
  /\ UNCHANGED <<z2s, ending, sentFin, rxKey, taken, hand, got, readEnd, killed, drains, stalled, log, next, up>>

\* The kill is looked at only while waiting for the socket; no FIN follows.
KillSocketToZiti(e) ==
  /\ s2z[e] = "read" /\ killed[e]
  /\ s2z' = [s2z EXCEPT ![e] = "done"]
  /\ UNCHANGED <<z2s, ending, sentFin, rxKey, taken, hand, got, readEnd, killed, drains, stalled, log, next, up>>

----------------------------------------------------------------------------
(* pump_ziti_to_sock over EdgeReadHalf::read, then the socket's shutdown.  *)

Inbound(e) == next[e] < Len(log[Peer(e)])

\* The read half returns None or an error: the pump is over.
StopReading(e, why) ==
  /\ readEnd' = [readEnd EXCEPT ![e] = why]
  /\ z2s' = [z2s EXCEPT ![e] = "shutdown"]

\* Fault: a FIN, too, closes our write side.
ClosesWriteAtFin(f) == f.kind \in {"closed", "fin"}

\* A StateClosed means that the conn is dead; a FIN is for one direction only.
ClosesWrite(f) == f.kind = "closed"

\* One frame of the read loop: the stream header an encrypted conn starts
\* with, data, a FIN, or a StateClosed.
Read(e) ==
  /\ z2s[e] = "read" /\ ~killed[e] /\ Inbound(e)
  /\ next' = [next EXCEPT ![e] = @ + 1]
  /\ LET f == log[Peer(e)][next[e] + 1] IN
       /\ sentFin' = [sentFin EXCEPT ![e] = @ \/ ClosesWrite(f)]
       /\ \/ /\ f.kind = "closed" /\ StopReading(e, "closed")
             /\ UNCHANGED <<rxKey, hand>>
          \/ /\ f.kind = "header"
             /\ rxKey' = [rxKey EXCEPT ![e] = FALSE]
             /\ UNCHANGED <<z2s, hand, readEnd>>
          \/ /\ f.kind \in {"data", "fin"} /\ rxKey[e] /\ StopReading(e, "crypto")
             /\ UNCHANGED <<rxKey, hand>>
          \/ /\ f.kind = "fin" /\ ~rxKey[e] /\ StopReading(e, "fin")
             /\ UNCHANGED <<rxKey, hand>>
          \/ /\ f.kind = "data" /\ ~rxKey[e]
             /\ hand' = [hand EXCEPT ![e] = f.n]
             /\ z2s' = [z2s EXCEPT ![e] = "write"]
             /\ UNCHANGED <<rxKey, readEnd>>
  /\ UNCHANGED <<s2z, ending, taken, got, killed, drains, stalled, log, up>>

\* The channel is closed and the queue drained: recv returns None.  What the
\* channel had not yet delivered to the queue is lost.
ReadEof(e) ==
  /\ z2s[e] = "read" /\ ~killed[e] /\ ~up
  /\ StopReading(e, "eof")
  /\ UNCHANGED <<s2z, ending, sentFin, rxKey, taken, hand, got, killed, drains, stalled, log, next, up>>

WriteSocket(e) ==
  /\ z2s[e] = "write" /\ ~killed[e]
  /\ got' = [got EXCEPT ![e] = Append(@, hand[e])]
  /\ hand' = [hand EXCEPT ![e] = 0]
  /\ z2s' = [z2s EXCEPT ![e] = "read"]
  /\ UNCHANGED <<s2z, ending, sentFin, rxKey, taken, readEnd, killed, drains, stalled, log, next, up>>

\* write_all fails: the pump is over, the other direction goes on.
WriteSocketErr(e) ==
  /\ e \in SocketErrs /\ z2s[e] = "write" /\ ~killed[e]
  /\ hand' = [hand EXCEPT ![e] = 0]
  /\ z2s' = [z2s EXCEPT ![e] = "shutdown"]
  /\ UNCHANGED <<s2z, ending, sentFin, rxKey, taken, got, readEnd, killed, drains, stalled, log, next, up>>

ShutdownSocket(e) ==
  /\ z2s[e] = "shutdown"
  /\ z2s' = [z2s EXCEPT ![e] = "done"]
  /\ UNCHANGED <<s2z, ending, sentFin, rxKey, taken, hand, got, readEnd, killed, drains, stalled, log, next, up>>

\* Fault: the kill is not watched while the pump waits for the peer.
KillZitiToSocketLate(e) ==
  /\ z2s[e] = "write" /\ killed[e]
  /\ hand' = [hand EXCEPT ![e] = 0]
  /\ z2s' = [z2s EXCEPT ![e] = "done"]
  /\ UNCHANGED <<s2z, ending, sentFin, rxKey, taken, got, readEnd, killed, drains, stalled, log, next, up>>

\* The kill preempts both the wait for the peer and the write to the socket.
KillZitiToSocket(e) ==
  /\ z2s[e] \in {"read", "write"} /\ killed[e]
  /\ hand' = [hand EXCEPT ![e] = 0]
  /\ z2s' = [z2s EXCEPT ![e] = "done"]
  /\ UNCHANGED <<s2z, ending, sentFin, rxKey, taken, got, readEnd, killed, drains, stalled, log, next, up>>

----------------------------------------------------------------------------
(* EdgeWriteHalf::close, once both pumps are done.                         *)

Close(e) ==
  /\ s2z[e] = "done" /\ z2s[e] = "done" /\ ending[e] = "join"
  /\ sentFin' = [sentFin EXCEPT ![e] = TRUE]
  /\ ending' = [ending EXCEPT ![e] = "lock"]
  /\ UNCHANGED <<s2z, z2s, rxKey, taken, hand, got, readEnd, killed, drains, stalled, log, next, up>>

WriteStateClosed(e) ==
  /\ ending[e] = "lock" /\ e \notin stalled
  /\ IF up THEN log' = [log EXCEPT ![e] = Append(@, StateClosed)] ELSE UNCHANGED log
  /\ ending' = [ending EXCEPT ![e] = "closed"]
  /\ UNCHANGED <<s2z, z2s, sentFin, rxKey, taken, hand, got, readEnd, killed, drains, stalled, next, up>>

(* The flow's owner, and the channel.                                      *)

Kill(e) ==
  /\ e \in Killable /\ ~killed[e] /\ ending[e] # "closed"
  /\ killed' = [killed EXCEPT ![e] = TRUE]
  /\ UNCHANGED <<pumps, sentFin, rxKey, taken, hand, got, readEnd, drains, stalled, log, next, up>>

ChannelDies ==
  /\ MayLose /\ up
  /\ up' = FALSE
  /\ UNCHANGED <<pumps, sentFin, rxKey, taken, hand, got, readEnd, killed, drains, stalled, log, next>>

Writing(e) == s2z[e] \in {"lock", "finlock"} \/ ending[e] = "lock"

\* The other side of the transport stops reading, and a write in flight, or
\* queued on the channel's lock behind one, stays where it is for good.  (A
\* stall that passes is a write that takes its time.)
Stall(e) ==
  /\ e \in Stalls \ stalled /\ Writing(e)
  /\ stalled' = stalled \cup {e}
  /\ UNCHANGED <<pumps, sentFin, rxKey, taken, hand, got, readEnd, killed, drains, log, next, up>>

----------------------------------------------------------------------------
SocketToZiti(e) == WriteData(e) \/ CloseWrite(e) \/ WriteFin(e) \/ KillSocketToZiti(e)
ZitiToSocket(e) == \/ Read(e) \/ ReadEof(e) \/ ShutdownSocket(e) \/ KillZitiToSocket(e)
FullClose(e) == Close(e) \/ WriteStateClosed(e)

Done == \A e \in Ends : ending[e] = "closed"

Next == \/ \E e \in Ends : \/ ReadSocket(e) \/ SocketEnds(e) \/ SocketToZiti(e)
                           \/ ZitiToSocket(e) \/ WriteSocket(e) \/ WriteSocketErr(e)
                           \/ FullClose(e) \/ Kill(e) \/ Stall(e)
        \/ ChannelDies
        \/ (Done \/ stalled # {}) /\ UNCHANGED vars

Spec == Init /\ [][Next]_vars

\* A pump that can go on is polled.  A socket is not obliged to say anything,
\* nor, unless its client drains it, to take what is written to it; a channel
\* that is not stalled takes its writes or fails them.
FairSpec ==
  /\ Spec
  /\ \A e \in Ends : WF_vars(SocketToZiti(e)) /\ WF_vars(ZitiToSocket(e)) /\ WF_vars(FullClose(e))
  /\ \A e \in Ends : WF_vars(e \in drains /\ WriteSocket(e))

----------------------------------------------------------------------------
(* Safety.                                                                 *)

\* The stream towards an end has ended cleanly if its read half stopped at a
\* FIN, and was cut if its pump stopped for any other reason.
Ended(e) == IF readEnd[e] = "fin" THEN "clean"
            ELSE IF z2s[e] \in {"shutdown", "done"} THEN "cut" ELSE "no"

Abstract == INSTANCE Pipe WITH
  sent <- taken, delivered <- got, ended <- [e \in Ends |-> Ended(e)]

\* Two sockets spliced onto a conn are joined by a Pipe, whatever the kills,
\* socket errors, missing headers and channel loss: in order and gap-free, a FIN
\* only after everything the other socket sent, and no bytes after an end.
ImplementsPipe == Abstract!Spec

\* What reaches a socket is a gap-free prefix of what the other socket sent,
\* in order, whatever the kills, socket errors and channel loss.
InOrder == \A e \in Ends : /\ got[e] = [i \in 1..Len(got[e]) |-> i]
                           /\ Len(got[e]) <= taken[Peer(e)]

\* A read half that stopped at a FIN has passed on every chunk that the other
\* end's socket sent: the FIN follows all its data, and no chunk is taken from
\* the socket and dropped before a FIN that goes out.
FinMeansAll ==
  \A e \in Ends : readEnd[e] = "fin" => Len(got[e]) = taken[Peer(e)]

\* Half-close is per direction: if both read halves came to their end, neither
\* flow was killed and the channel lives, then everything that either socket sent
\* has arrived when both ends are closed, even if one direction ended long before
\* the other.  (A read half whose socket fails stops before its end.)
BothWaysComplete ==
  Done /\ up /\ (\A e \in Ends : ~killed[e] /\ readEnd[e] \in {"fin", "closed"})
    => \A e \in Ends : Len(got[e]) = taken[Peer(e)]

\* What an end writes is a stream header if encrypted, data, at most one FIN
\* and at most one StateClosed, in this order: neither the write side closed by
\* the reader nor a kill puts a frame after the one that ends the stream.
Rank(f) == CASE f.kind = "header" -> 0 [] f.kind = "data" -> 1
             [] f.kind = "fin" -> 2 [] f.kind = "closed" -> 3
WireGrammar ==
  \A e \in Ends : \A i, j \in DOMAIN log[e] :
    i < j => Rank(log[e][i]) <= Rank(log[e][j]) /\ log[e][i] # log[e][j]

(* Liveness, under FairSpec.                                               *)

\* Once both sockets have ended their input, both conns are fully closed: each
\* client reads its socket to the end or has its flow killed.  Only a channel that
\* takes no more writes keeps the flow, in the write of that end.
SpliceEnds ==
  /\ \A e \in Ends : s2z[e] \notin {"read", "lock"}
  /\ \A e \in Ends : e \in drains \/ killed[e]
  ~> Done \/ stalled # {}

\* A killed flow waits neither for its socket, even if its client has stopped
\* reading, nor for its peer: it ends, or is left in a write of its own that its
\* channel never takes, the one wait that the kill does not preempt.
KillEnds == \A e \in Ends : killed[e] ~> ending[e] = "closed" \/ e \in stalled
=============================================================================
