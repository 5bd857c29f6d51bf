------------------------------ MODULE UdpRelay ------------------------------
(***************************************************************************)
(* UDP over edge connections: tunnel/udp, and its twin for the intercept   *)
(* (tunnel/intercept/udp), whose flows can be killed.  The loop maps each  *)
(* source to a virtual connection (vconn) with a queue of datagrams; the   *)
(* vconn's task connects, and then runs two pumps under one join!.  All of *)
(* it is on one thread.  Vconns are numbered as they are created.          *)
(***************************************************************************)
EXTENDS Naturals, Sequences, FiniteSets

CONSTANTS
  Sources,      \* keys of the map: a source, or a source and a destination
  Depth,        \* VCONN_QUEUE_DEPTH
  MaxVconns,    \* bound: vconns created
  MaxDatagrams, \* bound: datagrams received
  Killable      \* BOOLEAN: the twin of the intercept

Vconns == 1..MaxVconns
None == 0

ASSUME UdpAssumption ==
  /\ Depth \in Nat \ {0} /\ MaxVconns \in Nat /\ MaxDatagrams \in Nat /\ Killable \in BOOLEAN

VARIABLES
  conns,    \* the map
  created,  \* how many vconns there are
  datagrams,\* how many datagrams have come
  queue,    \* in_tx and in_rx
  u2z,      \* where pump_udp_to_ziti is
  z2u,      \* where pump_ziti_to_udp is
  hand,     \* the datagram u2z is writing
  snapshot, \* how many are still to be drained
  closed,   \* the flag that the loop looks at
  done,     \* the signal between the pumps
  killed,   \* the flow's CancellationToken
  conn,     \* the edge connection
  accepted, \* history: the datagrams that were put into the queue
  written,  \* the datagrams that were written to the connection
  failed,   \* history: the vconns whose connect or write failed
  stalled   \* the vconns in a write that the channel neither takes nor fails

pumps == <<u2z, z2u, hand, snapshot>>
flags == <<closed, done, killed>>
vars == <<conns, created, datagrams, queue, pumps, flags, conn, accepted, written, failed, stalled>>

U2z == {"none", "connect", "recv", "write", "drain", "drainwrite", "returned"}
Z2u == {"none", "read", "send", "returned"}

TypeOK ==
  /\ conns \in [Sources -> Vconns \cup {None}] /\ created \in 0..MaxVconns
  /\ datagrams \in 0..MaxDatagrams
  /\ queue \in [Vconns -> Seq(1..MaxDatagrams)] /\ \A v \in Vconns : Len(queue[v]) <= Depth
  /\ u2z \in [Vconns -> U2z] /\ z2u \in [Vconns -> Z2u]
  /\ hand \in [Vconns -> 0..MaxDatagrams] /\ snapshot \in [Vconns -> 0..Depth]
  /\ closed \in [Vconns -> BOOLEAN] /\ done \in [Vconns -> BOOLEAN] /\ killed \in [Vconns -> BOOLEAN]
  /\ conn \in [Vconns -> {"none", "open", "closed"}]
  /\ accepted \in [Vconns -> Seq(1..MaxDatagrams)] /\ written \in [Vconns -> Seq(1..MaxDatagrams)]
  /\ failed \subseteq Vconns /\ stalled \subseteq Vconns

Init ==
  /\ conns = [s \in Sources |-> None] /\ created = 0 /\ datagrams = 0
  /\ queue = [v \in Vconns |-> <<>>]
  /\ u2z = [v \in Vconns |-> "none"] /\ z2u = [v \in Vconns |-> "none"]
  /\ hand = [v \in Vconns |-> 0] /\ snapshot = [v \in Vconns |-> 0]
  /\ closed = [v \in Vconns |-> FALSE] /\ done = [v \in Vconns |-> FALSE]
  /\ killed = [v \in Vconns |-> FALSE]
  /\ conn = [v \in Vconns |-> "none"]
  /\ accepted = [v \in Vconns |-> <<>>] /\ written = [v \in Vconns |-> <<>>]
  /\ failed = {} /\ stalled = {}

Set(f, v, x) == [f EXCEPT ![v] = x]
Enqueue(f, v, d) == [f EXCEPT ![v] = Append(@, d)]

----------------------------------------------------------------------------
(* The loop: route_datagram and drop_expired.                              *)

\* route_decision: a vconn that is closed is not delivered to.
Deliverable(s) == conns[s] # None /\ ~closed[conns[s]]

\* deliver: a full queue drops the datagram.
Deliver(s) ==
  /\ Deliverable(s) /\ datagrams < MaxDatagrams
  /\ datagrams' = datagrams + 1
  /\ LET v == conns[s] IN
       IF Len(queue[v]) < Depth
       THEN queue' = Enqueue(queue, v, datagrams') /\ accepted' = Enqueue(accepted, v, datagrams')
       ELSE UNCHANGED <<queue, accepted>>
  /\ UNCHANGED <<conns, created, pumps, flags, conn, written, failed, stalled>>

\* create_vconn: the datagram is queued before the task is spawned.
Create(s) ==
  /\ ~Deliverable(s) /\ datagrams < MaxDatagrams /\ created < MaxVconns
  /\ datagrams' = datagrams + 1 /\ created' = created + 1
  /\ conns' = Set(conns, s, created')
  /\ queue' = Enqueue(queue, created', datagrams')
  /\ accepted' = Enqueue(accepted, created', datagrams')
  /\ u2z' = Set(u2z, created', "connect")
  /\ UNCHANGED <<z2u, hand, snapshot, flags, conn, written, failed, stalled>>

\* No service intercepts the destination any more.
Unmatched(s) ==
  /\ Killable /\ ~Deliverable(s) /\ datagrams < MaxDatagrams
  /\ datagrams' = datagrams + 1
  /\ conns' = Set(conns, s, None)
  /\ UNCHANGED <<created, queue, pumps, flags, conn, accepted, written, failed, stalled>>

\* drop_expired: what is closed goes, and what was not used for long enough.
DropExpired ==
  /\ \E idle \in SUBSET Sources :
       conns' = [s \in Sources |-> IF Deliverable(s) /\ s \notin idle THEN conns[s] ELSE None]
  /\ UNCHANGED <<created, datagrams, queue, pumps, flags, conn, accepted, written, failed, stalled>>

----------------------------------------------------------------------------
(* run_vconn and drive_vconn.                                              *)

Connected(v) ==
  /\ u2z[v] = "connect" /\ v \notin stalled
  /\ u2z' = Set(u2z, v, "recv") /\ z2u' = Set(z2u, v, "read")
  /\ conn' = Set(conn, v, "open")
  /\ UNCHANGED <<conns, created, datagrams, queue, hand, snapshot, flags, accepted, written, failed, stalled>>

\* Fault: a connect that fails does not tell the loop.
ConnectErrSilent(v) ==
  /\ u2z[v] = "connect"
  /\ u2z' = Set(u2z, v, "returned") /\ z2u' = Set(z2u, v, "returned")
  /\ queue' = Set(queue, v, <<>>) /\ failed' = failed \cup {v}
  /\ UNCHANGED <<conns, created, datagrams, hand, snapshot, flags, conn, accepted, written, stalled>>

ConnectErr(v) ==
  /\ u2z[v] = "connect" /\ v \notin stalled
  /\ u2z' = Set(u2z, v, "returned") /\ z2u' = Set(z2u, v, "returned")
  /\ closed' = Set(closed, v, TRUE)
  /\ queue' = Set(queue, v, <<>>) /\ failed' = failed \cup {v}
  /\ UNCHANGED <<conns, created, datagrams, hand, snapshot, done, killed, conn, accepted, written, stalled>>

MarkClosed(v) == closed' = Set(closed, v, TRUE) /\ done' = Set(done, v, TRUE)

ReturnU2z(v) == u2z' = Set(u2z, v, "returned") /\ MarkClosed(v)
ReturnZ2u(v) == z2u' = Set(z2u, v, "returned") /\ MarkClosed(v)

\* The in_tx in the map is the only one.
SenderGone(v) == \A s \in Sources : conns[s] # v

\* pump_udp_to_ziti: a kill, the other pump's end, and the queue, in this order.
Recv(v) ==
  /\ u2z[v] = "recv"
  /\ \/ /\ killed[v] /\ ReturnU2z(v) /\ UNCHANGED <<queue, hand, snapshot>>
     \/ /\ ~killed[v] /\ done[v]
        /\ u2z' = Set(u2z, v, "drain") /\ snapshot' = Set(snapshot, v, Len(queue[v]))
        /\ UNCHANGED <<queue, hand, closed, done>>
     \/ /\ ~killed[v] /\ ~done[v] /\ queue[v] # <<>>
        /\ u2z' = Set(u2z, v, "write")
        /\ hand' = Set(hand, v, Head(queue[v])) /\ queue' = Set(queue, v, Tail(queue[v]))
        /\ UNCHANGED <<snapshot, closed, done>>
     \/ /\ ~killed[v] /\ ~done[v] /\ queue[v] = <<>> /\ SenderGone(v)
        /\ ReturnU2z(v) /\ UNCHANGED <<queue, hand, snapshot>>
  /\ UNCHANGED <<conns, created, datagrams, z2u, killed, conn, accepted, written, failed, stalled>>

\* The write is not raced against anything: it ends, or fails, or is stalled.
Write(v) ==
  /\ u2z[v] \in {"write", "drainwrite"} /\ v \notin stalled
  /\ written' = Enqueue(written, v, hand[v]) /\ hand' = Set(hand, v, 0)
  /\ u2z' = Set(u2z, v, IF u2z[v] = "write" THEN "recv" ELSE "drain")
  /\ UNCHANGED <<conns, created, datagrams, queue, z2u, snapshot, flags, conn, accepted, failed, stalled>>

WriteErr(v) ==
  /\ u2z[v] \in {"write", "drainwrite"} /\ v \notin stalled
  /\ hand' = Set(hand, v, 0) /\ failed' = failed \cup {v}
  /\ ReturnU2z(v)
  /\ UNCHANGED <<conns, created, datagrams, queue, z2u, snapshot, killed, conn, accepted, written, stalled>>

\* Fault: the other pump's end is the end, whatever is queued.
DrainNothing(v) ==
  /\ u2z[v] = "drain"
  /\ ReturnU2z(v) /\ UNCHANGED <<queue, hand, snapshot>>
  /\ UNCHANGED <<conns, created, datagrams, z2u, killed, conn, accepted, written, failed, stalled>>

\* drain_queued_to_ziti: as many as were queued when it began.
Drain(v) ==
  /\ u2z[v] = "drain"
  /\ \/ (snapshot[v] = 0 \/ killed[v]) /\ ReturnU2z(v) /\ UNCHANGED <<queue, hand, snapshot>>
     \/ /\ snapshot[v] > 0 /\ ~killed[v]
        /\ snapshot' = Set(snapshot, v, snapshot[v] - 1)
        /\ hand' = Set(hand, v, Head(queue[v])) /\ queue' = Set(queue, v, Tail(queue[v]))
        /\ u2z' = Set(u2z, v, "drainwrite") /\ UNCHANGED <<closed, done>>
  /\ UNCHANGED <<conns, created, datagrams, z2u, killed, conn, accepted, written, failed, stalled>>

\* Fault: the wait for the peer is not raced against the other pump's end.
ReadAlone(v) ==
  /\ z2u[v] \in {"read", "send"} /\ killed[v]
  /\ ReturnZ2u(v)
  /\ UNCHANGED <<conns, created, datagrams, queue, u2z, hand, snapshot, killed, conn, accepted, written, failed, stalled>>

\* pump_ziti_to_udp: a kill, or the other pump's end.
StopReading(v) ==
  /\ z2u[v] \in {"read", "send"} /\ (killed[v] \/ done[v])
  /\ ReturnZ2u(v)
  /\ UNCHANGED <<conns, created, datagrams, queue, u2z, hand, snapshot, killed, conn, accepted, written, failed, stalled>>

\* A chunk of the peer, then its pieces; or its end, or an error.
Read(v) ==
  /\ z2u[v] \in {"read", "send"} /\ ~killed[v] /\ ~done[v]
  /\ \/ z2u' = Set(z2u, v, IF z2u[v] = "read" THEN "send" ELSE "read") /\ UNCHANGED <<closed, done>>
     \/ ReturnZ2u(v)
  /\ UNCHANGED <<conns, created, datagrams, queue, u2z, hand, snapshot, killed, conn, accepted, written, failed, stalled>>

\* Both pumps are over: the connection is closed and in_rx dropped.
Close(v) ==
  /\ u2z[v] = "returned" /\ z2u[v] = "returned" /\ conn[v] = "open" /\ v \notin stalled
  /\ conn' = Set(conn, v, "closed")
  /\ queue' = Set(queue, v, <<>>)
  /\ UNCHANGED <<conns, created, datagrams, pumps, flags, accepted, written, failed, stalled>>

\* The service is withdrawn (see Intercept).
Kill(v) ==
  /\ Killable /\ v <= created /\ ~killed[v]
  /\ killed' = Set(killed, v, TRUE)
  /\ UNCHANGED <<conns, created, datagrams, queue, pumps, closed, done, conn, accepted, written, failed, stalled>>

\* The vconn's task is in the connect, in a write, or in the close, all of which
\* write to the shared channel, untimed.
Writing(v) ==
  \/ u2z[v] \in {"connect", "write", "drainwrite"}
  \/ u2z[v] = "returned" /\ z2u[v] = "returned" /\ conn[v] = "open"

\* The other side of the channel's transport stops reading: the write in flight
\* is parked for good, and a kill does not rescue it.
Stall(v) ==
  /\ v \notin stalled /\ Writing(v)
  /\ stalled' = stalled \cup {v}
  /\ UNCHANGED <<conns, created, datagrams, queue, pumps, flags, conn, accepted, written, failed>>

----------------------------------------------------------------------------
Loop == (\E s \in Sources : Deliver(s) \/ Create(s) \/ Unmatched(s)) \/ DropExpired
Dial(v) == Connected(v) \/ ConnectErr(v)
UdpToZiti(v) == Recv(v) \/ Write(v) \/ WriteErr(v) \/ Drain(v)

Next ==
  \/ Loop
  \/ \E v \in Vconns : Dial(v) \/ UdpToZiti(v) \/ StopReading(v) \/ Read(v) \/ Close(v)
                      \/ Kill(v) \/ Stall(v)

Spec == Init /\ [][Next]_vars

\* A task that can go on is polled; a connect and a write end unless the channel
\* is stalled.  Neither a source nor a peer is obliged to say anything.
FairSpec ==
  /\ Spec
  /\ \A v \in Vconns : /\ WF_vars(Dial(v)) /\ WF_vars(UdpToZiti(v))
                       /\ WF_vars(StopReading(v)) /\ WF_vars(Close(v))

----------------------------------------------------------------------------
\* pump.rs: a datagram that was queued is written, in order, before the
\* connection is closed, though the peer may have ended the flow, or the loop
\* given it up, with datagrams still in the queue: unless the flow was killed, or
\* its connect or a write failed.
Relayed ==
  \A v \in Vconns : conn[v] = "closed" /\ v \notin failed /\ ~killed[v] => written[v] = accepted[v]

\* flow.rs: the loop never delivers to a vconn that no longer takes anything out
\* of its queue.
NoBlackHole == \A s \in Sources : Deliverable(s) => u2z[conns[s]] # "returned"

\* A vconn that was killed, whose peer ended it, or that the loop gave up, comes
\* to an end and its connection is closed: neither pump waits for ever for its
\* queue, its peer or the other pump.  It is left over only in a write that the
\* channel never takes (pump.rs: the kill does not rescue a write in flight).
VconnEnds ==
  \A v \in Vconns :
    v <= created /\ (killed[v] \/ closed[v] \/ SenderGone(v))
      ~> conn[v] = "closed" \/ (v \in failed /\ conn[v] = "none") \/ v \in stalled
=============================================================================
