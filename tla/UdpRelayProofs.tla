--------------------------- MODULE UdpRelayProofs ---------------------------
(***************************************************************************)
(* For any number of sources, vconns and datagrams, and any depth of the   *)
(* queues: a datagram that was queued is written, in order, before its     *)
(* connection is closed, and the loop never delivers to a vconn that has   *)
(* stopped.  The argument: a vconn's datagrams are the written ones, the   *)
(* one in hand and the queued ones, in this order (Fifo); and from the     *)
(* moment that it drains, the flag keeps the loop from adding to what was  *)
(* counted (Stopping).                                                     *)
(***************************************************************************)
EXTENDS UdpRelay, SequenceTheorems, TLAPS

\* The datagram that u2z is writing.
InHand(v) == IF u2z[v] \in {"write", "drainwrite"} THEN <<hand[v]>> ELSE <<>>

\* A vconn that is not created yet has nothing.
Fresh(v) == v > created => /\ u2z[v] = "none" /\ conn[v] = "none"
                           /\ queue[v] = <<>> /\ accepted[v] = <<>> /\ written[v] = <<>>

\* The flag is up before a pump stops, and what is drained is all there is.
Stopping(v) ==
  /\ done[v] => closed[v]
  /\ u2z[v] \in {"drain", "drainwrite", "returned"} => closed[v]
  /\ conn[v] = "closed" => u2z[v] = "returned"
  /\ u2z[v] \in {"drain", "drainwrite"} => snapshot[v] = Len(queue[v])
  /\ u2z[v] = "returned" /\ v \notin failed /\ ~killed[v] => queue[v] = <<>>

\* Nothing is lost between the loop and the connection, and nothing overtakes.
Fifo(v) ==
  /\ u2z[v] \in {"write", "drainwrite"} => hand[v] > 0
  /\ v \notin failed /\ (conn[v] = "closed" => ~killed[v])
       => accepted[v] = written[v] \o (InHand(v) \o queue[v])

Vconn(v) == Fresh(v) /\ Stopping(v) /\ Fifo(v)
Mapped == \A s \in Sources : conns[s] <= created
Inv == Mapped /\ \A v \in Vconns : Vconn(v)

----------------------------------------------------------------------------
(* Lines of datagrams.                                                     *)

\* A datagram that is put at the end of the queue is at the end of the line.
LEMMA Joins ==
  ASSUME NEW S, NEW x \in S, NEW h \in Seq(S), NEW q \in Seq(S)
  PROVE  h \o q \in Seq(S) /\ Append(h \o q, x) = h \o Append(q, x)
<1>1. <<x>> \in Seq(S) /\ h \o q \in Seq(S)
  OBVIOUS
<1>2. Append(q, x) = q \o <<x>> /\ Append(h \o q, x) = (h \o q) \o <<x>>
  BY <1>1, AppendIsConcat
<1>3. (h \o q) \o <<x>> = h \o (q \o <<x>>)
  BY <1>1, ConcatAssociative
<1> QED
  BY <1>1, <1>2, <1>3

\* The first of the queue is taken in hand.
LEMMA Taken ==
  ASSUME NEW S, NEW w \in Seq(S), NEW q \in Seq(S), q # <<>>
  PROVE  w \o (<<>> \o q) = w \o (<<Head(q)>> \o Tail(q))
<1>1. <<>> \o q = q
  BY ConcatEmptySeq
<1>2. q = <<Head(q)>> \o Tail(q)
  OBVIOUS
<1> QED
  BY <1>1, <1>2

\* What was in hand is the last that was written.
LEMMA Sent == \A S : \A w \in Seq(S) : \A q \in Seq(S) : \A x \in S : Append(w, x) \o q = w \o (<<x>> \o q)
<1> SUFFICES ASSUME NEW S, NEW x \in S, NEW w \in Seq(S), NEW q \in Seq(S)
             PROVE  Append(w, x) \o q = w \o (<<x>> \o q)
  OBVIOUS
<1>1. <<x>> \in Seq(S) /\ Append(w, x) = w \o <<x>>
  BY AppendIsConcat
<1> QED
  BY <1>1, ConcatAssociative

\* The same of a vconn.
LEMMA SentOf ==
  ASSUME NEW v, queue[v] \in Seq(1..MaxDatagrams), written[v] \in Seq(1..MaxDatagrams), hand[v] \in 1..MaxDatagrams
  PROVE  written[v] \o (<<hand[v]>> \o queue[v]) = Append(written[v], hand[v]) \o (<<>> \o queue[v])
<1> DEFINE Ds == 1..MaxDatagrams
<1>1. queue[v] \in Seq(Ds) /\ written[v] \in Seq(Ds) /\ hand[v] \in Ds
  OBVIOUS
<1> HIDE DEF Ds
<1>2. Append(written[v], hand[v]) \o queue[v] = written[v] \o (<<hand[v]>> \o queue[v])
  BY <1>1, Sent, Zenon
<1>3. <<>> \o queue[v] = queue[v]
  BY <1>1
<1> QED
  BY <1>2, <1>3

\* Another datagram is put into one queue.
LEMMA Enqueued ==
  ASSUME NEW S, NEW f \in [Vconns -> Seq(S)], NEW v \in Vconns, NEW x \in S
  PROVE  /\ Append(f[v], x) \in Seq(S) /\ Len(Append(f[v], x)) = Len(f[v]) + 1
         /\ Enqueue(f, v, x) = Set(f, v, Append(f[v], x))
<1>1. Append(f[v], x) \in Seq(S) /\ Len(Append(f[v], x)) = Len(f[v]) + 1
  BY AppendProperties
<1> QED
  BY <1>1 DEF Enqueue, Set

\* A queue that its first datagram is taken from.
LEMMA Dequeued ==
  ASSUME NEW S, NEW q \in Seq(S), q # <<>>
  PROVE  Head(q) \in S /\ Tail(q) \in Seq(S) /\ Len(Tail(q)) = Len(q) - 1 /\ Len(q) \in Nat \ {0}
BY HeadTailProperties

----------------------------------------------------------------------------
(* Types.                                                                  *)

\* The actions, one by one.
LEMMA Steps ==
  ASSUME [Next]_vars
  PROVE  \/ \E s \in Sources : Deliver(s) \/ Create(s) \/ Unmatched(s)
         \/ DropExpired
         \/ \E v \in Vconns : \/ Connected(v) \/ ConnectErr(v) \/ Recv(v) \/ Write(v) \/ WriteErr(v)
                              \/ Drain(v) \/ StopReading(v) \/ Read(v) \/ Close(v) \/ Kill(v)
                              \/ Stall(v)
         \/ UNCHANGED vars
BY DEF Next, Loop, Dial, UdpToZiti

\* The queues keep to their depth, and hold datagrams that came.
LEMMA TypeStep == TypeOK /\ Inv /\ [Next]_vars => TypeOK'
<1> SUFFICES ASSUME TypeOK, Inv, [Next]_vars PROVE TypeOK'
  OBVIOUS
<1> USE UdpAssumption DEF pumps, flags
<1> DEFINE Ds == 1..MaxDatagrams
           Line == {q \in Seq(Ds) : Len(q) <= Depth}
<1>0. /\ queue \in [Vconns -> Line] /\ queue \in [Vconns -> Seq(Ds)]
      /\ accepted \in [Vconns -> Seq(Ds)] /\ written \in [Vconns -> Seq(Ds)]
      /\ \A v \in Vconns : queue[v] \in Line
  BY DEF TypeOK
<1>a. ASSUME queue' \in [Vconns -> Line]
      PROVE  queue' \in [Vconns -> Seq(Ds)] /\ \A v \in Vconns : Len(queue'[v]) <= Depth
  BY <1>a
<1>b. <<>> \in Line
  OBVIOUS
<1> HIDE DEF Line
<1>1. ASSUME NEW s \in Sources, Deliver(s) PROVE TypeOK'
  <2>1. conns[s] \in Vconns /\ datagrams' \in Ds /\ datagrams' \in 0..MaxDatagrams
    BY <1>1 DEF Deliver, Deliverable, TypeOK
  <2>2. queue' \in [Vconns -> Line] /\ accepted' \in [Vconns -> Seq(Ds)]
    <3>1. CASE Len(queue[conns[s]]) < Depth
      <4>1. queue' = Enqueue(queue, conns[s], datagrams') /\ accepted' = Enqueue(accepted, conns[s], datagrams')
        BY <1>1, <3>1 DEF Deliver
      <4>2. Append(queue[conns[s]], datagrams') \in Line
        BY <1>0, <2>1, <3>1, Enqueued DEF Line
      <4>3. Append(accepted[conns[s]], datagrams') \in Seq(Ds)
        BY <1>0, <2>1, Enqueued
      <4> QED
        BY <1>0, <2>1, <4>1, <4>2, <4>3 DEF Enqueue
    <3>2. CASE ~(Len(queue[conns[s]]) < Depth)
      BY <1>0, <1>1, <3>2 DEF Deliver
    <3> QED
      BY <3>1, <3>2
  <2> QED
    BY <1>1, <1>a, <2>1, <2>2 DEF Deliver, TypeOK
<1>2. ASSUME NEW s \in Sources, Create(s) PROVE TypeOK'
  <2>1. created' \in Vconns /\ datagrams' \in Ds /\ created' > created
        /\ created' \in 0..MaxVconns /\ datagrams' \in 0..MaxDatagrams
    BY <1>2 DEF Create, TypeOK, Vconns
  <2>2. queue' \in [Vconns -> Line] /\ accepted' \in [Vconns -> Seq(Ds)]
    <3>1. queue[created'] = <<>>
      BY <2>1 DEF Inv, Vconn, Fresh
    <3>2. Append(queue[created'], datagrams') \in Line
      BY <1>0, <2>1, <3>1, Enqueued DEF Line
    <3>3. queue' = Enqueue(queue, created', datagrams') /\ accepted' = Enqueue(accepted, created', datagrams')
      BY <1>2 DEF Create
    <3>4. Append(accepted[created'], datagrams') \in Seq(Ds)
      BY <1>0, <2>1, Enqueued
    <3> QED
      BY <1>0, <2>1, <3>2, <3>3, <3>4 DEF Enqueue
  <2>3. conns' \in [Sources -> Vconns \cup {None}] /\ u2z' \in [Vconns -> U2z]
    BY <1>2, <2>1 DEF Create, Set, TypeOK, U2z
  <2> QED
    BY <1>2, <1>a, <2>1, <2>2, <2>3 DEF Create, TypeOK
<1>3. ASSUME NEW s \in Sources, Unmatched(s) PROVE TypeOK'
  <2>1. datagrams' \in 0..MaxDatagrams
    BY <1>3 DEF Unmatched, TypeOK
  <2> QED
    BY <1>3, <2>1 DEF Unmatched, Set, TypeOK
<1>4. CASE DropExpired
  BY <1>4 DEF DropExpired, TypeOK
<1>5. ASSUME NEW v \in Vconns, Connected(v) PROVE TypeOK'
  BY <1>5 DEF Connected, Set, TypeOK, U2z, Z2u
<1>6. ASSUME NEW v \in Vconns, ConnectErr(v) \/ Close(v) PROVE TypeOK'
  <2>1. queue' = Set(queue, v, <<>>)
    BY <1>6 DEF ConnectErr, Close
  <2>2. queue' \in [Vconns -> Line]
    BY <1>0, <1>b, <2>1 DEF Set
  <2> QED
    BY <1>6, <1>a, <2>2 DEF ConnectErr, Close, Set, TypeOK, U2z, Z2u
<1>7. ASSUME NEW v \in Vconns, Recv(v) \/ Drain(v) PROVE TypeOK'
  <2>1. UNCHANGED <<conns, created, datagrams, z2u, killed, conn, accepted, written, failed, stalled>>
    BY <1>7 DEF Recv, Drain
  <2>2. u2z' \in [Vconns -> U2z] /\ closed' \in [Vconns -> BOOLEAN] /\ done' \in [Vconns -> BOOLEAN]
    BY <1>7 DEF Recv, Drain, ReturnU2z, MarkClosed, Set, TypeOK, U2z
  <2>3. snapshot' \in [Vconns -> 0..Depth]
    <3>1. Len(queue[v]) \in 0..Depth /\ snapshot \in [Vconns -> 0..Depth] /\ snapshot[v] \in 0..Depth
      BY <1>0 DEF Line, TypeOK
    <3>2. \/ UNCHANGED snapshot
          \/ snapshot' = Set(snapshot, v, Len(queue[v]))
          \/ snapshot[v] > 0 /\ snapshot' = Set(snapshot, v, snapshot[v] - 1)
      BY <1>7 DEF Recv, Drain
    <3>3. snapshot[v] > 0 => snapshot[v] - 1 \in 0..Depth
      BY <3>1
    <3> QED
      BY <3>1, <3>2, <3>3 DEF Set
  <2>4. \/ UNCHANGED <<queue, hand>>
        \/ queue[v] # <<>> /\ queue' = Set(queue, v, Tail(queue[v])) /\ hand' = Set(hand, v, Head(queue[v]))
    <3>1. CASE Recv(v)
      BY <3>1 DEF Recv
    <3>2. CASE Drain(v)
      <4>1. snapshot[v] > 0 => queue[v] # <<>>
        BY <3>2 DEF Drain, Inv, Vconn, Stopping
      <4> QED
        BY <3>2, <4>1 DEF Drain
    <3> QED
      BY <1>7, <3>1, <3>2
  <2>5. queue[v] # <<>> => Tail(queue[v]) \in Line /\ Head(queue[v]) \in 0..MaxDatagrams
    BY <1>0, Dequeued DEF Line
  <2>6. queue' \in [Vconns -> Line]
    BY <1>0, <2>4, <2>5 DEF Set
  <2>7. hand' \in [Vconns -> 0..MaxDatagrams]
    BY <2>4, <2>5 DEF Set, TypeOK
  <2> QED
    BY <1>a, <2>1, <2>2, <2>3, <2>6, <2>7 DEF TypeOK
<1>8. ASSUME NEW v \in Vconns, Write(v) PROVE TypeOK'
  <2>1. hand[v] \in Ds
    BY <1>8 DEF Write, Inv, Vconn, Fifo, TypeOK
  <2>2. Append(written[v], hand[v]) \in Seq(Ds)
    BY <1>0, <2>1, Enqueued
  <2>4. written' \in [Vconns -> Seq(Ds)]
    BY <1>0, <1>8, <2>2 DEF Enqueue, Write
  <2>3. hand' \in [Vconns -> 0..MaxDatagrams] /\ u2z' \in [Vconns -> U2z]
    BY <1>8 DEF Set, Write, TypeOK, U2z
  <2> QED
    BY <1>8, <2>4, <2>3 DEF Write, TypeOK
<1>9. ASSUME NEW v \in Vconns, WriteErr(v) \/ StopReading(v) \/ Read(v) \/ Kill(v) PROVE TypeOK'
  <2>1. u2z' \in [Vconns -> U2z] /\ z2u' \in [Vconns -> Z2u]
    BY <1>9 DEF WriteErr, StopReading, Read, Kill, ReturnU2z, ReturnZ2u, Set, TypeOK, U2z, Z2u
  <2>2. closed' \in [Vconns -> BOOLEAN] /\ done' \in [Vconns -> BOOLEAN] /\ killed' \in [Vconns -> BOOLEAN]
    BY <1>9 DEF WriteErr, StopReading, Read, Kill, ReturnU2z, ReturnZ2u, MarkClosed, Set, TypeOK
  <2>4. failed' \subseteq Vconns /\ UNCHANGED stalled
    BY <1>9 DEF WriteErr, StopReading, Read, Kill, TypeOK
  <2>3. hand' \in [Vconns -> 0..MaxDatagrams]
    <3>1. hand' = hand \/ hand' = Set(hand, v, 0)
      BY <1>9 DEF WriteErr, StopReading, Read, Kill
    <3>2. hand \in [Vconns -> 0..MaxDatagrams] /\ 0 \in 0..MaxDatagrams
      BY UdpAssumption DEF TypeOK
    <3> QED
      BY <3>1, <3>2 DEF Set
  <2> QED
    BY <1>9, <2>1, <2>2, <2>3, <2>4 DEF WriteErr, StopReading, Read, Kill, TypeOK
<1>10. CASE UNCHANGED vars
  BY <1>10 DEF vars, TypeOK
<1>11. ASSUME NEW v \in Vconns, Stall(v) PROVE TypeOK'
  BY <1>11 DEF Stall, pumps, flags, TypeOK
<1> QED
  BY <1>1, <1>2, <1>3, <1>4, <1>5, <1>6, <1>7, <1>8, <1>9, <1>10, <1>11, Steps

----------------------------------------------------------------------------
(* A vconn, step by step.                                                  *)

\* A step that is not about a vconn, or only kills it.
LEMMA ElseVconn ==
  ASSUME NEW u \in Vconns, Vconn(u), created \in Nat, created' \in Nat, created' >= created,
         u2z'[u] = u2z[u], conn'[u] = conn[u], queue'[u] = queue[u], accepted'[u] = accepted[u],
         written'[u] = written[u], hand'[u] = hand[u], snapshot'[u] = snapshot[u], closed'[u] = closed[u],
         done'[u] = done[u], killed[u] => killed'[u], u \in failed => u \in failed'
  PROVE  Vconn(u)'
<1>1. Fresh(u)' /\ Stopping(u)'
  BY DEF Vconn, Fresh, Stopping, Vconns
<1>2. InHand(u)' = InHand(u)
  BY DEF InHand
<1>3. Fifo(u)'
  BY <1>2 DEF Vconn, Fifo
<1> QED
  BY <1>1, <1>3 DEF Vconn

\* Both pumps' ends raise the flag, and leave the rest to the other pump.
LEMMA Raised ==
  ASSUME NEW u \in Vconns, Vconn(u), UNCHANGED created,
         u2z'[u] = u2z[u], conn'[u] = conn[u], queue'[u] = queue[u], accepted'[u] = accepted[u],
         written'[u] = written[u], hand'[u] = hand[u], snapshot'[u] = snapshot[u], closed'[u], done'[u],
         killed'[u] = killed[u], UNCHANGED failed
  PROVE  Vconn(u)'
<1>1. Fresh(u)' /\ Stopping(u)'
  BY DEF Vconn, Fresh, Stopping
<1>2. InHand(u)' = InHand(u)
  BY DEF InHand
<1>3. Fifo(u)'
  BY <1>2 DEF Vconn, Fifo
<1> QED
  BY <1>1, <1>3 DEF Vconn

\* The loop puts a datagram into the queue of a vconn whose flag is down.
LEMMA VconnEnqueue ==
  ASSUME TypeOK, NEW u \in Vconns, Vconn(u), ~closed[u], NEW x \in 1..MaxDatagrams,
         queue' = Enqueue(queue, u, x), accepted' = Enqueue(accepted, u, x), created' \in Nat, u <= created',
         u2z'[u] = u2z[u] \/ (u2z[u] = "none" /\ u2z'[u] = "connect"),
         UNCHANGED <<hand, snapshot, flags, conn, written, failed>>
  PROVE  Vconn(u)'
<1> DEFINE Ds == 1..MaxDatagrams
<1> USE DEF flags
<1>1. queue[u] \in Seq(Ds) /\ accepted[u] \in Seq(Ds) /\ written[u] \in Seq(Ds)
  BY DEF TypeOK
<1>2. queue'[u] = Append(queue[u], x) /\ accepted'[u] = Append(accepted[u], x)
  BY DEF Enqueue, TypeOK
<1>3. u2z[u] \notin {"drain", "drainwrite", "returned"} /\ u2z'[u] \notin {"drain", "drainwrite", "returned"}
      /\ conn[u] # "closed"
  BY DEF Vconn, Stopping
<1>4. Fresh(u)' /\ Stopping(u)'
  BY <1>3 DEF Vconn, Fresh, Stopping, TypeOK, Vconns
<1>5. InHand(u)' = InHand(u)
  BY DEF InHand
<1>8. InHand(u) \in Seq(Ds)
  <2>1. u2z[u] \in {"write", "drainwrite"} => hand[u] \in Ds
    BY DEF Vconn, Fifo, TypeOK
  <2> HIDE DEF Ds
  <2>2. \A d \in Ds : <<d>> \in Seq(Ds)
    OBVIOUS
  <2> QED
    BY <2>1, <2>2 DEF InHand
<1>6. Append(written[u] \o (InHand(u) \o queue[u]), x) = written[u] \o (InHand(u) \o Append(queue[u], x))
  <2>1. x \in Ds
    OBVIOUS
  <2> HIDE DEF Ds
  <2>2. InHand(u) \o queue[u] \in Seq(Ds) /\ Append(InHand(u) \o queue[u], x) = InHand(u) \o Append(queue[u], x)
    BY <1>1, <1>8, <2>1, Joins
  <2>3. Append(written[u] \o (InHand(u) \o queue[u]), x) = written[u] \o Append(InHand(u) \o queue[u], x)
    BY <1>1, <2>1, <2>2, Joins
  <2> QED
    BY <2>2, <2>3
<1>7. Fifo(u)'
  BY <1>2, <1>3, <1>5, <1>6 DEF Vconn, Fifo
<1> QED
  BY <1>4, <1>7 DEF Vconn

\* u2z takes the first datagram of its queue in hand.
LEMMA VconnTake ==
  ASSUME TypeOK, NEW u \in Vconns, Vconn(u), queue[u] # <<>>, u2z[u] \in {"recv", "drain"},
         u2z'[u] = IF u2z[u] = "recv" THEN "write" ELSE "drainwrite",
         hand' = Set(hand, u, Head(queue[u])), queue' = Set(queue, u, Tail(queue[u])),
         snapshot'[u] = IF u2z[u] = "recv" THEN snapshot[u] ELSE snapshot[u] - 1,
         UNCHANGED <<created, flags, conn, accepted, written, failed>>
  PROVE  Vconn(u)'
<1> DEFINE Ds == 1..MaxDatagrams
<1> USE DEF flags
<1>1. queue[u] \in Seq(Ds) /\ accepted[u] \in Seq(Ds) /\ written[u] \in Seq(Ds) /\ conn[u] # "closed"
  BY DEF TypeOK, Vconn, Stopping
<1>2. queue'[u] = Tail(queue[u]) /\ hand'[u] = Head(queue[u])
  BY DEF Set, TypeOK
<1>3. Head(queue[u]) \in Ds /\ Len(Tail(queue[u])) = Len(queue[u]) - 1
  BY <1>1, Dequeued
<1>4. Fresh(u)' /\ Stopping(u)'
  BY <1>2, <1>3 DEF Vconn, Fresh, Stopping
<1>5. InHand(u) = <<>> /\ InHand(u)' = <<Head(queue[u])>>
  BY <1>2 DEF InHand
<1>6. written[u] \o (<<>> \o queue[u]) = written[u] \o (<<Head(queue[u])>> \o Tail(queue[u]))
  BY <1>1, Taken
<1>7. Fifo(u)'
  <2>1. hand'[u] > 0
    BY <1>2, <1>3
  <2>2. u \notin failed => accepted[u] = written[u] \o (InHand(u)' \o queue'[u])
    BY <1>1, <1>2, <1>5, <1>6 DEF Vconn, Fifo
  <2> QED
    BY <2>1, <2>2 DEF Fifo
<1> QED
  BY <1>4, <1>7 DEF Vconn

\* u2z stops: the flow was killed, or a write failed, or nothing is queued.
LEMMA VconnReturn ==
  ASSUME TypeOK, NEW u \in Vconns, Vconn(u), u2z[u] # "none", ReturnU2z(u),
         UNCHANGED <<created, queue, killed, conn, accepted, written>>,
         \/ /\ UNCHANGED <<hand, failed>> /\ u2z[u] \in {"recv", "drain"}
            /\ killed[u] \/ queue[u] = <<>>
         \/ failed' = failed \cup {u}
  PROVE  Vconn(u)'
<1>1. u2z'[u] = "returned" /\ closed'[u] /\ done'[u]
  BY DEF ReturnU2z, MarkClosed, Set, TypeOK
<1>2. Fresh(u)' /\ Stopping(u)'
  BY <1>1 DEF Vconn, Fresh, Stopping
<1>3. InHand(u)' = <<>> /\ (u2z[u] \in {"recv", "drain"} => InHand(u) = <<>>)
  BY <1>1 DEF InHand
<1>4. Fifo(u)'
  BY <1>1, <1>3 DEF Vconn, Fifo
<1> QED
  BY <1>2, <1>4 DEF Vconn

\* Every step keeps all vconns in order, and the map to vconns that exist.
LEMMA InvStep == TypeOK /\ Inv /\ [Next]_vars => Inv'
<1> SUFFICES ASSUME TypeOK, Inv, [Next]_vars PROVE Inv'
  OBVIOUS
<1> USE UdpAssumption DEF pumps, flags
<1>0. /\ created \in Nat /\ datagrams \in Nat /\ \A v \in Vconns : Vconn(v)
      /\ \A s \in Sources : conns[s] <= created /\ conns[s] \in Nat /\ (conns[s] # None => conns[s] \in Vconns)
      /\ \A v \in Vconns : v \in Nat
  BY DEF TypeOK, Inv, Mapped, Vconns, None
<1>1. ASSUME NEW s \in Sources, Deliver(s) PROVE Inv'
  <2> DEFINE v == conns[s]
  <2>1. v \in Vconns /\ ~closed[v] /\ datagrams' \in 1..MaxDatagrams /\ v <= created
    BY <1>0, <1>1 DEF Deliver, Deliverable, TypeOK
  <2>2. CASE Len(queue[v]) < Depth
    <3>1. queue' = Enqueue(queue, v, datagrams') /\ accepted' = Enqueue(accepted, v, datagrams')
          /\ UNCHANGED <<conns, created, u2z, hand, snapshot, flags, conn, written, failed>>
      BY <1>1, <2>2 DEF Deliver
    <3>2. Vconn(v)'
      BY <1>0, <2>1, <3>1, VconnEnqueue
    <3>3. ASSUME NEW u \in Vconns, u # v PROVE Vconn(u)'
      <4>1. queue'[u] = queue[u] /\ accepted'[u] = accepted[u]
        BY <3>1, <3>3 DEF Enqueue, TypeOK
      <4> QED
        BY <1>0, <3>1, <4>1, ElseVconn
    <3> QED
      BY <1>0, <3>1, <3>2, <3>3 DEF Inv, Mapped
  <2>3. CASE ~(Len(queue[v]) < Depth)
    <3>1. UNCHANGED <<conns, created, queue, u2z, hand, snapshot, flags, conn, accepted, written, failed>>
      BY <1>1, <2>3 DEF Deliver
    <3> QED
      BY <1>0, <3>1, ElseVconn DEF Inv, Mapped
  <2> QED
    BY <2>2, <2>3
<1>2. ASSUME NEW s \in Sources, Create(s) PROVE Inv'
  <2>0. created + 1 \in Vconns /\ datagrams' \in 1..MaxDatagrams /\ created' = created + 1
    BY <1>0, <1>2 DEF Create, TypeOK, Vconns
  <2> PICK v \in Vconns : v = created + 1
    BY <2>0
  <2>1. v \in Vconns /\ datagrams' \in 1..MaxDatagrams /\ v = created + 1 /\ v = created' /\ v \in Nat
    BY <1>0, <2>0
  <2>2. /\ queue' = Enqueue(queue, v, datagrams') /\ accepted' = Enqueue(accepted, v, datagrams')
        /\ u2z' = Set(u2z, v, "connect") /\ conns' = Set(conns, s, v)
        /\ UNCHANGED <<hand, snapshot, flags, conn, written, failed>>
    BY <1>2, <2>1 DEF Create
  <2>3. u2z[v] = "none" /\ conn[v] = "none" /\ queue[v] = <<>> /\ accepted[v] = <<>> /\ written[v] = <<>>
    BY <1>0, <2>1 DEF Vconn, Fresh
  <2>4. Vconn(v)'
    <3>1. u2z'[v] = "connect"
      BY <2>1, <2>2 DEF Set, TypeOK
    <3>2. queue'[v] = <<datagrams'>> /\ accepted'[v] = <<datagrams'>> /\ InHand(v)' = <<>>
      BY <2>1, <2>2, <2>3, <3>1 DEF Enqueue, TypeOK, InHand
    <3>3. Fresh(v)'
      BY <2>1 DEF Fresh
    <3>4. Stopping(v)'
      BY <1>0, <2>1, <2>2, <2>3, <3>1 DEF Vconn, Stopping
    <3>5. <<datagrams'>> = <<>> \o (<<>> \o <<datagrams'>>)
      OBVIOUS
    <3>6. Fifo(v)'
      BY <2>2, <2>3, <3>1, <3>2, <3>5 DEF Fifo
    <3> QED
      BY <3>3, <3>4, <3>6 DEF Vconn
  <2>5. ASSUME NEW u \in Vconns, u # v PROVE Vconn(u)'
    <3>1. queue'[u] = queue[u] /\ accepted'[u] = accepted[u] /\ u2z'[u] = u2z[u]
      BY <2>2, <2>5 DEF Enqueue, Set, TypeOK
    <3> QED
      BY <1>0, <2>1, <2>2, <3>1, ElseVconn
  <2>6. Mapped'
    BY <1>0, <2>1, <2>2 DEF Mapped, Set, TypeOK
  <2> QED
    BY <2>4, <2>5, <2>6 DEF Inv
<1>3. ASSUME \/ DropExpired \/ \E s \in Sources : Unmatched(s) PROVE Inv'
  <2>1. UNCHANGED <<created, queue, u2z, hand, snapshot, flags, conn, accepted, written, failed>>
    BY <1>3 DEF DropExpired, Unmatched
  <2>2. Mapped'
    <3>1. \A s \in Sources : conns'[s] \in {conns[s], 0}
      BY <1>3 DEF DropExpired, Unmatched, Set, TypeOK, None
    <3> QED
      BY <1>0, <2>1, <3>1 DEF Mapped
  <2> QED
    BY <1>0, <2>1, <2>2, ElseVconn DEF Inv
<1>4. ASSUME NEW v \in Vconns, \/ Connected(v) \/ ConnectErr(v) \/ Recv(v) \/ Write(v) \/ WriteErr(v)
                               \/ Drain(v) \/ StopReading(v) \/ Read(v) \/ Close(v) \/ Kill(v)
      PROVE  Inv'
  <2>0. UNCHANGED <<conns, created, accepted>>
    BY <1>4 DEF Connected, ConnectErr, Recv, Write, WriteErr, Drain, StopReading, Read, Close, Kill
  <2>1. ASSUME NEW u \in Vconns, u # v PROVE Vconn(u)'
    <3>1. u2z'[u] = u2z[u] /\ conn'[u] = conn[u] /\ hand'[u] = hand[u] /\ snapshot'[u] = snapshot[u]
      BY <1>4, <2>1 DEF Connected, ConnectErr, Recv, Write, WriteErr, Drain, StopReading, Read, Close, Kill,
         ReturnU2z, ReturnZ2u, Set, TypeOK
    <3>2. queue'[u] = queue[u] /\ written'[u] = written[u]
      BY <1>4, <2>1 DEF Connected, ConnectErr, Recv, Write, WriteErr, Drain, StopReading, Read, Close, Kill,
         Set, Enqueue, TypeOK
    <3>3. closed'[u] = closed[u] /\ done'[u] = done[u] /\ killed'[u] = killed[u] /\ failed \subseteq failed'
      BY <1>4, <2>1 DEF Connected, ConnectErr, Recv, Write, WriteErr, Drain, StopReading, Read, Close, Kill,
         ReturnU2z, ReturnZ2u, MarkClosed, Set, TypeOK
    <3> QED
      BY <1>0, <2>0, <3>1, <3>2, <3>3, ElseVconn
  <2>12. Mapped'
    BY <1>0, <2>0 DEF Mapped
  <2> SUFFICES Vconn(v)'
    BY <2>1, <2>12 DEF Inv
  <2>2. Vconn(v) /\ queue[v] \in Seq(1..MaxDatagrams) /\ written[v] \in Seq(1..MaxDatagrams)
    BY <1>0 DEF TypeOK
  <2>3. CASE Connected(v)
    <3>1. u2z[v] = "connect" /\ u2z'[v] = "recv" /\ conn'[v] = "open"
          /\ UNCHANGED <<queue, hand, snapshot, flags, written, failed>>
      BY <2>3 DEF Connected, Set, TypeOK
    <3>2. Fresh(v)' /\ Stopping(v)' /\ InHand(v)' = InHand(v)
      BY <2>0, <2>2, <3>1 DEF Vconn, Fresh, Stopping, InHand
    <3>3. Fifo(v)'
      BY <2>0, <2>2, <3>1, <3>2 DEF Vconn, Fifo, Stopping
    <3> QED
      BY <3>2, <3>3 DEF Vconn
  <2>4. CASE ConnectErr(v)
    <3>1. u2z[v] = "connect" /\ u2z'[v] = "returned" /\ closed'[v] /\ v \in failed'
          /\ UNCHANGED <<conn, done, killed>>
      BY <2>4 DEF ConnectErr, Set, TypeOK
    <3> QED
      BY <2>0, <2>2, <3>1 DEF Vconn, Fresh, Stopping, Fifo
  <2>5. CASE Recv(v)
    <3>0. u2z[v] = "recv" /\ UNCHANGED <<created, killed, conn, accepted, written, failed>>
      BY <2>5 DEF Recv
    <3>1. CASE ReturnU2z(v) /\ UNCHANGED <<queue, hand, snapshot>> /\ (killed[v] \/ queue[v] = <<>>)
      BY <2>2, <3>0, <3>1, VconnReturn
    <3>2. CASE /\ done[v] /\ u2z' = Set(u2z, v, "drain") /\ snapshot' = Set(snapshot, v, Len(queue[v]))
               /\ UNCHANGED <<queue, hand, closed, done>>
      <4>1. u2z'[v] = "drain" /\ snapshot'[v] = Len(queue[v])
        BY <3>2 DEF Set, TypeOK
      <4>2. Fresh(v)' /\ Stopping(v)' /\ InHand(v)' = InHand(v)
        BY <2>2, <3>0, <3>2, <4>1 DEF Vconn, Fresh, Stopping, InHand
      <4>3. Fifo(v)'
        BY <2>2, <3>0, <3>2, <4>1, <4>2 DEF Vconn, Fifo
      <4> QED
        BY <4>2, <4>3 DEF Vconn
    <3>3. CASE /\ queue[v] # <<>> /\ u2z' = Set(u2z, v, "write") /\ UNCHANGED <<snapshot, closed, done>>
               /\ hand' = Set(hand, v, Head(queue[v])) /\ queue' = Set(queue, v, Tail(queue[v]))
      <4>1. u2z'[v] = "write"
        BY <3>3 DEF Set, TypeOK
      <4> QED
        BY <2>2, <3>0, <3>3, <4>1, VconnTake
    <3> QED
      BY <2>5, <3>1, <3>2, <3>3 DEF Recv
  <2>6. CASE Write(v)
    <3>0. u2z[v] \in {"write", "drainwrite"} /\ hand[v] \in 1..MaxDatagrams
      BY <2>2, <2>6 DEF Write, Vconn, Fifo, TypeOK
    <3>1. /\ u2z'[v] = (IF u2z[v] = "write" THEN "recv" ELSE "drain") /\ written'[v] = Append(written[v], hand[v])
          /\ UNCHANGED <<queue, snapshot, flags, conn, failed>>
      BY <2>6 DEF Write, Set, Enqueue, TypeOK
    <3>2. Fresh(v)' /\ Stopping(v)'
      BY <2>0, <2>2, <3>0, <3>1 DEF Vconn, Fresh, Stopping
    <3>3. InHand(v) = <<hand[v]>> /\ InHand(v)' = <<>>
      BY <3>0, <3>1 DEF InHand
    <3>4. written[v] \o (<<hand[v]>> \o queue[v]) = Append(written[v], hand[v]) \o (<<>> \o queue[v])
      BY <2>2, <3>0, SentOf
    <3>5. Fifo(v)'
      BY <2>0, <2>2, <3>0, <3>1, <3>3, <3>4 DEF Vconn, Fifo
    <3> QED
      BY <3>2, <3>5 DEF Vconn
  <2>7. CASE WriteErr(v)
    BY <2>2, <2>7, VconnReturn DEF WriteErr
  <2>8. CASE Drain(v)
    <3>0. u2z[v] = "drain" /\ UNCHANGED <<created, killed, conn, accepted, written, failed>>
          /\ snapshot[v] = Len(queue[v])
      BY <2>2, <2>8 DEF Drain, Vconn, Stopping
    <3>1. CASE (snapshot[v] = 0 \/ killed[v]) /\ ReturnU2z(v) /\ UNCHANGED <<queue, hand, snapshot>>
      <4>1. snapshot[v] = 0 => queue[v] = <<>>
        BY <2>2, <3>0, EmptySeq
      <4> QED
        BY <2>2, <3>0, <3>1, <4>1, VconnReturn
    <3>2. CASE /\ snapshot[v] > 0 /\ snapshot' = Set(snapshot, v, snapshot[v] - 1)
               /\ hand' = Set(hand, v, Head(queue[v])) /\ queue' = Set(queue, v, Tail(queue[v]))
               /\ u2z' = Set(u2z, v, "drainwrite") /\ UNCHANGED <<closed, done>>
      <4>1. u2z'[v] = "drainwrite" /\ snapshot'[v] = snapshot[v] - 1 /\ queue[v] # <<>>
        BY <2>2, <3>0, <3>2 DEF Set, TypeOK
      <4> QED
        BY <2>2, <3>0, <3>2, <4>1, VconnTake
    <3> QED
      BY <2>8, <3>1, <3>2 DEF Drain
  <2>9. CASE StopReading(v) \/ Read(v)
    <3>1. UNCHANGED <<created, queue, u2z, hand, snapshot, killed, conn, accepted, written, failed>>
      BY <2>9 DEF StopReading, Read
    <3>2. UNCHANGED <<closed, done>> \/ (closed'[v] /\ done'[v])
      BY <2>9 DEF StopReading, Read, ReturnZ2u, MarkClosed, Set, TypeOK
    <3>3. CASE UNCHANGED <<closed, done>>
      BY <1>0, <2>2, <3>1, <3>3, ElseVconn
    <3>4. CASE closed'[v] /\ done'[v]
      BY <2>2, <3>1, <3>4, Raised
    <3> QED
      BY <3>2, <3>3, <3>4
  <2>10. CASE Close(v)
    <3>1. u2z[v] = "returned" /\ conn'[v] = "closed" /\ conn[v] = "open" /\ queue'[v] = <<>>
          /\ UNCHANGED <<u2z, hand, snapshot, flags, written, failed>>
      BY <2>10 DEF Close, Set, TypeOK
    <3>2. Fresh(v)' /\ Stopping(v)' /\ InHand(v)' = InHand(v)
      BY <2>0, <2>2, <3>1 DEF Vconn, Fresh, Stopping, InHand
    <3>3. Fifo(v)'
      BY <2>0, <2>2, <3>1, <3>2 DEF Vconn, Fifo, Stopping
    <3> QED
      BY <3>2, <3>3 DEF Vconn
  <2>11. CASE Kill(v)
    <3>1. killed'[v] /\ UNCHANGED <<created, queue, u2z, hand, snapshot, closed, done, conn, accepted, written, failed>>
      BY <2>11 DEF Kill, Set, TypeOK
    <3> QED
      BY <1>0, <2>2, <3>1, ElseVconn
  <2> QED
    BY <1>4, <2>3, <2>4, <2>5, <2>6, <2>7, <2>8, <2>9, <2>10, <2>11
<1>5. CASE UNCHANGED vars \/ \E v \in Vconns : Stall(v)
  <2>1. UNCHANGED <<conns, created, queue, u2z, hand, snapshot, flags, conn, accepted, written, failed>>
    BY <1>5 DEF vars, Stall, pumps
  <2> QED
    BY <1>0, <2>1, ElseVconn DEF Inv, Mapped
<1> QED
  BY <1>1, <1>2, <1>3, <1>4, <1>5, Steps

----------------------------------------------------------------------------
\* All of it is invariant.
LEMMA Invariant == Spec => [](TypeOK /\ Inv)
<1>1. Init => TypeOK
  <2> SUFFICES ASSUME Init PROVE TypeOK
    OBVIOUS
  <2>1. /\ queue \in [Vconns -> Seq(1..MaxDatagrams)] /\ \A v \in Vconns : Len(queue[v]) <= Depth
        /\ accepted \in [Vconns -> Seq(1..MaxDatagrams)] /\ written \in [Vconns -> Seq(1..MaxDatagrams)]
    BY UdpAssumption DEF Init
  <2>2. /\ closed \in [Vconns -> BOOLEAN] /\ done \in [Vconns -> BOOLEAN] /\ killed \in [Vconns -> BOOLEAN]
        /\ u2z \in [Vconns -> U2z] /\ z2u \in [Vconns -> Z2u] /\ conn \in [Vconns -> {"none", "open", "closed"}]
    BY DEF Init, U2z, Z2u
  <2>3. /\ conns \in [Sources -> Vconns \cup {None}] /\ created \in 0..MaxVconns /\ datagrams \in 0..MaxDatagrams
        /\ hand \in [Vconns -> 0..MaxDatagrams] /\ snapshot \in [Vconns -> 0..Depth]
    BY UdpAssumption DEF Init
  <2> QED
    BY <2>1, <2>2, <2>3 DEF Init, TypeOK
<1>2. Init => Inv
  <2> SUFFICES ASSUME Init PROVE Inv
    OBVIOUS
  <2>1. Mapped
    BY DEF Init, Mapped, None
  <2>2. ASSUME NEW v \in Vconns PROVE Vconn(v)
    <3>1. Fresh(v) /\ Stopping(v)
      BY DEF Init, Fresh, Stopping
    <3>2. <<>> = <<>> \o (<<>> \o <<>>)
      OBVIOUS
    <3>3. Fifo(v)
      BY <3>2 DEF Init, Fifo, InHand
    <3> QED
      BY <3>1, <3>3 DEF Vconn
  <2> QED
    BY <2>1, <2>2 DEF Inv
<1> QED
  BY <1>1, <1>2, TypeStep, InvStep, PTL DEF Spec

\* The queues keep to VCONN_QUEUE_DEPTH, the map to vconns and the pumps to
\* their states.
THEOREM TypeCorrect == Spec => []TypeOK
BY Invariant, PTL

\* pump_udp_to_ziti and drain_queued_to_ziti: what the loop queued was written,
\* in order, before the connection is closed, unless the flow was killed or failed.
THEOREM RelayedCorrect == Spec => []Relayed
<1>1. TypeOK /\ Inv => Relayed
  <2> SUFFICES ASSUME TypeOK, Inv, NEW v \in Vconns, conn[v] = "closed", v \notin failed, ~killed[v]
               PROVE  written[v] = accepted[v]
    BY DEF Relayed
  <2>1. u2z[v] = "returned" /\ queue[v] = <<>> /\ InHand(v) = <<>>
    BY DEF Inv, Vconn, Stopping, InHand
  <2>2. accepted[v] = written[v] \o (<<>> \o <<>>) /\ written[v] \in Seq(1..MaxDatagrams)
    BY <2>1 DEF Inv, Vconn, Fifo, TypeOK
  <2> QED
    BY <2>2
<1> QED
  BY <1>1, Invariant, PTL

\* route_decision never picks a vconn whose u2z pump is over: the flag is up by
\* then.
THEOREM NoBlackHoleCorrect == Spec => []NoBlackHole
<1>1. TypeOK /\ Inv => NoBlackHole
  BY DEF TypeOK, Inv, Vconn, Stopping, NoBlackHole, Deliverable
<1> QED
  BY <1>1, Invariant, PTL
=============================================================================
