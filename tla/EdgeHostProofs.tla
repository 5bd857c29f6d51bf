--------------------------- MODULE EdgeHostProofs ---------------------------
(***************************************************************************)
(* For any number of inbound dials, forms of them and capacity of the      *)
(* bind's queue: a handler that gave up has left nothing in the channel's  *)
(* maps, the router's last word agrees with what became of the child, and  *)
(* no data of a child that is used was discarded.                          *)
(*                                                                         *)
(* All three follow from what a handler's position says of the maps and of *)
(* the wire (Maps, Told, Kept); that a dial has one handler at most is     *)
(* what the bind's queue gives (Queued).                                   *)
(***************************************************************************)
EXTENDS EdgeHost, SequenceTheorems, TLAPS

\* The actions, one by one.
LEMMA Steps ==
  ASSUME [Next]_vars
  PROVE  \/ Accept \/ Reject \/ AcceptEnds
         \/ \E d \in Dials :
              \/ Target(d) \/ Refuse(d) \/ Unregister(d) \/ Check(d) \/ Arm(d) \/ Reply(d)
              \/ Started(d) \/ NotStarted(d) \/ Withdraw(d) \/ Header(d) \/ Close(d)
              \/ RxDial(d) \/ RxLateStart(d) \/ RxData(d)
              \/ RxStart(d, "connected") \/ RxStart(d, "other")
         \/ \E x \in Dials \cup {"bind"} : RxInspect(x)
         \/ InspectReply \/ RxUnbind \/ ChannelCloses \/ WireFails \/ WireStalls
         \/ UNCHANGED vars
BY DEF Next, AcceptStep, HandlerStep

\* What is said to the router about a dial gets longer by that word, or the
\* write is lost.
LEMMA Spoken ==
  ASSUME said \in [Dials -> Seq({"success", "failed", "closed"})], lost \in BOOLEAN,
         NEW d, NEW what \in {"success", "failed", "closed"}, Says(d, what)
  PROVE  /\ said' \in [Dials -> Seq({"success", "failed", "closed"})]
         /\ lost' \in BOOLEAN /\ (lost => lost')
         /\ \A e \in Dials : e # d => said'[e] = said[e]
         /\ \/ wire = "up" /\ (d \in Dials => said'[d] = Append(said[d], what)) /\ lost' = lost
            \/ wire = "down" /\ said'[d] = said[d] /\ lost'
<1> DEFINE Words == {"success", "failed", "closed"}
<1>1. CASE wire = "up" /\ said' = [said EXCEPT ![d] = Append(@, what)] /\ UNCHANGED lost
  <2>1. d \in Dials => Append(said[d], what) \in Seq(Words)
    BY AppendProperties
  <2>2. said' \in [Dials -> Seq(Words)]
    BY <1>1, <2>1
  <2> QED
    BY <1>1, <2>2
<1>2. CASE wire = "down" /\ lost' = TRUE /\ UNCHANGED said
  BY <1>2
<1> QED
  BY <1>1, <1>2 DEF Says

----------------------------------------------------------------------------
(* Types.                                                                  *)

\* No child is given more data than the router sent it.
Counted == \A d \in Dials : delivered[d] <= routed[d]

\* A data frame counts as sent when it is delivered.
LEMMA CountedStep == TypeOK /\ Counted /\ [Next]_vars => Counted'
<1> SUFFICES ASSUME TypeOK, Counted, [Next]_vars PROVE Counted'
  OBVIOUS
<1>1. CASE \E d \in Dials : RxData(d)
  BY <1>1, HostAssumption DEF RxData, Counted, TypeOK
<1>2. CASE UNCHANGED <<routed, delivered>>
  BY <1>2 DEF Counted
<1>3. (\E d \in Dials : RxData(d)) \/ UNCHANGED <<routed, delivered>>
  BY Steps DEF Accept, Reject, AcceptEnds, Target, Refuse, Unregister, Check, Arm, Reply, Started,
     NotStarted, Withdraw, Header, Close, RxDial, RxLateStart, RxStart, RxInspect, InspectReply,
     RxUnbind, ChannelCloses, WireFails, WireStalls, vars, router
<1> QED
  BY <1>1, <1>2, <1>3

\* The maps hold children, the queue keeps to its capacity.
LEMMA TypeStep == TypeOK /\ Counted /\ [Next]_vars => TypeOK'
<1> SUFFICES ASSUME TypeOK, Counted, [Next]_vars PROVE TypeOK'
  OBVIOUS
<1> USE HostAssumption
<1>1. CASE Accept
  <2>1. /\ Head(queue) \in Dials /\ queue' = Tail(queue)
        /\ queue' \in Seq(Dials \cup {"closed"}) /\ Len(queue') <= QueueCap
    BY <1>1 DEF Accept, TypeOK
  <2>2. pc' \in [Dials -> Pcs] /\ conns' \subseteq Dials
    BY <1>1, <2>1 DEF Accept, Goto, TypeOK, Pcs
  <2>3. accept' \in {"recv", "reject", "ended"} /\ current' \in Dials \cup {"closed"}
    BY <1>1, <2>1 DEF Accept, TypeOK
  <2> QED
    BY <1>1, <2>1, <2>2, <2>3 DEF Accept, router, TypeOK
<1>2. CASE Reject \/ AcceptEnds
  <2>1. said' \in [Dials -> Seq({"success", "failed", "closed"})] /\ lost' \in BOOLEAN
    BY <1>2, Spoken DEF Reject, AcceptEnds, TypeOK
  <2>2. pc' \in [Dials -> Pcs]
    BY <1>2 DEF Reject, AcceptEnds, Goto, TypeOK, Pcs, Ended
  <2> QED
    BY <1>2, <2>1, <2>2 DEF Reject, AcceptEnds, MarkClosed, chan, router, TypeOK
<1>3. ASSUME NEW d \in Dials, Target(d) \/ Unregister(d) \/ Check(d) \/ Arm(d) \/ NotStarted(d) \/ Header(d)
      PROVE  TypeOK'
  BY <1>3 DEF Target, Unregister, Check, Arm, NotStarted, Header, Goto, chan, router, TypeOK, Pcs, Ended
<1>4. ASSUME NEW d \in Dials, Refuse(d) \/ Reply(d) \/ Started(d) \/ Withdraw(d) \/ Close(d)
      PROVE  TypeOK'
  <2>1. \/ UNCHANGED <<said, lost>>
        \/ \E what \in {"success", "failed", "closed"} : Says(d, what)
    BY <1>4 DEF Refuse, Reply, Started, Withdraw, Close
  <2>2. said' \in [Dials -> Seq({"success", "failed", "closed"})] /\ lost' \in BOOLEAN
    BY <2>1, Spoken DEF TypeOK
  <2>3. pc' \in [Dials -> Pcs]
    BY <1>4 DEF Refuse, Reply, Started, Withdraw, Close, Established, Goto, TypeOK, Pcs, Ended
  <2>4. /\ waiters' \subseteq Dials /\ conns' \subseteq Dials
        /\ UNCHANGED <<accept, current, closed, queue, start, wire, router, delivered, asked>>
    BY <1>4 DEF Refuse, Reply, Started, Withdraw, Close, chan, TypeOK
  <2> QED
    BY <2>2, <2>3, <2>4 DEF router, TypeOK
<1>5. ASSUME NEW d \in Dials, RxDial(d) PROVE TypeOK'
  <2>1. queue' \in Seq(Dials \cup {"closed"}) /\ Len(queue') <= QueueCap
    BY <1>5 DEF RxDial, TypeOK
  <2> QED
    BY <1>5, <2>1 DEF RxDial, Goto, chan, router, TypeOK, Pcs
<1>6. ASSUME NEW d \in Dials, RxLateStart(d) \/ RxData(d) \/ RxStart(d, "connected") \/ RxStart(d, "other")
      PROVE  TypeOK'
  <2>1. CASE RxData(d)
    <3>1. routed' \in [Dials -> 0..MaxData]
      BY <2>1 DEF RxData, TypeOK
    <3>2. delivered' \in [Dials -> 0..MaxData]
      BY <2>1 DEF RxData, TypeOK, Counted
    <3> QED
      BY <2>1, <3>1, <3>2 DEF RxData, host, chan, TypeOK
  <2>2. CASE ~RxData(d)
    BY <1>6, <2>2 DEF RxLateStart, RxStart, host, chan, TypeOK
  <2> QED
    BY <2>1, <2>2
<1>7. ASSUME NEW x \in Dials \cup {"bind"}, RxInspect(x) PROVE TypeOK'
  <2>1. asked' \subseteq (Dials \cup {"bind"}) \X {"dial", "bind", "invalid"}
    BY <1>7 DEF RxInspect, Classify, TypeOK
  <2> QED
    BY <1>7, <2>1 DEF RxInspect, host, chan, router, TypeOK
<1>8. CASE InspectReply \/ ChannelCloses \/ WireFails \/ WireStalls
  BY <1>8 DEF InspectReply, ChannelCloses, WireFails, WireStalls, MarkClosed, host, chan, router, TypeOK
<1>9. CASE RxUnbind
  <2>1. queue' \in Seq(Dials \cup {"closed"}) /\ Len(queue') <= QueueCap
    BY <1>9 DEF RxUnbind, TypeOK
  <2> QED
    BY <1>9, <2>1 DEF RxUnbind, host, chan, router, TypeOK
<1>10. CASE UNCHANGED vars
  BY <1>10 DEF vars, host, chan, router, TypeOK
<1> QED
  BY <1>1, <1>2, <1>3, <1>4, <1>5, <1>6, <1>7, <1>8, <1>9, <1>10, Steps

\* The binding's queue, the maps and the handlers keep their shape, and the
\* queue its capacity (binding.rs, accept.rs).
THEOREM TypeCorrect == Spec => []TypeOK
<1>1. Init => TypeOK
  <2> SUFFICES ASSUME Init PROVE TypeOK
    OBVIOUS
  <2>1. queue \in Seq(Dials \cup {"closed"}) /\ Len(queue) <= QueueCap
    BY HostAssumption DEF Init
  <2>2. said \in [Dials -> Seq({"success", "failed", "closed"})] /\ pc \in [Dials -> Pcs]
    BY DEF Init, Pcs
  <2>3. /\ routed \in [Dials -> 0..MaxData] /\ delivered \in [Dials -> 0..MaxData]
        /\ start \in [Dials -> {"none", "connected", "other"}]
    BY HostAssumption DEF Init
  <2>4. closed \in BOOLEAN /\ lost \in BOOLEAN
    BY DEF Init
  <2> QED
    BY <2>1, <2>2, <2>3, <2>4 DEF Init, TypeOK
<1>2. Init => Counted
  BY DEF Init, Counted
<1> QED
  BY <1>1, <1>2, TypeStep, CountedStep, PTL DEF Spec

----------------------------------------------------------------------------
(* The queue.                                                              *)

\* A dial is in the queue once, and has no handler before it is taken out of it
\* and found to be in order.
Queued ==
  /\ \A i \in DOMAIN queue : queue[i] # "closed" => pc[queue[i]] = "queued"
  /\ \A i, j \in DOMAIN queue : queue[i] = queue[j] /\ queue[i] # "closed" => i = j
  /\ accept = "reject" => /\ current \in Dials /\ pc[current] = "queued"
                          /\ \A i \in DOMAIN queue : queue[i] # current

\* What the first of a queue is not, none of the rest is.
LEMMA Dequeued ==
  ASSUME NEW S, NEW q \in Seq(S), q # <<>>
  PROVE  /\ Tail(q) \in Seq(S) /\ 1 \in DOMAIN q /\ Head(q) = q[1]
         /\ \A i \in DOMAIN Tail(q) : i + 1 \in DOMAIN q /\ Tail(q)[i] = q[i + 1] /\ i \in Nat
BY HeadTailProperties

\* What is put in a queue is at its end.
LEMMA Enqueued ==
  ASSUME NEW S, NEW q \in Seq(S), NEW x \in S
  PROVE  /\ Append(q, x) \in Seq(S)
         /\ \A i \in DOMAIN Append(q, x) : \/ i \in DOMAIN q /\ Append(q, x)[i] = q[i]
                                           \/ i = Len(q) + 1 /\ Append(q, x)[i] = x
BY AppendProperties

\* The router sends a Dial once, and the accept loop takes it once.
LEMMA QueuedStep == TypeOK /\ Queued /\ [Next]_vars => Queued'
<1> SUFFICES ASSUME TypeOK, Queued, [Next]_vars PROVE Queued'
  OBVIOUS
<1> USE HostAssumption
<1> DEFINE Items == Dials \cup {"closed"}
<1>a. queue \in Seq(Items) /\ pc \in [Dials -> Pcs] /\ \A i \in DOMAIN queue : queue[i] \in Items
  BY DEF TypeOK
<1>0. ASSUME UNCHANGED <<queue, accept, current>>, \A e \in Dials : pc[e] = "queued" => pc'[e] = "queued"
      PROVE  Queued'
  <2>1. \A i \in DOMAIN queue : queue[i] # "closed" => pc'[queue[i]] = "queued"
    BY <1>0, <1>a DEF Queued
  <2>2. accept = "reject" => current \in Dials /\ pc'[current] = "queued"
    BY <1>0 DEF Queued
  <2> QED
    BY <1>0, <2>1, <2>2 DEF Queued
<1>1. CASE Accept
  <2>0. queue # <<>> /\ queue' = Tail(queue) /\ accept = "recv" /\ Head(queue) # "closed"
    BY <1>1 DEF Accept
  <2>1. /\ 1 \in DOMAIN queue /\ Head(queue) = queue[1]
        /\ \A i \in DOMAIN queue' : i + 1 \in DOMAIN queue /\ queue'[i] = queue[i + 1] /\ i \in Nat
    BY <1>a, <2>0, Dequeued
  <2>2. Head(queue) \in Dials /\ pc[Head(queue)] = "queued"
    BY <1>a, <2>0, <2>1 DEF Queued
  <2>3. \A i \in DOMAIN queue' : queue'[i] # Head(queue) /\ queue'[i] \in Items
    <3> SUFFICES ASSUME NEW i \in DOMAIN queue' PROVE queue'[i] # Head(queue) /\ queue'[i] \in Items
      OBVIOUS
    <3>1. i + 1 \in DOMAIN queue /\ i + 1 # 1
      BY <2>1, <1>a
    <3> QED
      BY <1>a, <2>0, <2>1, <3>1 DEF Queued
  <2>4. \A e \in Dials : e # Head(queue) => pc'[e] = pc[e]
    BY <1>1, <1>a, <2>2 DEF Accept, Goto
  <2>5. \A i \in DOMAIN queue' : queue'[i] # "closed" => pc'[queue'[i]] = "queued"
    BY <2>1, <2>3, <2>4 DEF Queued
  <2>6. \A i, j \in DOMAIN queue' : queue'[i] = queue'[j] /\ queue'[i] # "closed" => i = j
    <3> SUFFICES ASSUME NEW i \in DOMAIN queue', NEW j \in DOMAIN queue', queue'[i] = queue'[j], queue'[i] # "closed"
                 PROVE  i = j
      OBVIOUS
    <3>1. i + 1 = j + 1
      BY <2>1 DEF Queued
    <3> QED
      BY <2>1, <3>1
  <2>7. accept' = "reject" => current' = Head(queue) /\ pc' = pc
    BY <1>1, <2>0 DEF Accept
  <2> QED
    BY <2>2, <2>3, <2>5, <2>6, <2>7 DEF Queued
<1>2. CASE Reject
  <2>1. current \in Dials /\ accept' = "recv" /\ UNCHANGED queue /\ \A e \in Dials : e # current => pc'[e] = pc[e]
    BY <1>2, <1>a DEF Reject, Goto, Queued
  <2>2. \A i \in DOMAIN queue : queue[i] # current
    BY <1>2 DEF Reject, Queued
  <2>3. \A i \in DOMAIN queue : queue[i] # "closed" => pc'[queue[i]] = "queued"
    BY <2>1, <2>2, <1>a DEF Queued
  <2> QED
    BY <2>1, <2>3 DEF Queued
<1>3. CASE AcceptEnds
  BY <1>3 DEF AcceptEnds, Queued
<1>4. ASSUME NEW d \in Dials, \/ Target(d) \/ Refuse(d) \/ Unregister(d) \/ Check(d) \/ Arm(d) \/ Reply(d)
                              \/ Started(d) \/ NotStarted(d) \/ Withdraw(d) \/ Header(d) \/ Close(d)
      PROVE  Queued'
  <2>1. pc[d] # "queued" /\ UNCHANGED <<queue, accept, current>>
    BY <1>4 DEF Target, Refuse, Unregister, Check, Arm, Reply, Started, NotStarted, Withdraw, Header, Close
  <2>2. \E label : pc' = [pc EXCEPT ![d] = label]
    BY <1>4 DEF Target, Refuse, Unregister, Check, Arm, Reply, Started, NotStarted, Withdraw, Header, Close, Goto
  <2> QED
    BY <1>0, <1>a, <2>1, <2>2
<1>5. ASSUME NEW d \in Dials, RxDial(d) PROVE Queued'
  <2>1. /\ queue' = Append(queue, d) /\ pc[d] = "none" /\ pc'[d] = "queued" /\ UNCHANGED <<accept, current>>
        /\ \A e \in Dials : e # d => pc'[e] = pc[e]
    BY <1>5, <1>a DEF RxDial, Goto
  <2>2. \A i \in DOMAIN queue' : \/ i \in DOMAIN queue /\ queue'[i] = queue[i]
                                 \/ i = Len(queue) + 1 /\ queue'[i] = d
    BY <2>1, <1>a, Enqueued
  <2>3. \A i \in DOMAIN queue : queue[i] # d
    BY <2>1 DEF Queued
  <2>4. \A i \in DOMAIN queue' : queue'[i] # "closed" => pc'[queue'[i]] = "queued"
    BY <2>1, <2>2, <1>a DEF Queued
  <2>5. \A i, j \in DOMAIN queue' : queue'[i] = queue'[j] /\ queue'[i] # "closed" => i = j
    BY <2>2, <2>3 DEF Queued
  <2> QED
    BY <2>1, <2>2, <2>4, <2>5 DEF Queued
<1>6. CASE RxUnbind
  <2>1. queue' = Append(queue, "closed") /\ UNCHANGED <<accept, current, pc>>
    BY <1>6 DEF RxUnbind, host
  <2>2. \A i \in DOMAIN queue' : \/ i \in DOMAIN queue /\ queue'[i] = queue[i]
                                 \/ i = Len(queue) + 1 /\ queue'[i] = "closed"
    BY <2>1, <1>a, Enqueued
  <2> QED
    BY <2>1, <2>2 DEF Queued
<1>7. CASE UNCHANGED <<queue, accept, current, pc>>
  BY <1>0, <1>7
<1>8. ASSUME \/ \E d \in Dials : RxLateStart(d) \/ RxData(d) \/ RxStart(d, "connected") \/ RxStart(d, "other")
             \/ \E x \in Dials \cup {"bind"} : RxInspect(x)
             \/ InspectReply \/ ChannelCloses \/ WireFails \/ WireStalls \/ UNCHANGED vars
      PROVE  UNCHANGED <<queue, accept, current, pc>>
  BY <1>8 DEF RxLateStart, RxData, RxStart, RxInspect, InspectReply, ChannelCloses, WireFails, WireStalls, vars, host
<1> QED
  BY <1>1, <1>2, <1>3, <1>4, <1>5, <1>6, <1>7, <1>8, Steps

----------------------------------------------------------------------------
(* What a handler's position says.                                         *)

Untold == {"none", "queued", "target", "check", "arm", "reply", "refuse"}
InUse == {"await", "header", "open"}

\* What is left in the maps, and that the start reply is only for a handler
\* that waits, or waited, for it.
Maps(d) ==
  /\ d \in waiters => pc[d] \in {"reply", "await"} /\ ~form[d].provided /\ start[d] = "none"
  /\ d \in conns => pc[d] \notin {"none", "queued", "withdraw", "failed", "refused"}
  /\ pc[d] = "arm" => ~form[d].provided
  /\ start[d] # "none" => pc[d] \in {"await", "header", "open", "closed", "failed"}

\* What the router has been told.
Told(d) ==
  /\ pc[d] \in Untold => said[d] = <<>>
  /\ pc[d] \in InUse => said[d] = <<"success">>
  /\ pc[d] = "withdraw" => said[d] \in {<<>>, <<"success">>}
  /\ pc[d] \in {"bye", "unregister", "failed", "refused", "closed"} /\ ~lost
       => said[d] # <<>> /\ said[d][Len(said[d])] # "success"

\* What the router may have sent, and where it went.
Kept(d) ==
  /\ d \in began => said[d] # <<>>
  /\ said[d] = <<>> => routed[d] = 0 /\ delivered[d] = 0
  /\ pc[d] \in {"target", "check", "arm", "reply"} \cup InUse /\ ~closed => d \in conns
  /\ pc[d] \in InUse /\ ~closed => delivered[d] = routed[d]

Child(d) == Maps(d) /\ Told(d) /\ Kept(d)
Children == \A d \in Dials : Child(d)

\* A step that is not about a child: the teardown may empty the maps, and a
\* write about another one be lost.
LEMMA ElseChild ==
  ASSUME TypeOK, NEW e \in Dials, Child(e),
         pc'[e] = pc[e], said'[e] = said[e], start'[e] = start[e], UNCHANGED form,
         lost => lost', closed => closed',
         e \in waiters' => e \in waiters, e \in conns' => e \in conns,
         e \in conns /\ ~closed' => e \in conns',
         e \in began' => e \in began, routed'[e] = routed[e], delivered'[e] = delivered[e]
  PROVE  Child(e)'
<1>1. Maps(e)'
  BY DEF Child, Maps
<1>2. Told(e)'
  BY DEF Child, Told
<1>3. Kept(e)'
  BY DEF Child, Kept
<1> QED
  BY <1>1, <1>2, <1>3 DEF Child

\* Two words to the router, and how each ends.
LEMMA Words ==
  /\ \A what : Append(<<>>, what) = <<what>>
  /\ \A s \in Seq({"success", "failed", "closed"}), what \in {"success", "failed", "closed"} :
       Append(s, what) # <<>> /\ Append(s, what)[Len(Append(s, what))] = what
OBVIOUS

\* The steps of a handler, for its own child: what it leaves in the maps and
\* says to the router fits where it goes.
LEMMA HandlerChild ==
  ASSUME TypeOK, NEW d \in Dials, Child(d),
         \/ Target(d) \/ Refuse(d) \/ Unregister(d) \/ Check(d) \/ Arm(d) \/ Reply(d)
         \/ Started(d) \/ NotStarted(d) \/ Withdraw(d) \/ Header(d) \/ Close(d)
  PROVE  Child(d)'
<1> USE DEF Goto
<1>0. /\ said \in [Dials -> Seq({"success", "failed", "closed"})] /\ lost \in BOOLEAN
      /\ said[d] \in Seq({"success", "failed", "closed"}) /\ pc \in [Dials -> Pcs]
  BY DEF TypeOK
<1>a. ASSUME NEW what \in {"success", "failed", "closed"}, Says(d, what)
      PROVE  said'[d] # <<>> \/ said'[d] = said[d]
  BY <1>0, <1>a, Spoken, Words
<1>1. CASE Target(d)
  BY <1>0, <1>1 DEF Target, chan, router, Child, Maps, Told, Kept, Untold, InUse
<1>2. CASE Refuse(d)
  <2>1. CASE pc[d] = "refuse" /\ Says(d, "failed") /\ pc'[d] = "bye"
    <3>1. Told(d)'
      BY <1>0, <2>1, Spoken, Words DEF Told, Untold, InUse
    <3>2. Maps(d)'
      BY <1>2, <2>1 DEF Refuse, chan, router, Child, Maps
    <3>3. Kept(d)'
      BY <1>2, <2>1, <1>a DEF Refuse, chan, router, Child, Kept, InUse
    <3> QED
      BY <3>1, <3>2, <3>3 DEF Child
  <2>2. CASE pc[d] = "bye" /\ Says(d, "closed") /\ pc'[d] = "unregister"
    <3>1. Told(d)'
      BY <1>0, <2>2, Spoken, Words DEF Told, Untold, InUse
    <3>2. Maps(d)'
      BY <1>2, <2>2 DEF Refuse, chan, router, Child, Maps
    <3>3. Kept(d)'
      BY <1>2, <2>2, <1>a DEF Refuse, chan, router, Child, Kept, InUse
    <3> QED
      BY <3>1, <3>2, <3>3 DEF Child
  <2> QED
    BY <1>0, <1>2, <2>1, <2>2 DEF Refuse
<1>3. CASE Unregister(d)
  BY <1>0, <1>3 DEF Unregister, router, Child, Maps, Told, Kept, Untold, InUse
<1>4. CASE Check(d)
  BY <1>0, <1>4 DEF Check, router, Child, Maps, Told, Kept, Untold, InUse
<1>5. CASE Arm(d)
  BY <1>0, <1>5 DEF Arm, router, Child, Maps, Told, Kept, Untold, InUse
<1>6. CASE Reply(d)
  <2>1. pc[d] = "reply" /\ said[d] = <<>> /\ Says(d, "success")
    BY <1>6 DEF Reply, Child, Told, Untold
  <2>2. \/ wire = "up" /\ said'[d] = <<"success">> /\ pc'[d] \in InUse
        \/ wire = "down" /\ said'[d] = <<>> /\ lost' /\ pc'[d] = "failed"
    BY <1>0, <1>6, <2>1, Spoken, Words DEF Reply, Established, InUse
  <2>3. Told(d)'
    BY <2>2 DEF Told, Untold, InUse
  <2>4. Maps(d)'
    BY <1>0, <1>6 DEF Reply, Established, router, Child, Maps
  <2>5. Kept(d)'
    BY <1>6, <2>1, <2>2 DEF Reply, router, Child, Kept, InUse
  <2> QED
    BY <2>3, <2>4, <2>5 DEF Child
<1>7. CASE Started(d)
  <2>1. CASE start[d] = "connected"
    BY <1>0, <1>7, <2>1 DEF Started, Established, router, Child, Maps, Told, Kept, Untold, InUse
  <2>2. CASE start[d] # "connected"
    <3>1. Says(d, "closed") /\ conns' = conns \ {d} /\ pc'[d] = "failed" /\ pc[d] = "await" /\ start[d] # "none"
      BY <1>0, <1>7, <2>2 DEF Started
    <3>2. Told(d)'
      BY <1>0, <3>1, Spoken, Words DEF Told, Untold, InUse
    <3>3. Maps(d)'
      BY <1>7, <3>1 DEF Started, router, Child, Maps
    <3>4. Kept(d)'
      BY <1>7, <3>1, <1>a DEF Started, router, Child, Kept, InUse
    <3> QED
      BY <3>2, <3>3, <3>4 DEF Child
  <2> QED
    BY <2>1, <2>2
<1>8. CASE NotStarted(d)
  BY <1>0, <1>8 DEF NotStarted, router, Child, Maps, Told, Kept, Untold, InUse
<1>9. CASE Withdraw(d)
  <2>1. Says(d, "failed") /\ pc'[d] = "failed" /\ pc[d] = "withdraw"
    BY <1>0, <1>9 DEF Withdraw
  <2>2. Told(d)'
    BY <1>0, <2>1, Spoken, Words DEF Told, Untold, InUse
  <2>3. Maps(d)'
    BY <1>9, <2>1 DEF Withdraw, chan, router, Child, Maps
  <2>4. Kept(d)'
    BY <1>9, <2>1, <1>a DEF Withdraw, chan, router, Child, Kept, InUse
  <2> QED
    BY <2>2, <2>3, <2>4 DEF Child
<1>10. CASE Header(d)
  BY <1>0, <1>10 DEF Header, router, Child, Maps, Told, Kept, Untold, InUse
<1>11. CASE Close(d)
  <2>1. Says(d, "closed") /\ pc'[d] = "closed" /\ pc[d] = "open"
    BY <1>0, <1>11 DEF Close
  <2>2. Told(d)'
    BY <1>0, <2>1, Spoken, Words DEF Told, Untold, InUse
  <2>3. Maps(d)'
    BY <1>11, <2>1 DEF Close, router, Child, Maps
  <2>4. Kept(d)'
    BY <1>11, <2>1, <1>a DEF Close, router, Child, Kept, InUse
  <2> QED
    BY <2>2, <2>3, <2>4 DEF Child
<1> QED
  BY <1>1, <1>2, <1>3, <1>4, <1>5, <1>6, <1>7, <1>8, <1>9, <1>10, <1>11

\* Every step keeps the children of all dials in order.
LEMMA ChildrenStep == TypeOK /\ Queued /\ Children /\ [Next]_vars => Children'
<1> SUFFICES ASSUME TypeOK, Queued, Children, [Next]_vars, NEW e \in Dials PROVE Child(e)'
  BY DEF Children
<1> USE HostAssumption
<1>0. Child(e) /\ pc \in [Dials -> Pcs] /\ start \in [Dials -> {"none", "connected", "other"}]
      /\ said \in [Dials -> Seq({"success", "failed", "closed"})] /\ lost \in BOOLEAN /\ closed \in BOOLEAN
      /\ routed \in [Dials -> 0..MaxData] /\ delivered \in [Dials -> 0..MaxData]
  BY DEF Children, TypeOK
<1>1. CASE Accept
  <2>1. queue # <<>> /\ Head(queue) \in Dials /\ pc[Head(queue)] = "queued"
    <3>1. queue \in Seq(Dials \cup {"closed"}) /\ queue # <<>> /\ Head(queue) # "closed"
      BY <1>1 DEF Accept, TypeOK
    <3> QED
      BY <3>1, Dequeued DEF Queued
  <2>2. CASE e # Head(queue) \/ UNCHANGED <<pc, conns>>
    BY <1>0, <1>1, <2>1, <2>2, ElseChild DEF Accept, Goto, router
  <2>3. CASE e = Head(queue) /\ ~UNCHANGED <<pc, conns>>
    <3>1. pc'[e] = "target" /\ pc[e] = "queued" /\ conns' = (IF closed THEN conns ELSE conns \cup {e})
      BY <1>0, <1>1, <2>1, <2>3 DEF Accept, Goto
    <3> QED
      BY <1>0, <1>1, <3>1 DEF Accept, router, Child, Maps, Told, Kept, Untold, InUse
  <2> QED
    BY <2>2, <2>3
<1>2. CASE Reject
  <2>1. current \in Dials /\ pc[current] = "queued" /\ Says(current, "failed")
    BY <1>2 DEF Reject, Queued
  <2>2. CASE e # current
    BY <1>0, <1>2, <2>1, <2>2, Spoken, ElseChild DEF Reject, Goto, chan, router
  <2>3. CASE e = current
    <3>1. pc'[e] = "refused" /\ pc[e] = "queued" /\ Says(e, "failed")
      BY <1>0, <1>2, <2>1, <2>3 DEF Reject, Goto
    <3>2. Told(e)'
      BY <1>0, <3>1, Spoken, Words DEF Told, Untold, InUse
    <3>3. Maps(e)'
      BY <1>0, <1>2, <3>1 DEF Reject, chan, router, Child, Maps
    <3>4. said'[e] # <<>> \/ said'[e] = said[e]
      BY <1>0, <3>1, Spoken, Words
    <3>5. Kept(e)'
      BY <1>0, <1>2, <3>1, <3>4 DEF Reject, chan, router, Child, Kept, InUse
    <3> QED
      BY <3>2, <3>3, <3>5 DEF Child
  <2> QED
    BY <2>2, <2>3
<1>3. CASE AcceptEnds \/ ChannelCloses
  BY <1>0, <1>3, ElseChild DEF AcceptEnds, ChannelCloses, MarkClosed, host, router
<1>4. ASSUME NEW d \in Dials, \/ Target(d) \/ Refuse(d) \/ Unregister(d) \/ Check(d) \/ Arm(d) \/ Reply(d)
                              \/ Started(d) \/ NotStarted(d) \/ Withdraw(d) \/ Header(d) \/ Close(d)
      PROVE  Child(e)'
  <2>1. CASE e = d
    BY <1>0, <1>4, <2>1, HandlerChild
  <2>2. CASE e # d
    <3>1. \E label : pc' = [pc EXCEPT ![d] = label]
      BY <1>4 DEF Target, Refuse, Unregister, Check, Arm, Reply, Started, NotStarted, Withdraw, Header, Close, Goto
    <3>2. \/ UNCHANGED said /\ (lost' = lost \/ lost' = TRUE)
          \/ \E what \in {"success", "failed", "closed"} : Says(d, what)
      BY <1>4 DEF Target, Refuse, Unregister, Check, Arm, Reply, Started, NotStarted, Withdraw, Header, Close
    <3>3. said'[e] = said[e] /\ (lost => lost')
      BY <1>0, <2>2, <3>2, Spoken
    <3>4. /\ waiters' \in {waiters, waiters \cup {d}, waiters \ {d}} /\ conns' \in {conns, conns \ {d}}
          /\ UNCHANGED <<closed, start, form, began, routed, delivered>>
      BY <1>4 DEF Target, Refuse, Unregister, Check, Arm, Reply, Started, NotStarted, Withdraw, Header, Close,
         chan, router
    <3> QED
      BY <1>0, <2>2, <3>1, <3>3, <3>4, ElseChild
  <2> QED
    BY <2>1, <2>2
<1>5. ASSUME NEW d \in Dials, RxDial(d) PROVE Child(e)'
  <2>1. CASE e # d
    BY <1>0, <1>5, <2>1, ElseChild DEF RxDial, Goto, chan, router
  <2>2. CASE e = d
    BY <1>0, <1>5, <2>2 DEF RxDial, Goto, chan, router, Child, Maps, Told, Kept, Untold, InUse
  <2> QED
    BY <2>1, <2>2
<1>6. ASSUME NEW d \in Dials, RxStart(d, "connected") \/ RxStart(d, "other") PROVE Child(e)'
  <2>1. CASE e # d
    BY <1>0, <1>6, <2>1, ElseChild DEF RxStart, host, router
  <2>2. CASE e = d
    <3>1. said[e] # <<>> /\ e \in waiters
      BY <1>6, <2>2 DEF RxStart
    <3>2. pc[e] = "await"
      BY <1>0, <3>1 DEF Child, Maps, Told, Untold
    <3> QED
      BY <1>0, <1>6, <2>2, <3>1, <3>2 DEF RxStart, host, Child, Maps, Told, Kept, Untold, InUse
  <2> QED
    BY <2>1, <2>2
<1>7. ASSUME NEW d \in Dials, RxLateStart(d) PROVE Child(e)'
  <2>1. CASE e # d
    BY <1>0, <1>7, <2>1, ElseChild DEF RxLateStart, host, chan
  <2>2. CASE e = d
    <3>1. said[e] # <<>>
      BY <1>7, <2>2 DEF RxLateStart
    <3> QED
      BY <1>0, <1>7, <2>2, <3>1 DEF RxLateStart, host, chan, Child, Maps, Told, Kept
  <2> QED
    BY <2>1, <2>2
<1>8. ASSUME NEW d \in Dials, RxData(d) PROVE Child(e)'
  <2>1. CASE e # d
    BY <1>0, <1>8, <2>1, ElseChild DEF RxData, host, chan
  <2>2. CASE e = d
    <3>1. said[e] # <<>>
      BY <1>0, <1>8, <2>2 DEF RxData, Routable, Child, Kept
    <3>2. routed'[e] = routed[e] + 1 /\ delivered'[e] = (IF e \in conns THEN delivered[e] + 1 ELSE delivered[e])
      BY <1>0, <1>8, <2>2 DEF RxData
    <3> QED
      BY <1>0, <1>8, <2>2, <3>1, <3>2 DEF RxData, host, chan, Child, Maps, Told, Kept, InUse
  <2> QED
    BY <2>1, <2>2
<1>9. ASSUME \/ \E x \in Dials \cup {"bind"} : RxInspect(x)
             \/ InspectReply \/ RxUnbind \/ WireFails \/ WireStalls \/ UNCHANGED vars
      PROVE  Child(e)'
  BY <1>0, <1>9, ElseChild DEF RxInspect, InspectReply, RxUnbind, WireFails, WireStalls, vars, host, chan, router
<1> QED
  BY <1>1, <1>2, <1>3, <1>4, <1>5, <1>6, <1>7, <1>8, <1>9, Steps

\* All of it is invariant.
LEMMA Invariant == Spec => [](Queued /\ Children)
<1>1. Init => Queued
  BY DEF Init, Queued
<1>2. Init => Children
  BY DEF Init, Children, Child, Maps, Told, Kept, Untold, InUse
<1> QED
  BY <1>1, <1>2, QueuedStep, ChildrenStep, TypeCorrect, PTL DEF Spec

----------------------------------------------------------------------------

\* complete_success and complete_failed: a handler that gave up has left nothing
\* in the maps of a channel that lives on, whatever raced with it.
THEOREM NoChildLeakCorrect == Spec => []NoChildLeak
<1>1. Children => NoChildLeak
  BY DEF Children, Child, Maps, NoChildLeak
<1> QED
  BY <1>1, Invariant, PTL

\* Unless a write was lost the router knows of every child what became of it.
THEOREM RouterToldCorrect == Spec => []RouterTold
<1>1. Children => RouterTold
  BY DEF Children, Child, Told, RouterTold, InUse
<1> QED
  BY <1>1, Invariant, PTL

\* The child is registered before the router can know of it, so that the first
\* data frame finds it (accept.rs).
THEOREM FirstDataKeptCorrect == Spec => []FirstDataKept
<1>1. Children => FirstDataKept
  BY DEF Children, Child, Kept, FirstDataKept, InUse
<1> QED
  BY <1>1, Invariant, PTL
=============================================================================
