------------------------------ MODULE EdgeHost ------------------------------
(***************************************************************************)
(* The hosting side of a bind: the accept loop of a ServiceBinding, the    *)
(* handshake that each inbound Dial goes through (edge/data/accept.rs) and *)
(* the tunnel's host task that dials the target before it answers          *)
(* (tunnel/host).  Handlers run side by side on one channel.               *)
(*                                                                         *)
(* A dial is one Dial frame of the router; it is also the id of its child  *)
(* conn and the sequence of its reply.  The channel is the one of          *)
(* EdgeChannel with mark_closed as one step and a write as one step, which *)
(* succeeds, fails, or is never taken by the transport; how the read loop  *)
(* parks is left there.                                                    *)
(***************************************************************************)
EXTENDS Naturals, Sequences, FiniteSets

CONSTANTS
  Dials,      \* the Dial frames of the router
  QueueCap,   \* capacity of the bind's queue (4 in the code)
  MaxData,    \* bound: data frames to one child
  Forms,      \* bound: the forms of a Dial that are considered
  Events      \* bound: which of AllEvents happen

\* The write half fails or stalls, the channel closes, the router closes the
\* bind, the router asks about a conn.
AllEvents == {"down", "stall", "close", "unbind", "inspect"}

\* The token may be wrong, the id may come from the router, and a service that
\* is encrypted may get a key that does not fit.
Form == [token : {"ok", "bad"}, provided : BOOLEAN, key : {"none", "ok", "bad"}]

ASSUME HostAssumption ==
  /\ Forms \subseteq Form
  /\ QueueCap \in Nat \ {0} /\ MaxData \in Nat /\ Events \subseteq AllEvents
  /\ {"closed", "bind"} \cap Dials = {}

VARIABLES
  closed,    \* ChannelState.closed
  waiters,   \* dials whose reply waits for the router's start
  conns,     \* children in the map of conns
  queue,     \* the bind's queue: dials, or "closed" for StateClosed
  accept,    \* the accept loop: "recv", "reject" a dial, or "ended"
  current,   \* the dial that it rejects
  pc,        \* where the handler of each dial is
  start,     \* what the oneshot of the start reply delivered
  wire,      \* the write half: "up", "down", or "stalled" for good
  lost,      \* a write has failed
  said,      \* what the router has been told of each dial, in order
  form,      \* the Dial's headers and body, as far as they are told apart
  began,     \* dials that the router has started
  routed,    \* data frames that the router sent to each child
  delivered, \* those that got into its queue
  asked      \* inspections whose answer waits to be written

host == <<accept, current, pc>>
chan == <<closed, waiters, conns>>
router == <<form, began, routed>>
vars == <<host, chan, queue, start, wire, lost, said, router, delivered, asked>>

Ended == {"open", "failed", "refused", "closed"}
Pcs == {"none", "queued", "target", "check", "arm", "reply", "await", "withdraw", "header",
        "refuse", "bye", "unregister"} \cup Ended

TypeOK ==
  /\ closed \in BOOLEAN /\ waiters \subseteq Dials /\ conns \subseteq Dials
  /\ queue \in Seq(Dials \cup {"closed"}) /\ Len(queue) <= QueueCap
  /\ accept \in {"recv", "reject", "ended"} /\ current \in Dials \cup {"closed"}
  /\ pc \in [Dials -> Pcs]
  /\ start \in [Dials -> {"none", "connected", "other"}]
  /\ wire \in {"up", "down", "stalled"} /\ lost \in BOOLEAN
  /\ said \in [Dials -> Seq({"success", "failed", "closed"})]
  /\ form \in [Dials -> Forms] /\ began \subseteq Dials
  /\ routed \in [Dials -> 0..MaxData] /\ delivered \in [Dials -> 0..MaxData]
  /\ asked \subseteq (Dials \cup {"bind"}) \X {"dial", "bind", "invalid"}

Init ==
  /\ closed = FALSE /\ waiters = {} /\ conns = {}
  /\ queue = <<>> /\ accept = "recv" /\ current = "closed"
  /\ pc = [d \in Dials |-> "none"] /\ start = [d \in Dials |-> "none"]
  /\ wire = "up" /\ lost = FALSE
  /\ said = [d \in Dials |-> <<>>]
  /\ form \in [Dials -> Forms]
  /\ began = {} /\ routed = [d \in Dials |-> 0] /\ delivered = [d \in Dials |-> 0]
  /\ asked = {}

Goto(d, label) == pc' = [pc EXCEPT ![d] = label]

\* A frame about d is written, or the write fails.  A failed write is ignored
\* or ends the handler, as the caller says.  No write is timed: on a transport
\* that is stalled it does not come back.
Says(d, what) ==
  \/ wire = "up" /\ said' = [said EXCEPT ![d] = Append(@, what)] /\ UNCHANGED lost
  \/ wire = "down" /\ lost' = TRUE /\ UNCHANGED said

----------------------------------------------------------------------------
(* accept_pending, in the loop of run_tcp_host.                            *)

\* Fault: the child is registered only when the handshake is over.
AcceptUnregistered ==
  /\ accept = "recv" /\ queue # <<>> /\ Head(queue) # "closed"
  /\ LET d == Head(queue) IN
       /\ queue' = Tail(queue)
       /\ IF form[d].token = "ok" /\ form[d].key # "bad"
            THEN Goto(d, "target") /\ UNCHANGED <<accept, current>>
            ELSE accept' = "reject" /\ current' = d /\ UNCHANGED pc
  /\ UNCHANGED <<chan, start, wire, lost, said, router, delivered, asked>>

\* A Dial with the right token is registered; its keys may still not fit.
Accept ==
  /\ accept = "recv" /\ queue # <<>> /\ Head(queue) # "closed"
  /\ LET d == Head(queue) IN
       /\ queue' = Tail(queue)
       /\ IF form[d].token = "ok" /\ form[d].key # "bad"
            THEN /\ Goto(d, "target") /\ UNCHANGED <<accept, current>>
                 /\ conns' = IF closed THEN conns ELSE conns \cup {d}
            ELSE /\ accept' = "reject" /\ current' = d
                 /\ UNCHANGED <<pc, conns>>
  /\ UNCHANGED <<closed, waiters, start, wire, lost, said, router, delivered, asked>>

\* send_dial_failed for a wrong token or key, whatever the write does.
Reject ==
  /\ accept = "reject"
  /\ Says(current, "failed")
  /\ Goto(current, "refused")
  /\ accept' = "recv" /\ current' = "closed"
  /\ UNCHANGED <<chan, queue, start, wire, router, delivered, asked>>

MarkClosed == closed' = TRUE /\ waiters' = {} /\ conns' = {}

\* The bind's queue says StateClosed, or has no sender any more: the loop
\* returns, and the binding it owns is dropped with its channel.
AcceptEnds ==
  /\ accept = "recv"
  /\ \/ queue # <<>> /\ Head(queue) = "closed"
     \/ queue = <<>> /\ closed
  /\ accept' = "ended"
  /\ MarkClosed
  /\ UNCHANGED <<current, queue, pc, start, wire, lost, said, router, delivered, asked>>

----------------------------------------------------------------------------
(* handle_host_conn: the target is dialed before the Dial is answered.     *)

\* It connects; or appData names no target for TCP, the dial fails or times out.
Target(d) ==
  /\ pc[d] = "target"
  /\ \E label \in {"check", "refuse"} : Goto(d, label)
  /\ UNCHANGED <<accept, current, chan, queue, start, wire, lost, said, router, delivered, asked>>

\* complete_failed: DialFailed, then StateClosed for the child, both whatever
\* the write does, then the entry goes.
Refuse(d) ==
  /\ \/ pc[d] = "refuse" /\ Says(d, "failed") /\ Goto(d, "bye")
     \/ pc[d] = "bye" /\ Says(d, "closed") /\ Goto(d, "unregister")
  /\ UNCHANGED <<accept, current, chan, queue, start, wire, router, delivered, asked>>

Unregister(d) ==
  /\ pc[d] = "unregister"
  /\ conns' = conns \ {d}
  /\ Goto(d, "refused")
  /\ UNCHANGED <<accept, current, closed, waiters, queue, start, wire, lost, said, router,
                 delivered, asked>>

\* complete_success: a handshake that waits for the start is not begun on a
\* channel that is closed.
Check(d) ==
  /\ pc[d] = "check"
  /\ IF ~form[d].provided /\ closed
       THEN conns' = conns \ {d} /\ Goto(d, "withdraw")
       ELSE Goto(d, IF form[d].provided THEN "reply" ELSE "arm") /\ UNCHANGED conns
  /\ UNCHANGED <<accept, current, closed, waiters, queue, start, wire, lost, said, router,
                 delivered, asked>>

Arm(d) ==
  /\ pc[d] = "arm"
  /\ waiters' = waiters \cup {d}
  /\ Goto(d, "reply")
  /\ UNCHANGED <<accept, current, closed, conns, queue, start, wire, lost, said, router,
                 delivered, asked>>

\* A child is used by its first write of the stream header, or at once.
Established(d) == IF form[d].key = "ok" THEN "header" ELSE "open"

Reply(d) ==
  /\ pc[d] = "reply"
  /\ Says(d, "success")
  /\ IF wire = "up"
       THEN /\ Goto(d, IF form[d].provided THEN Established(d) ELSE "await")
            /\ UNCHANGED <<waiters, conns>>
       ELSE /\ waiters' = waiters \ {d} /\ conns' = conns \ {d}
            /\ Goto(d, "failed")
  /\ UNCHANGED <<accept, current, closed, queue, start, wire, router, delivered, asked>>

\* await_start_reply: the start, or another answer, for which the child is
\* closed.
Started(d) ==
  /\ pc[d] = "await" /\ start[d] # "none"
  /\ IF start[d] = "connected"
       THEN Goto(d, Established(d)) /\ UNCHANGED <<conns, said, lost>>
       ELSE Says(d, "closed") /\ conns' = conns \ {d} /\ Goto(d, "failed")
  /\ UNCHANGED <<accept, current, closed, waiters, queue, start, wire, router, delivered, asked>>

\* Fault: the start that never came leaves its waiter behind.
NotStartedLeaving(d) ==
  /\ pc[d] = "await" /\ start[d] = "none"
  /\ conns' = conns \ {d}
  /\ Goto(d, "withdraw")
  /\ UNCHANGED <<accept, current, closed, waiters, queue, start, wire, lost, said, router,
                 delivered, asked>>

\* Fault: the wait for the start has no timeout.
NotStartedUntimed(d) ==
  /\ pc[d] = "await" /\ start[d] = "none" /\ d \notin waiters
  /\ conns' = conns \ {d}
  /\ Goto(d, "withdraw")
  /\ UNCHANGED <<accept, current, closed, waiters, queue, start, wire, lost, said, router,
                 delivered, asked>>

\* ACCEPT_START_TIMEOUT passes, or the teardown has dropped the sender.
NotStarted(d) ==
  /\ pc[d] = "await" /\ start[d] = "none"
  /\ waiters' = waiters \ {d} /\ conns' = conns \ {d}
  /\ Goto(d, "withdraw")
  /\ UNCHANGED <<accept, current, closed, queue, start, wire, lost, said, router, delivered, asked>>

\* Fault: the router is not told that the child it may be starting is gone.
WithdrawSilently(d) ==
  /\ pc[d] = "withdraw"
  /\ Goto(d, "failed")
  /\ UNCHANGED <<accept, current, chan, queue, start, wire, lost, said, router, delivered, asked>>

\* send_dial_failed for the child.
Withdraw(d) ==
  /\ pc[d] = "withdraw"
  /\ Says(d, "failed")
  /\ Goto(d, "failed")
  /\ UNCHANGED <<accept, current, chan, queue, start, wire, router, delivered, asked>>

\* The stream header of an encrypted child.
Header(d) ==
  /\ pc[d] = "header" /\ wire # "stalled"
  /\ IF wire = "up" THEN Goto(d, "open") /\ UNCHANGED <<conns, lost>>
                    ELSE conns' = conns \ {d} /\ lost' = TRUE /\ Goto(d, "failed")
  /\ UNCHANGED <<accept, current, closed, waiters, queue, start, wire, said, router, delivered,
                 asked>>

\* The splice of the child with its socket ends (see Splice).
Close(d) ==
  /\ pc[d] = "open"
  /\ Says(d, "closed")
  /\ conns' = IF wire = "up" THEN conns \ {d} ELSE conns
  /\ Goto(d, "closed")
  /\ UNCHANGED <<accept, current, closed, waiters, queue, start, wire, router, delivered, asked>>

----------------------------------------------------------------------------
(* What the read loop dispatches, and the answer to an inspection.         *)

\* A reply goes to its waiter; a late one finds none and is no conn's frame.
RxStart(d, what) ==
  /\ ~closed /\ d \in waiters /\ d \notin began /\ "success" \in {said[d][i] : i \in DOMAIN said[d]}
  /\ waiters' = waiters \ {d}
  /\ start' = [start EXCEPT ![d] = what]
  /\ began' = IF what = "connected" THEN began \cup {d} ELSE began
  /\ UNCHANGED <<host, closed, conns, queue, wire, lost, said, form, routed, delivered, asked>>

\* The start comes late: the router counts on the child all the same.
RxLateStart(d) ==
  /\ ~closed /\ d \notin waiters /\ d \notin began /\ ~form[d].provided /\ start[d] = "none"
  /\ "success" \in {said[d][i] : i \in DOMAIN said[d]}
  /\ began' = began \cup {d}
  /\ UNCHANGED <<host, chan, queue, start, wire, lost, said, form, routed, delivered, asked>>

\* The router has started the child: it sent the start, or it gave the id and
\* has read the reply.
Routable(d) ==
  \/ d \in began
  \/ form[d].provided /\ "success" \in {said[d][i] : i \in DOMAIN said[d]}

\* Data for a child that is not in the map is discarded.
RxData(d) ==
  /\ ~closed /\ Routable(d) /\ routed[d] < MaxData
  /\ routed' = [routed EXCEPT ![d] = @ + 1]
  /\ delivered' = IF d \in conns THEN [delivered EXCEPT ![d] = @ + 1] ELSE delivered
  /\ UNCHANGED <<host, chan, queue, start, wire, lost, said, form, began, asked>>

RxDial(d) ==
  /\ ~closed /\ pc[d] = "none" /\ Len(queue) < QueueCap
  /\ queue' = Append(queue, d)
  /\ Goto(d, "queued")
  /\ UNCHANGED <<accept, current, chan, start, wire, lost, said, router, delivered, asked>>

RxUnbind ==
  /\ "unbind" \in Events /\ ~closed /\ Len(queue) < QueueCap
  /\ \A i \in DOMAIN queue : queue[i] # "closed"
  /\ queue' = Append(queue, "closed")
  /\ UNCHANGED <<host, chan, start, wire, lost, said, router, delivered, asked>>

\* classify_conn_inspect looks in conns first, then in binds.
Classify(x) == IF x \in conns THEN "dial" ELSE IF x = "bind" /\ ~closed THEN "bind" ELSE "invalid"

RxInspect(x) ==
  /\ "inspect" \in Events /\ ~closed /\ asked = {}
  /\ asked' = asked \cup {<<x, Classify(x)>>}
  /\ UNCHANGED <<host, chan, queue, start, wire, lost, said, router, delivered>>

\* The task of spawn_conn_inspect_reply writes it, or only logs.
InspectReply ==
  /\ asked # {} /\ wire # "stalled"
  /\ asked' = {} /\ lost' = (lost \/ wire = "down")
  /\ UNCHANGED <<host, chan, queue, start, wire, said, router, delivered>>

----------------------------------------------------------------------------
(* The channel, and the transport below it.                                *)

ChannelCloses ==
  /\ "close" \in Events /\ ~closed
  /\ MarkClosed
  /\ UNCHANGED <<host, queue, start, wire, lost, said, router, delivered, asked>>

WireFails ==
  /\ "down" \in Events /\ wire = "up"
  /\ wire' = "down"
  /\ UNCHANGED <<host, chan, queue, start, lost, said, router, delivered, asked>>

\* The other side stops reading: writes are neither taken nor failed, for good.
\* The read half goes on.
WireStalls ==
  /\ "stall" \in Events /\ wire = "up"
  /\ wire' = "stalled"
  /\ UNCHANGED <<host, chan, queue, start, lost, said, router, delivered, asked>>

----------------------------------------------------------------------------
AcceptStep == Accept \/ Reject \/ AcceptEnds

HandlerStep(d) ==
  \/ Target(d) \/ Refuse(d) \/ Unregister(d) \/ Check(d) \/ Arm(d) \/ Reply(d)
  \/ Started(d) \/ NotStarted(d) \/ Withdraw(d) \/ Header(d)

Next ==
  \/ AcceptStep
  \/ \E d \in Dials :
       \/ HandlerStep(d) \/ Close(d) \/ RxDial(d) \/ RxLateStart(d) \/ RxData(d)
       \/ \E what \in {"connected", "other"} : RxStart(d, what)
  \/ \E x \in Dials \cup {"bind"} : RxInspect(x)
  \/ InspectReply \/ RxUnbind \/ ChannelCloses \/ WireFails \/ WireStalls

Spec == Init /\ [][Next]_vars

\* The tasks are polled and their timers fire; a write comes back unless the
\* transport is stalled.
FairSpec == Spec /\ WF_vars(AcceptStep) /\ \A d \in Dials : WF_vars(HandlerStep(d))

----------------------------------------------------------------------------
(* Safety.                                                                 *)

\* accept.rs: a handler that gave up has left nothing in the maps, also when
\* the teardown passed between its look at `closed` and its waiter.
NoChildLeak ==
  \A d \in Dials : pc[d] \in {"failed", "refused"} => d \notin waiters /\ d \notin conns

\* While the transport works every Dial is answered, and the last word to the
\* router agrees with what became of the child: a success that came to nothing
\* was withdrawn.
RouterTold ==
  ~lost => \A d \in Dials :
    /\ pc[d] = "open" => said[d] = <<"success">>
    /\ pc[d] \in {"failed", "refused", "closed"} => said[d] # <<>> /\ said[d][Len(said[d])] # "success"

\* Whatever the router sends to a child from its start on reaches it: the child
\* is in the map before the router can know of it.
FirstDataKept == \A d \in Dials : pc[d] = "open" /\ ~closed => delivered[d] = routed[d]

(* Liveness, under FairSpec.                                               *)

\* The handler has come to a write.
AtWrite(d) == \/ pc[d] \in {"refuse", "bye", "reply", "withdraw", "header"}
              \/ pc[d] = "await" /\ start[d] = "other"

\* Every Dial that was taken from the queue comes to an end: the waits for the
\* target and for the start are timed, also on a closed channel.  What is not
\* timed is a write, and a handler stays for ever only in one that the stalled
\* transport does not take.
HandlerEnds ==
  \A d \in Dials :
    pc[d] = "target" ~> pc[d] \in Ended \/ (wire = "stalled" /\ AtWrite(d))
=============================================================================
