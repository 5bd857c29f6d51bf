---------------------------- MODULE EdgeChannel ----------------------------
(***************************************************************************)
(* The multiplexed edge-router channel of src/edge/data: one transport     *)
(* shared by dials, binds and token pushes, a background read loop that    *)
(* dispatches inbound frames, a latency probe that detects a dead router,  *)
(* and `mark_closed`, the teardown every one of them may start.            *)
(*                                                                         *)
(* A call is one invocation of `dial`, `send_bind` or `update_token`.  Its *)
(* conn-id and its sequence number are the call itself: `next_seq` and     *)
(* `next_conn_id` hand out distinct numbers (see ConnIdAlloc for when).    *)
(* One step is one critical section: what the code does under one lock, or *)
(* between two await points where no other task can tell the difference.   *)
(***************************************************************************)
EXTENDS Naturals, Sequences, FiniteSets

CONSTANTS
  Dials,      \* invocations of EdgeChannel::dial
  Encrypted,  \* the dials of services that require end-to-end encryption
  Binds,      \* invocations of EdgeChannel::send_bind
  Pushes,     \* invocations of ChannelState::update_token
  Cancels,    \* the dials and binds whose caller may drop them at an await
  QueueCap,   \* capacity of a conn's or a bind's queue (4 in the code)
  MaxFrames,  \* bound: frames the router sends to one conn or bind
  MaxInbox,   \* bound: frames in flight from the router
  Events      \* bound: which of AllEvents happen

Calls == Dials \cup Binds \cup Pushes

ASSUME CallsAssumption ==
  /\ Encrypted \subseteq Dials
  /\ Cancels \subseteq Dials \cup Binds
  /\ Dials \cap Binds = {} /\ Dials \cap Pushes = {} /\ Binds \cap Pushes = {}
  /\ Calls \cap {"none", "rx", "probe", "owner"} = {}

\* What may happen to the channel from outside: the probe's interval elapses,
\* reading fails, the peer stops reading, the transport fails for writing, the
\* owner closes or drops the channel, a conn is dropped, a stray frame comes.
AllEvents == {"probe", "eof", "stall", "down", "close", "drop", "conndrop", "stray"}

ASSUME BoundsAssumption ==
  /\ QueueCap \in Nat \ {0} /\ MaxFrames \in Nat /\ MaxInbox \in Nat \ {0}
  /\ Events \subseteq AllEvents

VARIABLES
  closed,    \* ChannelState.closed
  teardown,  \* what the winner of mark_closed's compare-exchange does next
  closer,    \* the winner
  waiters,   \* ChannelState.waiters: who has a reply sender in the map
  conns,     \* ChannelState.conns
  binds,     \* ChannelState.binds
  pc,        \* where each call is
  reply,     \* what its oneshot delivered
  queue,     \* the bounded mpsc queue of each conn and bind
  got,       \* frames taken from that queue, oldest first
  rx,        \* where the read loop is
  frame,     \* the frame it dispatches
  notified,  \* its Notified future on close_notify: none, enabled or woken
  aborted,   \* the owner has aborted the read loop's and the probe's tasks
  probe,     \* the latency probe's pc
  lastRead,  \* since when read_message has returned nothing
  owner,     \* the EdgeChannel value: its close or its drop
  writer,    \* holder of the write-half mutex
  wire,      \* the outbound transport
  torn,      \* a frame was abandoned half-written
  sent,      \* calls whose request reached the router, and the probe
  answered,  \* calls the router has answered, and how
  routed,    \* frames the router has sent to each conn and bind
  inbox,     \* frames in flight from the router, oldest first
  eof        \* the router closed its side, or reading fails

chan    == <<closed, teardown, closer>>
maps    == <<waiters, conns, binds>>
streams == <<queue, got>>
loop    == <<rx, frame, notified, aborted>>
out     == <<writer, wire, torn>>
router  == <<sent, answered, routed, inbox, eof>>
vars    == <<chan, maps, pc, reply, streams, loop, probe, lastRead, owner, out, router>>

Waiting == Calls \cup {"probe"}
Streams == Dials \cup Binds

CallPcs == {"idle", "register", "arm", "lock", "write", "await", "hdrlock",
            "hdrwrite", "unarm", "unregister", "markclosed", "open", "closelock",
            "closewrite", "closeunreg", "closed", "dropped", "failed", "cancelled"}

\* The points at which dial, send_bind and update_token can be dropped.
AwaitPoints == {"lock", "write", "await", "hdrlock", "hdrwrite"}

\* The call runs: its future exists and borrows the channel.
InFlight == {"register", "arm", "unarm", "unregister", "markclosed"} \cup AwaitPoints

\* The receiving end of the call's queue exists.
Receiving == InFlight \cup {"open", "closelock", "closewrite", "closeunreg", "closed"}

Frame == [to : Waiting, kind : {"ok", "rejected", "data", "closed", "dial", "other"}, n : Nat]
NoFrame == [to |-> "none", kind |-> "none", n |-> 0]

TypeOK ==
  /\ closed \in BOOLEAN
  /\ teardown \in {"idle", "notify", "waiters", "conns", "binds", "done"}
  /\ closer \in Calls \cup {"none", "rx", "probe", "owner"}
  /\ waiters \subseteq Waiting /\ conns \subseteq Dials /\ binds \subseteq Binds
  /\ pc \in [Calls -> CallPcs]
  /\ reply \in [Waiting -> {"none", "ok", "rejected"}]
  /\ queue \in [Streams -> Seq(Frame)]
  /\ got \in [Streams -> Seq(Frame)]
  /\ rx \in {"read", "dispatch", "check", "send", "exit", "dead"}
  /\ frame \in Frame \cup {NoFrame}
  /\ rx \in {"dispatch", "check", "send"} => frame \in Frame /\ frame.to \in Streams
  /\ notified \in {"none", "enabled", "woken"} /\ aborted \in BOOLEAN
  /\ probe \in {"sleep", "arm", "lock", "write", "await", "unarm",
                "markclosed", "shutlock", "done"}
  /\ lastRead \in {"old", "sleep", "probe"}
  /\ owner \in {"live", "shutlock", "markclosed", "gone"}
  /\ writer \in Calls \cup {"none", "probe"}
  /\ wire \in {"up", "stalled", "down"}
  /\ torn \in BOOLEAN
  /\ sent \subseteq Waiting
  /\ answered \in [Waiting -> {"none", "ok", "rejected"}]
  /\ routed \in [Streams -> 0..MaxFrames]
  /\ inbox \in Seq(Frame)
  /\ eof \in BOOLEAN

\* ChannelState::new and EdgeChannel::from_halves.
Init ==
  /\ closed = FALSE /\ teardown = "idle" /\ closer = "none"
  /\ waiters = {} /\ conns = {} /\ binds = {}
  /\ pc = [c \in Calls |-> "idle"]
  /\ reply = [c \in Waiting |-> "none"]
  /\ queue = [c \in Streams |-> <<>>]
  /\ got = [c \in Streams |-> <<>>]
  /\ rx = "read" /\ frame = NoFrame
  /\ notified = "none" /\ aborted = FALSE
  /\ probe = "sleep" /\ lastRead = "old" /\ owner = "live"
  /\ writer = "none" /\ wire = "up" /\ torn = FALSE
  /\ sent = {} /\ answered = [c \in Waiting |-> "none"]
  /\ routed = [c \in Streams |-> 0]
  /\ inbox = <<>> /\ eof = FALSE

----------------------------------------------------------------------------
(* mark_closed: the compare-exchange, and the winner's four further steps. *)

\* Fault: the winner tears down without publishing `closed` first.
CompareExchangeUnpublished(a) ==
  /\ teardown = "idle"
  /\ closed' = closed /\ teardown' = "notify" /\ closer' = a

\* Actor a wins the compare-exchange on `closed`.
CompareExchange(a) ==
  /\ ~closed
  /\ closed' = TRUE /\ teardown' = "notify" /\ closer' = a

\* a's call of mark_closed can return: it lost, or it has cleared the maps.
MarkClosedReturns(a) == closed /\ (closer # a \/ teardown = "done")

\* Fault: mark_closed without notify_waiters.
NotifyWaitersOmitted ==
  /\ teardown = "notify"
  /\ teardown' = "waiters"
  /\ UNCHANGED <<closed, closer, maps, pc, reply, streams, loop,
                 probe, lastRead, owner, out, router>>

\* notify_waiters wakes the read loop only if its Notified future exists.
NotifyWaiters ==
  /\ teardown = "notify"
  /\ notified' = IF notified = "none" THEN "none" ELSE "woken"
  /\ teardown' = "waiters"
  /\ UNCHANGED <<closed, closer, maps, pc, reply, streams, rx, frame, aborted,
                 probe, lastRead, owner, out, router>>

ClearWaiters ==
  /\ teardown = "waiters"
  /\ waiters' = {}
  /\ teardown' = "conns"
  /\ UNCHANGED <<closed, closer, conns, binds, pc, reply, streams, loop, probe, lastRead, owner, out, router>>

ClearConns ==
  /\ teardown = "conns"
  /\ conns' = {}
  /\ teardown' = "binds"
  /\ UNCHANGED <<closed, closer, waiters, binds, pc, reply, streams, loop, probe, lastRead, owner, out, router>>

ClearBinds ==
  /\ teardown = "binds"
  /\ binds' = {}
  /\ teardown' = "done"
  /\ UNCHANGED <<closed, closer, waiters, conns, pc, reply, streams, loop, probe, lastRead, owner, out, router>>

Teardown == NotifyWaiters \/ ClearWaiters \/ ClearConns \/ ClearBinds

----------------------------------------------------------------------------
(* The calls.                                                              *)

Goto(c, label) == pc' = [pc EXCEPT ![c] = label]

\* What the call's own steps leave alone.
Elsewhere == <<streams, loop, probe, lastRead, owner, router>>

\* dial: the fast failure on a channel already closed.
DialStart(d) ==
  /\ owner = "live" /\ pc[d] = "idle"
  /\ Goto(d, IF closed THEN "failed" ELSE "register")
  /\ UNCHANGED <<chan, maps, reply, out, Elsewhere>>

\* register_conn: `closed` is read under the lock of the map.
RegisterConn(d) ==
  /\ pc[d] = "register"
  /\ conns' = IF closed THEN conns ELSE conns \cup {d}
  /\ Goto(d, "arm")
  /\ UNCHANGED <<chan, waiters, binds, reply, out, Elsewhere>>

\* send_bind: no look at `closed`; the waiter goes in first.
BindStart(b) ==
  /\ owner = "live" /\ pc[b] = "idle"
  /\ Goto(b, "arm")
  /\ UNCHANGED <<chan, maps, reply, out, Elsewhere>>

\* Fault: binds.insert without a look at `closed`.
RegisterBindUnguarded(b) ==
  /\ pc[b] = "register"
  /\ binds' = binds \cup {b}
  /\ Goto(b, "lock")
  /\ UNCHANGED <<chan, waiters, conns, reply, out, Elsewhere>>

\* register_bind: likewise.
RegisterBind(b) ==
  /\ pc[b] = "register"
  /\ binds' = IF closed THEN binds ELSE binds \cup {b}
  /\ Goto(b, "lock")
  /\ UNCHANGED <<chan, waiters, conns, reply, out, Elsewhere>>

\* push_token_to_live_channels skips a channel it sees closed.
PushStart(p) ==
  /\ pc[p] = "idle" /\ owner # "gone" /\ ~closed
  /\ Goto(p, "arm")
  /\ UNCHANGED <<chan, maps, reply, out, Elsewhere>>

\* waiters.insert: nothing guards it against a close.
InsertWaiter(c) ==
  /\ pc[c] = "arm"
  /\ waiters' = waiters \cup {c}
  /\ Goto(c, IF c \in Binds THEN "register" ELSE "lock")
  /\ UNCHANGED <<chan, conns, binds, reply, out, Elsewhere>>

\* write.lock().await, for the request, the stream header or StateClosed.
LockWrite(c) ==
  /\ writer = "none"
  /\ writer' = c
  /\ \/ pc[c] = "lock" /\ Goto(c, "write")
     \/ pc[c] = "hdrlock" /\ Goto(c, "hdrwrite")
     \/ pc[c] = "closelock" /\ Goto(c, "closewrite")
  /\ UNCHANGED <<chan, maps, reply, wire, torn, Elsewhere>>

\* write_message succeeds.  The router cannot parse what follows a torn frame.
WriteOk(c) ==
  /\ writer = c /\ wire = "up"
  /\ writer' = "none"
  /\ sent' = IF pc[c] = "write" /\ ~torn THEN sent \cup {c} ELSE sent
  /\ \/ pc[c] = "write" /\ Goto(c, "await")
     \/ pc[c] = "hdrwrite" /\ Goto(c, "open")
     \/ pc[c] = "closewrite" /\ Goto(c, "closeunreg")
  /\ UNCHANGED <<chan, maps, reply, wire, torn, streams, loop, probe, lastRead, owner,
                 answered, routed, inbox, eof>>

\* write_message fails: dial closes the channel, send_bind and update_token
\* take back what they registered, EdgeConn::close returns early.
WriteErr(c) ==
  /\ writer = c /\ wire = "down"
  /\ writer' = "none"
  /\ \/ pc[c] = "write" /\ Goto(c, IF c \in Dials THEN "markclosed" ELSE "unarm")
     \/ pc[c] = "hdrwrite" /\ Goto(c, "unregister")
     \/ pc[c] = "closewrite" /\ Goto(c, "closed")
  /\ UNCHANGED <<chan, maps, reply, wire, torn, Elsewhere>>

CallMarkClosed(d) ==
  /\ pc[d] = "markclosed"
  /\ CompareExchange(d)
  /\ UNCHANGED <<maps, pc, reply, out, Elsewhere>>

CallMarkedClosed(d) ==
  /\ pc[d] = "markclosed" /\ MarkClosedReturns(d)
  /\ Goto(d, "failed")
  /\ UNCHANGED <<chan, maps, reply, out, Elsewhere>>

\* The oneshot resolves with the router's reply.  An accepted dial goes on to
\* its crypto: none, a stream header to send, or an unsupported method.
ReplyArrives(c) ==
  /\ pc[c] = "await" /\ reply[c] # "none"
  /\ \/ reply[c] = "ok" /\ Goto(c, "open")
     \/ reply[c] = "ok" /\ c \in Encrypted /\ \E s \in {"hdrlock", "unregister"} : Goto(c, s)
     \/ reply[c] = "rejected" /\ Goto(c, IF c \in Pushes THEN "failed" ELSE "unregister")
  /\ UNCHANGED <<chan, maps, reply, out, Elsewhere>>

\* The sender was dropped from the map without a reply: ChannelClosed.
ReplyDropped(c) ==
  /\ pc[c] = "await" /\ reply[c] = "none" /\ c \notin waiters
  /\ Goto(c, IF c \in Pushes THEN "failed" ELSE "unregister")
  /\ UNCHANGED <<chan, maps, reply, out, Elsewhere>>

\* The ten seconds of UPDATE_TOKEN_TIMEOUT pass; only the wait is timed.
PushTimeout(p) ==
  /\ pc[p] = "await" /\ reply[p] = "none" /\ p \in waiters
  /\ Goto(p, "unarm")
  /\ UNCHANGED <<chan, maps, reply, out, Elsewhere>>

\* Fault: the timed-out or failed call leaves its waiter behind.
RemoveWaiterOmitted(c) ==
  /\ pc[c] = "unarm"
  /\ Goto(c, IF c \in Binds THEN "unregister" ELSE "failed")
  /\ UNCHANGED <<chan, maps, reply, out, Elsewhere>>

RemoveWaiter(c) ==
  /\ pc[c] = "unarm"
  /\ waiters' = waiters \ {c}
  /\ Goto(c, IF c \in Binds THEN "unregister" ELSE "failed")
  /\ UNCHANGED <<chan, conns, binds, reply, out, Elsewhere>>

\* conns.remove in dial and binds.remove in send_bind; conns.remove in close.
Unregister(c) ==
  /\ pc[c] \in {"unregister", "closeunreg"}
  /\ conns' = conns \ {c}
  /\ binds' = binds \ {c}
  /\ Goto(c, IF pc[c] = "unregister" THEN "failed" ELSE "closed")
  /\ UNCHANGED <<chan, waiters, reply, out, Elsewhere>>

\* The caller's timeout drops the future.  Nothing it registered is taken
\* back, and a frame it was writing may stay half-written on the wire.
Cancel(c) ==
  /\ c \in Cancels /\ pc[c] \in AwaitPoints
  /\ Goto(c, "cancelled")
  /\ writer' = IF writer = c THEN "none" ELSE writer
  /\ UNCHANGED torn \/ (writer = c /\ torn' = TRUE)
  /\ UNCHANGED <<chan, maps, reply, wire, Elsewhere>>

----------------------------------------------------------------------------
(* A connection, once dialed: its reader, EdgeConn::close, and being        *)
(* dropped.  A bound listener takes Dial frames from its queue the same way.*)

\* The read loop holds a clone of the sender while it dispatches.
Dispatching(c) == rx \in {"dispatch", "check", "send"} /\ frame.to = c

HasSender(c) == c \in conns \cup binds \/ Dispatching(c)

Recv(c) ==
  /\ pc[c] = "open" /\ queue[c] # <<>>
  /\ got' = [got EXCEPT ![c] = Append(@, Head(queue[c]))]
  /\ queue' = [queue EXCEPT ![c] = Tail(@)]
  /\ UNCHANGED <<chan, maps, pc, reply, loop, probe, lastRead, owner, out, router>>

CloseConn(d) ==
  /\ d \in Dials /\ pc[d] = "open"
  /\ Goto(d, "closelock")
  /\ UNCHANGED <<chan, maps, reply, out, Elsewhere>>

\* EdgeConn has no Drop: the entry in conns outlives it.
DropConn(d) ==
  /\ "conndrop" \in Events
  /\ d \in Dials /\ pc[d] \in {"open", "closed"}
  /\ Goto(d, "dropped")
  /\ UNCHANGED <<chan, maps, reply, out, Elsewhere>>

----------------------------------------------------------------------------
(* rx_loop.                                                                *)

RxElsewhere == <<pc, probe, owner, out>>

\* The map an inbound frame is looked up in.  A reply nobody waits for falls
\* through to the routing: a rejection is a StateClosed, an acceptance is of
\* a content type that is dropped.
RouteOf(f) == (IF f.kind \in {"data", "closed", "rejected"} THEN conns ELSE {})
                \cup (IF f.kind \in {"dial", "closed", "rejected"} THEN binds ELSE {})

\* note_read, as the probe's clock sees it: before or since its last probe.
NoteRead == lastRead' = IF probe = "sleep" THEN "sleep" ELSE "probe"

RxReply ==
  /\ rx = "read" /\ inbox # <<>>
  /\ LET f == Head(inbox) IN
       /\ f.kind \in {"ok", "rejected"} /\ f.to \in waiters
       /\ waiters' = waiters \ {f.to}
       /\ reply' = [reply EXCEPT ![f.to] = f.kind]
  /\ inbox' = Tail(inbox)
  /\ NoteRead
  /\ UNCHANGED <<chan, conns, binds, streams, loop, sent, answered, routed, eof, RxElsewhere>>

\* Fault: the routing is tried before the waiters are.
RxRouteFirst ==
  /\ rx = "read" /\ inbox # <<>>
  /\ LET f == Head(inbox) IN
       /\ rx' = IF f.to \in RouteOf(f) THEN "dispatch" ELSE "read"
       /\ frame' = IF f.to \in RouteOf(f) THEN f ELSE NoFrame
  /\ inbox' = Tail(inbox)
  /\ NoteRead
  /\ UNCHANGED <<chan, maps, reply, streams, notified, aborted, sent, answered, routed, eof, RxElsewhere>>

\* Not a reply anyone waits for: look its conn up and clone the sender.
RxRoute ==
  /\ rx = "read" /\ inbox # <<>>
  /\ LET f == Head(inbox) IN
       /\ ~(f.kind \in {"ok", "rejected"} /\ f.to \in waiters)
       /\ rx' = IF f.to \in RouteOf(f) THEN "dispatch" ELSE "read"
       /\ frame' = IF f.to \in RouteOf(f) THEN f ELSE NoFrame
  /\ inbox' = Tail(inbox)
  /\ NoteRead
  /\ UNCHANGED <<chan, maps, reply, streams, notified, aborted, sent, answered, routed, eof, RxElsewhere>>

\* The Notified future is created and enabled before `closed` is looked at.
RxEnable ==
  /\ rx = "dispatch"
  /\ rx' = "check" /\ notified' = "enabled"
  /\ UNCHANGED <<frame, aborted, chan, maps, reply, streams, lastRead, router, RxElsewhere>>

RxLeave(label) ==
  /\ rx' = label /\ frame' = NoFrame /\ notified' = "none"
  /\ UNCHANGED aborted

\* Fault: no look at `closed` between the enabling and the send.
RxCheckOmitted ==
  /\ rx = "check"
  /\ rx' = "send"
  /\ UNCHANGED <<frame, notified, aborted, chan, maps, reply, streams, lastRead, router, RxElsewhere>>

\* A mark_closed that came before the enabling is seen here.
RxCheck ==
  /\ rx = "check"
  /\ IF closed THEN RxLeave("exit") ELSE rx' = "send" /\ UNCHANGED <<frame, notified, aborted>>
  /\ UNCHANGED <<chan, maps, reply, streams, lastRead, router, RxElsewhere>>

\* The biased select: the notification first, then the send.
RxNotified ==
  /\ rx = "send" /\ notified = "woken"
  /\ RxLeave("exit")
  /\ UNCHANGED <<chan, maps, reply, streams, lastRead, router, RxElsewhere>>

\* Fault: try_send, which drops the frame when the queue is full.
RxSendDropping ==
  /\ rx = "send" /\ notified # "woken"
  /\ LET c == frame.to IN
       /\ pc[c] \in Receiving
       /\ queue' = IF Len(queue[c]) < QueueCap THEN [queue EXCEPT ![c] = Append(@, frame)] ELSE queue
  /\ RxLeave("read")
  /\ UNCHANGED <<chan, maps, reply, got, lastRead, router, RxElsewhere>>

\* send().await parks the whole loop while this conn's queue is full.
RxSend ==
  /\ rx = "send" /\ notified # "woken"
  /\ LET c == frame.to IN
       /\ pc[c] \in Receiving /\ Len(queue[c]) < QueueCap
       /\ queue' = [queue EXCEPT ![c] = Append(@, frame)]
  /\ RxLeave("read")
  /\ UNCHANGED <<chan, maps, reply, got, lastRead, router, RxElsewhere>>

\* send returns an error when the receiver is gone; the frame is dropped.
RxSendErr ==
  /\ rx = "send" /\ notified # "woken" /\ pc[frame.to] \notin Receiving
  /\ RxLeave("read")
  /\ UNCHANGED <<chan, maps, reply, streams, lastRead, router, RxElsewhere>>

RxReadErr ==
  /\ rx = "read" /\ inbox = <<>> /\ eof
  /\ RxLeave("exit")
  /\ UNCHANGED <<chan, maps, reply, streams, lastRead, router, RxElsewhere>>

RxMarkClosed ==
  /\ rx = "exit"
  /\ CompareExchange("rx")
  /\ UNCHANGED <<maps, reply, streams, loop, lastRead, router, RxElsewhere>>

RxEnd ==
  /\ rx = "exit" /\ MarkClosedReturns("rx")
  /\ RxLeave("dead")
  /\ UNCHANGED <<chan, maps, reply, streams, lastRead, router, RxElsewhere>>

\* JoinHandle::abort takes effect at the task's next await point.
RxAborted ==
  /\ aborted /\ rx \in {"read", "send"}
  /\ RxLeave("dead")
  /\ UNCHANGED <<chan, maps, reply, streams, lastRead, router, RxElsewhere>>

Rx == \/ RxReply \/ RxRoute \/ RxEnable \/ RxCheck \/ RxNotified \/ RxSend
      \/ RxSendErr \/ RxReadErr \/ RxMarkClosed \/ RxEnd \/ RxAborted

----------------------------------------------------------------------------
(* run_latency_probe and send_latency_probe.                               *)

ProbeElsewhere == <<pc, streams, loop, owner>>

\* The interval passes; a closed channel ends the task.
ProbeWake ==
  /\ "probe" \in Events
  /\ probe = "sleep"
  /\ probe' = IF closed THEN "done" ELSE "arm"
  /\ reply' = [reply EXCEPT !["probe"] = "none"]
  /\ UNCHANGED <<chan, maps, lastRead, out, router, ProbeElsewhere>>

\* A new probe has a new sequence number: an answer to an earlier one, still
\* in flight, is from now on a frame that nobody waits for.
Superseded(f) == IF f.to = "probe" THEN [to |-> "probe", kind |-> "other", n |-> f.n] ELSE f

ProbeArm ==
  /\ probe = "arm"
  /\ waiters' = waiters \cup {"probe"}
  /\ inbox' = [i \in DOMAIN inbox |-> Superseded(inbox[i])]
  /\ sent' = sent \ {"probe"}
  /\ answered' = [answered EXCEPT !["probe"] = "none"]
  /\ probe' = "lock"
  /\ UNCHANGED <<chan, conns, binds, reply, lastRead, out, routed, eof, ProbeElsewhere>>

ProbeLock ==
  /\ probe = "lock" /\ writer = "none"
  /\ writer' = "probe" /\ probe' = "write"
  /\ UNCHANGED <<chan, maps, reply, lastRead, wire, torn, router, ProbeElsewhere>>

ProbeWriteOk ==
  /\ probe = "write" /\ wire = "up"
  /\ writer' = "none" /\ probe' = "await"
  /\ sent' = IF torn THEN sent ELSE sent \cup {"probe"}
  /\ UNCHANGED <<chan, maps, reply, lastRead, wire, torn, answered, routed, inbox, eof, ProbeElsewhere>>

\* The write fails, or its timeout passes on the lock or on a stalled wire.
ProbeWriteErr ==
  /\ \/ probe = "lock" /\ writer # "none" /\ UNCHANGED torn
     \/ probe = "write" /\ wire = "down" /\ UNCHANGED torn
     \/ probe = "write" /\ wire = "stalled" /\ (UNCHANGED torn \/ torn' = TRUE)
  /\ writer' = IF writer = "probe" THEN "none" ELSE writer
  /\ waiters' = waiters \ {"probe"}
  /\ probe' = "markclosed"
  /\ UNCHANGED <<chan, conns, binds, reply, lastRead, wire, router, ProbeElsewhere>>

\* A reply: alive, sleep again.
ProbeAlive ==
  /\ probe = "await" /\ reply["probe"] # "none"
  /\ probe' = "sleep" /\ lastRead' = "old"
  /\ UNCHANGED <<chan, maps, reply, out, router, ProbeElsewhere>>

ProbeClosed ==
  /\ probe = "await" /\ reply["probe"] = "none" /\ "probe" \notin waiters
  /\ probe' = "done"
  /\ UNCHANGED <<chan, maps, reply, lastRead, out, router, ProbeElsewhere>>

ProbeTimeout ==
  /\ probe = "await" /\ reply["probe"] = "none" /\ "probe" \in waiters
  /\ probe' = "unarm"
  /\ UNCHANGED <<chan, maps, reply, lastRead, out, router, ProbeElsewhere>>

\* Close only if nothing was read for more than the interval: certainly so if
\* nothing was read since before the sleep, certainly not if something was
\* read since the probe went out, and either way in between.
ProbeJudge ==
  /\ probe = "unarm"
  /\ waiters' = waiters \ {"probe"}
  /\ \/ lastRead \in {"old", "sleep"} /\ probe' = "markclosed" /\ UNCHANGED lastRead
     \/ lastRead \in {"sleep", "probe"} /\ probe' = "sleep" /\ lastRead' = "old"
  /\ UNCHANGED <<chan, conns, binds, reply, out, router, ProbeElsewhere>>

ProbeMarkClosed ==
  /\ probe = "markclosed"
  /\ CompareExchange("probe")
  /\ UNCHANGED <<maps, reply, probe, lastRead, out, router, ProbeElsewhere>>

ProbeMarkedClosed ==
  /\ probe = "markclosed" /\ MarkClosedReturns("probe")
  /\ probe' = "shutlock"
  /\ UNCHANGED <<chan, maps, reply, lastRead, out, router, ProbeElsewhere>>

\* shutdown_channel_write: it shuts the write half, or gives up on the lock
\* or on a stalled wire.
ProbeShutdown ==
  /\ probe = "shutlock"
  /\ probe' = "done"
  /\ wire' = IF writer = "none" /\ wire # "stalled" THEN "down" ELSE wire
  /\ UNCHANGED <<chan, maps, reply, lastRead, writer, torn, router, ProbeElsewhere>>

ProbeAborted ==
  /\ aborted /\ probe \in {"sleep", "lock", "write", "await", "shutlock"}
  /\ probe' = "done"
  /\ writer' = IF writer = "probe" THEN "none" ELSE writer
  /\ UNCHANGED torn \/ (writer = "probe" /\ torn' = TRUE)
  /\ UNCHANGED <<chan, maps, reply, lastRead, wire, router, ProbeElsewhere>>

Prober == \/ ProbeWake \/ ProbeArm \/ ProbeLock \/ ProbeWriteOk \/ ProbeWriteErr
          \/ ProbeAlive \/ ProbeClosed \/ ProbeTimeout \/ ProbeJudge
          \/ ProbeMarkClosed \/ ProbeMarkedClosed \/ ProbeShutdown \/ ProbeAborted

----------------------------------------------------------------------------
(* The owner: EdgeChannel::close, and its Drop.                            *)

OwnerElsewhere == <<maps, pc, reply, streams, probe, lastRead, router>>

\* No dial or send_bind borrows the channel.
Unborrowed == \A c \in Streams : pc[c] \notin InFlight

OwnerClose ==
  /\ "close" \in Events
  /\ owner = "live" /\ Unborrowed
  /\ owner' = "shutlock"
  /\ UNCHANGED <<chan, loop, out, OwnerElsewhere>>

\* Abort both tasks; mark_closed follows without an await.
OwnerAbort ==
  /\ owner' = "markclosed" /\ aborted' = TRUE
  /\ UNCHANGED <<rx, frame, notified>>

OwnerShutdown ==
  /\ owner = "shutlock" /\ writer = "none" /\ wire # "stalled"
  /\ wire' = "down"
  /\ OwnerAbort
  /\ UNCHANGED <<chan, writer, torn, OwnerElsewhere>>

OwnerDrop ==
  /\ "drop" \in Events
  /\ owner = "live" /\ Unborrowed
  /\ OwnerAbort
  /\ UNCHANGED <<chan, out, OwnerElsewhere>>

OwnerMarkClosed ==
  /\ owner = "markclosed"
  /\ CompareExchange("owner")
  /\ UNCHANGED <<owner, loop, out, OwnerElsewhere>>

OwnerGone ==
  /\ owner = "markclosed" /\ MarkClosedReturns("owner")
  /\ owner' = "gone"
  /\ UNCHANGED <<chan, loop, out, OwnerElsewhere>>

Owner == OwnerShutdown \/ OwnerMarkClosed \/ OwnerGone

----------------------------------------------------------------------------
(* The router and the network, from what the code must cope with.          *)

RouterElsewhere == <<chan, maps, pc, reply, streams, loop, probe, lastRead, owner>>

\* Once nobody reads, what the router sends is of no consequence.
Deliver(to, kind, n) ==
  /\ ~eof /\ rx # "dead" /\ Len(inbox) < MaxInbox
  /\ inbox' = Append(inbox, [to |-> to, kind |-> kind, n |-> n])

RouterReply(c) ==
  /\ c \in sent /\ answered[c] = "none"
  /\ \E verdict \in {"ok", "rejected"} :
       Deliver(c, verdict, 0) /\ answered' = [answered EXCEPT ![c] = verdict]
  /\ UNCHANGED <<out, sent, routed, eof, RouterElsewhere>>

\* Data for a conn, a Dial for a bind, numbered in order, and a StateClosed.
StreamKind(c, n) == IF n = MaxFrames THEN "closed" ELSE IF c \in Binds THEN "dial" ELSE "data"

RouterStream(c) ==
  /\ answered[c] = "ok" /\ routed[c] < MaxFrames
  /\ Deliver(c, StreamKind(c, routed[c] + 1), routed[c] + 1)
  /\ routed' = [routed EXCEPT ![c] = @ + 1]
  /\ UNCHANGED <<out, sent, answered, eof, RouterElsewhere>>

\* A frame for nobody: an unknown conn, a late answer, a type not dispatched.
RouterOther ==
  /\ "stray" \in Events
  /\ Deliver("probe", "other", 0)
  /\ UNCHANGED <<out, sent, answered, routed, eof, RouterElsewhere>>

RouterEof ==
  /\ "eof" \in Events
  /\ ~eof /\ eof' = TRUE
  /\ UNCHANGED <<out, sent, answered, routed, inbox, RouterElsewhere>>

\* The peer stops reading, reads again, or the transport fails for good.
WireChange ==
  /\ \/ "stall" \in Events /\ wire = "up" /\ wire' = "stalled"
     \/ wire = "stalled" /\ wire' = "up"
     \/ "down" \in Events /\ wire # "down" /\ wire' = "down"
  /\ UNCHANGED <<writer, torn, router, RouterElsewhere>>

Environment == \/ \E c \in Waiting : RouterReply(c)
               \/ \E c \in Streams : RouterStream(c)
               \/ RouterOther \/ RouterEof \/ WireChange

----------------------------------------------------------------------------
\* The steps a call takes by itself once it has begun.
CallStep(c) ==
  \/ InsertWaiter(c) \/ LockWrite(c) \/ WriteOk(c) \/ WriteErr(c)
  \/ CallMarkClosed(c) \/ CallMarkedClosed(c) \/ ReplyArrives(c) \/ ReplyDropped(c)
  \/ RemoveWaiter(c) \/ Unregister(c)

Next ==
  \/ Teardown \/ Rx \/ Prober \/ Owner \/ Environment
  \/ OwnerClose \/ OwnerDrop
  \/ \E d \in Dials : DialStart(d) \/ RegisterConn(d) \/ CloseConn(d) \/ DropConn(d)
  \/ \E b \in Binds : BindStart(b) \/ RegisterBind(b)
  \/ \E p \in Pushes : PushStart(p) \/ PushTimeout(p)
  \/ \E c \in Calls : CallStep(c) \/ Cancel(c)
  \/ \E c \in Streams : Recv(c)

Spec == Init /\ [][Next]_vars

(***************************************************************************)
(* The runtime polls every task that can make progress, and timers fire.   *)
(* Nothing is assumed of the router, the transport, the callers' timeouts, *)
(* the reader of a connection, or the owner's decision to close.           *)
(***************************************************************************)
Fairness ==
  /\ WF_vars(Teardown) /\ WF_vars(Rx) /\ WF_vars(Prober) /\ WF_vars(Owner)
  /\ \A c \in Calls : WF_vars(CallStep(c))
  /\ \A d \in Dials : WF_vars(RegisterConn(d))
  /\ \A b \in Binds : WF_vars(RegisterBind(b))
  /\ \A p \in Pushes : WF_vars(PushTimeout(p))

FairSpec == Spec /\ Fairness

----------------------------------------------------------------------------
(* Safety.                                                                 *)

\* mark_closed empties the maps once, so a registration that races it must not
\* land after the clear: register_conn and register_bind read `closed` under
\* the map's lock.  A zombie entry would keep its reader from ever seeing EOF.
NoZombies == teardown = "done" => conns = {} /\ binds = {}

\* Frames for c: those that have reached the read loop, its queue or its reader,
\* oldest first, and where the others are in flight.
ForConn(c, f) == f.to = c /\ f.kind \in {"data", "closed", "dial"}
Passed(c) == got[c] \o queue[c] \o (IF Dispatching(c) THEN <<frame>> ELSE <<>>)
Coming(c) == {i \in DOMAIN inbox : ForConn(c, inbox[i])}

\* Until the owner aborts the read loop, and as long as nobody but the read
\* loop itself closes the channel, what the router sends to a dialed conn or
\* an accepted bind is neither lost, duplicated nor reordered by the
\* multiplexer: it is in its reader, its queue, the loop's hand or in flight.
\* It needs the registration to precede the request on the wire.
NothingLost ==
  \A c \in Streams :
    /\ pc[c] \in {"await", "hdrlock", "hdrwrite", "open"}
    /\ closer \in {"none", "rx"} /\ ~aborted
    => /\ \A i \in DOMAIN Passed(c) : Passed(c)[i].n = i
       /\ {inbox[i].n : i \in Coming(c)} = (Len(Passed(c)) + 1)..routed[c]
       /\ \A i, j \in Coming(c) : i < j => inbox[i].n < inbox[j].n

\* A reader is told EOF only if the channel is closed: from the moment a dial
\* or a bind is on the wire its sender stays in the map, or in the read loop's
\* hand, whatever the other calls sharing the maps do.  With NothingLost: when
\* it is the read loop that closed, at the end of the router's stream, EOF
\* comes after the last frame.
NoFalseEof == \A c \in Streams : pc[c] = "open" /\ ~HasSender(c) => closed

\* A reply the router sent to a call that still waits is either with the call
\* or on its way to a waiter that is still armed, unless the channel is closed:
\* the waiter precedes the request, and only its own reply removes it.
RepliesDelivered ==
  \A c \in Calls :
    pc[c] = "await" /\ answered[c] # "none" /\ ~closed /\ ~aborted
      => \/ reply[c] = answered[c]
         \/ c \in waiters /\ \E i \in DOMAIN inbox : inbox[i].to = c /\ inbox[i].kind = answered[c]

\* On a live channel a call that failed took back all it had registered, and
\* EdgeConn::close leaves an entry only when it could not write StateClosed.
NoLeaks ==
  ~closed => \A c \in Calls :
    /\ pc[c] = "failed" => c \notin waiters \cup conns \cup binds
    /\ pc[c] = "closed" /\ c \in conns => wire = "down"
    /\ pc[c] = "open" => c \notin waiters

(* Liveness, under FairSpec.                                               *)

\* Once the channel is closed every sender goes away, the clone in the read
\* loop's hand included: each reader and each accept loop will see EOF.
SendersReleased == closed ~> \A c \in Streams : ~HasSender(c)

\* A conn whose reader does not drain its queue cannot park the read loop for
\* ever: the probe finds that nothing is read and the close notification
\* releases the loop, whose Notified is enabled before it looks at `closed`.
StallReleased == rx = "send" ~> rx # "send"

(* What the documentation says and the code does not do.                   *)

\* rxloop.rs: closing the channel wakes every awaiter, so no call awaits a
\* reply on a channel that is torn down with its sender still in the map.  (One
\* that does is left to its caller's timeout, which may drop it here too.)
EveryAwaiterWoken ==
  teardown = "done" => \A c \in Calls : pc[c] = "await" => c \notin waiters
=============================================================================
