----------------------------- MODULE RouterPool -----------------------------
(***************************************************************************)
(* The channels of an EdgeClient to its edge routers: the pool, the fan-out*)
(* of connects that fills it (edge/channel/{open,fanout}.rs), the registry *)
(* of live channels, and the renewal of an OIDC token, by the refresh timer*)
(* and by a connect that meets a 401, each of which then pushes it to the  *)
(* live channels (edge/refresh/{timer,push}.rs, edge/client/auth.rs).      *)
(*                                                                         *)
(* A flow is one invocation of open_or_reuse_pooled_channel, with what its *)
(* connect did to have the session for it; each address                    *)
(* it fans out to has an opener, a task of its own, and a channel is named *)
(* after the opener that opened it.  Of tokens it only matters whether one *)
(* is the current one.  The pool's mutex is never held over an await.      *)
(***************************************************************************)
EXTENDS Naturals, FiniteSets, Functions

CONSTANTS
  Flows,    \* invocations of open_or_reuse_pooled_channel
  Addrs,    \* addresses of edge routers
  Routers,  \* the addresses that the filter leaves of a flow's session
  Expired,  \* the flows that may meet a 401 on their way
  Timer,    \* the refresh timer
  NoChannel

Chans == {c \in Flows \X Addrs : c[2] \in Routers[c[1]]}
Addr(c) == c[2]
Pushers == Expired \cup {Timer}

ASSUME PoolAssumption ==
  /\ Routers \in [Flows -> SUBSET Addrs]
  /\ Expired \subseteq Flows /\ Timer \notin Flows
  /\ NoChannel \notin Chans

VARIABLES
  pool,     \* channel_pool
  live,     \* live_channels, weakly
  open,     \* the channels that are not closed
  fresh,    \* those whose router has been given the current token
  flow,     \* where a flow is
  hold,     \* the channel it returns
  spare,    \* the addresses that it found unconnected
  opener,   \* where an opener is
  current,  \* the openers that carry the current token
  found,    \* what an opener returns
  push,     \* where the renewal and push of the timer, or of a flow, is
  latest,   \* those whose push carries the current token
  pushing   \* the channels that each has still to tell

pushes == <<push, latest, pushing>>
vars == <<pool, live, open, fresh, flow, hold, spare, opener, current, found, pushes>>

FlowEnded == {"connected", "failed", "cancelled"}

TypeOK ==
  /\ pool \in [Addrs -> Chans \cup {NoChannel}] /\ \A a \in Addrs : pool[a] # NoChannel => Addr(pool[a]) = a
  /\ live \subseteq Chans /\ open \subseteq Chans /\ fresh \subseteq Chans
  /\ flow \in [Flows -> {"start", "renewing", "renewed", "config", "unconnected", "spareconfig", "waiting"} \cup FlowEnded]
  /\ hold \in [Flows -> Chans \cup {NoChannel}] /\ spare \in [Flows -> SUBSET Addrs]
  /\ opener \in [Chans -> {"none", "check", "dial", "register", "sent", "done"}]
  /\ current \subseteq Chans /\ found \in [Chans -> Chans \cup {NoChannel}]
  /\ push \in [Pushers -> {"idle", "read", "snapshot", "push", "hung"}]
  /\ latest \subseteq Pushers /\ pushing \in [Pushers -> SUBSET Chans]

Init ==
  /\ pool = [a \in Addrs |-> NoChannel] /\ live = {} /\ open = {} /\ fresh = {}
  /\ flow = [f \in Flows |-> "start"] /\ hold = [f \in Flows |-> NoChannel]
  /\ spare = [f \in Flows |-> {}]
  /\ opener = [c \in Chans |-> "none"] /\ current = {} /\ found = [c \in Chans |-> NoChannel]
  /\ push = [p \in Pushers |-> "idle"] /\ latest = {} /\ pushing = [p \in Pushers |-> {}]

Alive(a) == pool[a] \in open

FlowGoto(f, label) == flow' = [flow EXCEPT ![f] = label]
OpenerGoto(c, label) == opener' = [opener EXCEPT ![c] = label]
PushGoto(p, label) == push' = [push EXCEPT ![p] = label]

----------------------------------------------------------------------------
(* open_or_reuse_pooled_channel.                                           *)

\* Openers that are given the token now carry the current one until it is
\* renewed; channel_client_config is awaited before they are spawned.
ReadToken(f, addrs) == current' = current \cup ({f} \X addrs)

Spawn(f, addrs) ==
  opener' = [c \in Chans |-> IF c[1] = f /\ Addr(c) \in addrs THEN "check" ELSE opener[c]]

\* pool_get_alive takes the dead ones out; the best of the others is used.
Start(f) ==
  /\ flow[f] \in {"start", "renewed"}
  /\ pool' = [a \in Addrs |-> IF a \in Routers[f] /\ ~Alive(a) THEN NoChannel ELSE pool[a]]
  /\ \/ Routers[f] = {} /\ FlowGoto(f, "failed") /\ UNCHANGED <<hold, current>>
     \/ \E a \in Routers[f] : /\ Alive(a)
                              /\ hold' = [hold EXCEPT ![f] = pool[a]]
                              /\ FlowGoto(f, "unconnected") /\ UNCHANGED current
     \/ /\ Routers[f] # {} /\ \A a \in Routers[f] : ~Alive(a)
        /\ FlowGoto(f, "config") /\ ReadToken(f, Routers[f]) /\ UNCHANGED hold
  /\ UNCHANGED <<live, open, fresh, spare, opener, found, pushes>>

\* pool_unconnected: background openers for what is not connected.
Unconnected(f) ==
  /\ flow[f] = "unconnected"
  /\ spare' = [spare EXCEPT ![f] = {a \in Routers[f] : ~Alive(a)}]
  /\ IF spare'[f] = {} THEN FlowGoto(f, "connected") /\ UNCHANGED current
                       ELSE FlowGoto(f, "spareconfig") /\ ReadToken(f, spare'[f])
  /\ UNCHANGED <<pool, live, open, fresh, hold, opener, found, pushes>>

\* spawn_router_openers, or no certificate for them: the flow has its channel.
SpawnSpare(f) ==
  /\ flow[f] = "spareconfig"
  /\ Spawn(f, spare[f]) \/ UNCHANGED opener
  /\ FlowGoto(f, "connected")
  /\ UNCHANGED <<pool, live, open, fresh, hold, spare, current, found, pushes>>

FanOut(f) ==
  /\ flow[f] = "config"
  /\ \/ FlowGoto(f, "waiting") /\ Spawn(f, Routers[f])
     \/ FlowGoto(f, "failed") /\ UNCHANGED opener
  /\ UNCHANGED <<pool, live, open, fresh, hold, spare, current, found, pushes>>

Openers(f) == {c \in Chans : c[1] = f /\ opener[c] # "none"}

\* Fault: the first result is the answer, an error too.
FirstResult(f) ==
  /\ flow[f] = "waiting"
  /\ \E c \in Openers(f) :
       /\ opener[c] = "sent" /\ OpenerGoto(c, "done")
       /\ hold' = [hold EXCEPT ![f] = found[c]]
       /\ FlowGoto(f, IF found[c] # NoChannel THEN "connected" ELSE "failed")
  /\ UNCHANGED <<pool, live, open, fresh, spare, current, found, pushes>>

\* Fault: the fan-out keeps a sender of its own.
ReceiveKeepingSender(f) ==
  /\ flow[f] = "waiting"
  /\ \E c \in Openers(f) :
       /\ opener[c] = "sent" /\ OpenerGoto(c, "done")
       /\ IF found[c] = NoChannel THEN UNCHANGED <<flow, hold>>
            ELSE FlowGoto(f, "connected") /\ hold' = [hold EXCEPT ![f] = found[c]]
  /\ UNCHANGED <<pool, live, open, fresh, spare, current, found, pushes>>

\* fan_out_first_ok: the first success is the answer, the last error only when
\* every sender is gone.
Receive(f) ==
  /\ flow[f] = "waiting"
  /\ \/ \E c \in Openers(f) :
          /\ opener[c] = "sent" /\ OpenerGoto(c, "done")
          /\ IF found[c] = NoChannel THEN UNCHANGED <<flow, hold>>
               ELSE FlowGoto(f, "connected") /\ hold' = [hold EXCEPT ![f] = found[c]]
     \/ /\ \A c \in Openers(f) : opener[c] = "done"
        /\ FlowGoto(f, "failed") /\ UNCHANGED <<hold, opener>>
  /\ UNCHANGED <<pool, live, open, fresh, spare, current, found, pushes>>

\* A push that ends, or is dropped.
PushEnds(p) ==
  /\ PushGoto(p, "idle")
  /\ latest' = latest \ {p}
  /\ pushing' = [pushing EXCEPT ![p] = {}]

\* The connect timeout drops the flow, also while it renews and pushes; its
\* openers go on without it.
Cancel(f) ==
  /\ flow[f] \in {"renewing", "renewed", "config", "spareconfig", "waiting"}
  /\ FlowGoto(f, "cancelled")
  /\ hold' = [hold EXCEPT ![f] = NoChannel]
  /\ IF f \in Expired THEN PushEnds(f) ELSE UNCHANGED pushes
  /\ UNCHANGED <<pool, live, open, fresh, spare, opener, current, found>>

----------------------------------------------------------------------------
(* open_and_pool_router, in a task with a timeout around it.               *)

Return(c, result) ==
  /\ current' = current \ {c}
  /\ found' = [found EXCEPT ![c] = result]
  /\ OpenerGoto(c, "sent")

\* pool_get_alive_one: one that is dead is taken out.
Check(c) ==
  /\ opener[c] = "check"
  /\ IF Alive(Addr(c)) THEN Return(c, pool[Addr(c)]) /\ UNCHANGED pool
       ELSE /\ pool' = [pool EXCEPT ![Addr(c)] = NoChannel]
            /\ OpenerGoto(c, "dial") /\ UNCHANGED <<current, found>>
  /\ UNCHANGED <<live, open, fresh, flow, hold, spare, pushes>>

Store(c) ==
  /\ pool' = [pool EXCEPT ![Addr(c)] = c]
  /\ open' = open \cup {c}
  /\ fresh' = IF c \in current THEN fresh \cup {c} ELSE fresh
  /\ OpenerGoto(c, "register")
  /\ UNCHANGED <<current, found>>

\* Fault: the pool is not looked at again after the handshake.
DialedBlind(c) ==
  /\ opener[c] = "dial"
  /\ Store(c)
  /\ UNCHANGED <<live, flow, hold, spare, pushes>>

\* The handshake is done; pool_store_or_reuse_into closes the new channel if
\* there is a live one by now.
Dialed(c) ==
  /\ opener[c] = "dial"
  /\ IF Alive(Addr(c)) THEN Return(c, pool[Addr(c)]) /\ UNCHANGED <<pool, open, fresh>>
                       ELSE Store(c)
  /\ UNCHANGED <<live, flow, hold, spare, pushes>>

\* Its error, or ROUTER_DIAL_TIMEOUT.
DialErr(c) ==
  /\ opener[c] = "dial"
  /\ Return(c, NoChannel)
  /\ UNCHANGED <<pool, live, open, fresh, flow, hold, spare, pushes>>

Strong(c) == c \in Range(pool) \cup Range(hold) \cup Range(found) \cup UNION Range(pushing)

\* Fault: the registry is not told of a channel that went into the pool.
RegisterNot(c) ==
  /\ opener[c] = "register"
  /\ Return(c, c)
  /\ UNCHANGED <<pool, live, open, fresh, flow, hold, spare, pushes>>

\* register_live_channel_into, after the pool's lock is let go.
Register(c) ==
  /\ opener[c] = "register"
  /\ live' = {d \in live : Strong(d)} \cup {c}
  /\ Return(c, c)
  /\ UNCHANGED <<pool, open, fresh, flow, hold, spare, pushes>>

\* A router hangs up, or the read loop ends for another reason.
Close(c) ==
  /\ c \in open
  /\ open' = open \ {c} /\ fresh' = fresh \ {c}
  /\ UNCHANGED <<pool, live, flow, hold, spare, opener, current, found, pushes>>

----------------------------------------------------------------------------
(* do_oidc_session_refresh and push_token_to_live_channels.                *)

\* The current token is replaced, and nobody has the new one yet; or another
\* has replaced it since the 401 or the end of the sleep, and it is kept.
Exchange ==
  \/ fresh' = {} /\ current' = {} /\ latest' = {}
  \/ UNCHANGED <<fresh, current, latest>>

\* run_refreshes, with an OIDC session.
Renew ==
  /\ push[Timer] = "idle"
  /\ PushGoto(Timer, "read")
  /\ Exchange
  /\ UNCHANGED <<pool, live, open, flow, hold, spare, opener, found, pushing>>

\* with_reauth_retry: a connect that met a 401 on its way here renews the token
\* as the timer does, and pushes it, before it tries again; or has the 401.
RenewByConnect(f) ==
  /\ f \in Expired /\ flow[f] = "start"
  /\ \/ FlowGoto(f, "renewing") /\ PushGoto(f, "read") /\ Exchange
     \/ FlowGoto(f, "failed") /\ UNCHANGED <<push, fresh, current, latest>>
  /\ UNCHANGED <<pool, live, open, hold, spare, opener, found, pushing>>

\* The push reads the token for itself,
PushReads(p) ==
  /\ push[p] = "read"
  /\ PushGoto(p, "snapshot")
  /\ latest' = latest \cup {p}
  /\ UNCHANGED <<pool, live, open, fresh, flow, hold, spare, opener, current, found, pushing>>

\* takes its snapshot,
Snapshot(p) ==
  /\ push[p] = "snapshot"
  /\ PushGoto(p, "push")
  /\ live' = {d \in live : Strong(d)}
  /\ pushing' = [pushing EXCEPT ![p] = live' \cap open]
  /\ UNCHANGED <<pool, open, fresh, flow, hold, spare, opener, current, found, latest>>

Told(p, c) ==
  /\ push[p] = "push" /\ c \in pushing[p]
  /\ pushing' = [pushing EXCEPT ![p] = @ \ {c}]

\* and tells one channel at a time: update_token succeeds,
Push(p, c) ==
  /\ Told(p, c)
  /\ fresh' = IF p \in latest /\ c \in open THEN fresh \cup {c} ELSE fresh \ {c}
  /\ UNCHANGED <<pool, live, open, flow, hold, spare, opener, current, found, push, latest>>

\* or fails, or has no answer in time, and is logged,
PushErr(p, c) ==
  /\ Told(p, c)
  /\ UNCHANGED <<pool, live, open, fresh, flow, hold, spare, opener, current, found, push, latest>>

\* or its write, which its timeout does not cover, never ends.
PushHangs(p, c) ==
  /\ push[p] = "push" /\ c \in pushing[p]
  /\ PushGoto(p, "hung")
  /\ UNCHANGED <<pool, live, open, fresh, flow, hold, spare, opener, current, found, latest, pushing>>

Pushed(p) ==
  /\ push[p] = "push" /\ pushing[p] = {}
  /\ PushEnds(p)
  /\ IF p = Timer THEN UNCHANGED flow ELSE FlowGoto(p, "renewed")
  /\ UNCHANGED <<pool, live, open, fresh, hold, spare, opener, current, found>>

----------------------------------------------------------------------------
FlowStep(f) == Start(f) \/ Unconnected(f) \/ SpawnSpare(f) \/ FanOut(f) \/ Receive(f)
OpenerStep(c) == Check(c) \/ Dialed(c) \/ DialErr(c) \/ Register(c)
PushStep(p) == PushReads(p) \/ Snapshot(p) \/ (\E c \in Chans : Push(p, c) \/ PushErr(p, c)) \/ Pushed(p)

Next ==
  \/ \E f \in Flows : FlowStep(f) \/ RenewByConnect(f) \/ Cancel(f)
  \/ \E c \in Chans : OpenerStep(c) \/ Close(c)
  \/ Renew
  \/ \E p \in Pushers : PushStep(p) \/ \E c \in Chans : PushHangs(p, c)
  \/ push[Timer] = "hung" /\ UNCHANGED vars

Spec == Init /\ [][Next]_vars

\* Tasks are polled, handshakes end (ROUTER_DIAL_TIMEOUT), the controller grants
\* the timer a token some time, and a router that stays connected takes it some
\* time.  That a write ends is not assumed: a flow whose push hangs has its
\* connect timeout, the timer has none.
FairSpec ==
  /\ Spec
  /\ \A f \in Flows : WF_vars(FlowStep(f))
  /\ \A f \in Expired : WF_vars(push[f] = "hung" /\ Cancel(f))
  /\ \A c \in Chans : WF_vars(OpenerStep(c)) /\ SF_vars(Push(Timer, c))
  /\ WF_vars(Renew)
  /\ \A p \in Pushers : WF_vars(PushStep(p))

----------------------------------------------------------------------------
\* pool.rs: whatever flows, openers and hang-ups do, a router has at most one
\* open channel, and it is the one in the pool: none is left that nobody can
\* find, to hold a TLS connection for ever.
NoOrphans == \A c \in open : pool[Addr(c)] = c

\* fan_out_first_ok: a flow that spawned openers fails only if none of them had
\* a channel, though their results come in any order.
FailsOnlyIfAllFail ==
  \A f \in Flows : flow[f] = "failed" => \A c \in Openers(f) : opener[c] = "done" /\ found[c] = NoChannel

\* push.rs: a channel is not left with an old token for ever, though it may
\* have registered after a push took its snapshot, have refused the token, or
\* have been told the old one by a push that another overtook: unless the
\* timer's own push hangs in a write to one of the channels.
TokenArrives ==
  \A c \in Chans : <>[](c \in open) => []<>(c \in fresh) \/ <>(push[Timer] = "hung")

\* Every flow ends, and every opener with or without it, so that a channel a
\* flow gave up on is there for the next one.
OpenersEnd ==
  /\ \A f \in Flows : <>(flow[f] \in FlowEnded)
  /\ \A c \in Chans : opener[c] = "check" ~> opener[c] \in {"sent", "done"}
=============================================================================
