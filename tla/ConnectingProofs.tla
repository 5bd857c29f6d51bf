-------------------------- MODULE ConnectingProofs --------------------------
(***************************************************************************)
(* What a connect gets while others connect too: a channel to a router     *)
(* (RouterPool), and then an id on it (ConnIdAlloc).  For any number of    *)
(* flows, routers and callers, and any width of the counter.               *)
(***************************************************************************)
EXTENDS RouterPool, ConnIdAlloc, FiniteSetTheorems, TLAPS

(***************************************************************************)
(* The channel.  A router has at most one open channel and it is in the    *)
(* pool, and a flow fails only if all its openers did.  The first is       *)
(* inductive with the types.  The second needs where the openers of a flow *)
(* are while the flow has not yet ended (Spawned).                         *)
(***************************************************************************)

FlowPcs == {"start", "renewing", "renewed", "config", "unconnected", "spareconfig", "waiting",
            "connected", "failed", "cancelled"}
OpenerPcs == {"none", "check", "dial", "register", "sent", "done"}
PushPcs == {"idle", "read", "snapshot", "push", "hung"}

\* A channel has the address that its opener was given.
LEMMA ChanAddr ==
  /\ \A c \in Chans : c[1] \in Flows /\ Addr(c) \in Routers[c[1]] /\ Addr(c) \in Addrs
  /\ \A f \in Flows : Routers[f] \subseteq Addrs
  /\ \A f \in Flows, addrs \in SUBSET Addrs : addrs \subseteq Routers[f] => {f} \X addrs \subseteq Chans
  /\ NoChannel \notin Chans
BY PoolAssumption DEF Chans, Addr

\* The actions, one by one.
LEMMA Steps ==
  ASSUME [Next]_vars
  PROVE  \/ \E f \in Flows : \/ Start(f) \/ Unconnected(f) \/ SpawnSpare(f) \/ FanOut(f)
                             \/ Receive(f) \/ RenewByConnect(f) \/ Cancel(f)
         \/ \E c \in Chans : \/ Check(c) \/ Dialed(c) \/ DialErr(c) \/ Register(c) \/ Close(c)
         \/ Renew
         \/ \E p \in Pushers : \/ PushReads(p) \/ Snapshot(p) \/ Pushed(p)
                               \/ \E c \in Chans : Push(p, c) \/ PushErr(p, c) \/ PushHangs(p, c)
         \/ UNCHANGED vars
BY DEF Next, FlowStep, OpenerStep, PushStep

----------------------------------------------------------------------------
(* Types.                                                                  *)

\* Every table holds channels, under the address that they go to.
LEMMA PoolTypeStep == TypeOK /\ [Next]_vars => TypeOK'
<1> SUFFICES ASSUME TypeOK, [Next]_vars PROVE TypeOK'
  OBVIOUS
<1> USE ChanAddr
<1>1. ASSUME NEW f \in Flows, Start(f) PROVE TypeOK'
  <2>1. pool' = [a \in Addrs |-> IF a \in Routers[f] /\ ~Alive(a) THEN NoChannel ELSE pool[a]]
    BY <1>1 DEF Start
  <2>2. pool' \in [Addrs -> Chans \cup {NoChannel}] /\ \A a \in Addrs : pool'[a] # NoChannel => Addr(pool'[a]) = a
    BY <2>1 DEF TypeOK
  <2>3. \A a \in Routers[f] : pool[a] \in Chans \cup {NoChannel}
    BY DEF TypeOK
  <2>4. flow' \in [Flows -> FlowPcs] /\ hold' \in [Flows -> Chans \cup {NoChannel}] /\ current' \subseteq Chans
    BY <1>1, <2>3 DEF Start, FlowGoto, ReadToken, TypeOK, FlowEnded, FlowPcs
  <2> QED
    BY <1>1, <2>2, <2>4 DEF Start, pushes, TypeOK, FlowEnded, FlowPcs
<1>2. ASSUME NEW f \in Flows, Unconnected(f) PROVE TypeOK'
  <2>1. spare'[f] \subseteq Routers[f] /\ spare' \in [Flows -> SUBSET Addrs]
    BY <1>2 DEF Unconnected, TypeOK
  <2>2. current' \subseteq Chans
    BY <1>2, <2>1 DEF Unconnected, ReadToken, TypeOK
  <2> QED
    BY <1>2, <2>1, <2>2 DEF Unconnected, FlowGoto, pushes, TypeOK, FlowEnded
<1>3. ASSUME NEW f \in Flows, SpawnSpare(f) \/ FanOut(f) PROVE TypeOK'
  <2>1. opener' \in [Chans -> OpenerPcs]
    BY <1>3 DEF SpawnSpare, FanOut, Spawn, TypeOK, OpenerPcs
  <2> QED
    BY <1>3, <2>1 DEF SpawnSpare, FanOut, FlowGoto, pushes, TypeOK, FlowEnded, OpenerPcs
<1>4. ASSUME NEW f \in Flows, Receive(f) PROVE TypeOK'
  <2>1. opener' \in [Chans -> OpenerPcs] /\ flow' \in [Flows -> FlowPcs]
        /\ hold' \in [Flows -> Chans \cup {NoChannel}]
    BY <1>4 DEF Receive, Openers, OpenerGoto, FlowGoto, TypeOK, OpenerPcs, FlowPcs, FlowEnded
  <2> QED
    BY <1>4, <2>1 DEF Receive, pushes, TypeOK, FlowEnded, OpenerPcs, FlowPcs
<1>5. ASSUME NEW f \in Flows, RenewByConnect(f) \/ Cancel(f) PROVE TypeOK'
  <2>1. flow' \in [Flows -> FlowPcs] /\ hold' \in [Flows -> Chans \cup {NoChannel}]
    BY <1>5 DEF RenewByConnect, Cancel, FlowGoto, TypeOK, FlowEnded, FlowPcs
  <2>2. push' \in [Pushers -> PushPcs]
    BY <1>5 DEF RenewByConnect, Cancel, PushEnds, PushGoto, pushes, TypeOK, PushPcs
  <2>3. pushing' \in [Pushers -> SUBSET Chans]
    BY <1>5 DEF RenewByConnect, Cancel, PushEnds, pushes, TypeOK
  <2>4. fresh' \subseteq Chans /\ current' \subseteq Chans /\ latest' \subseteq Pushers
    BY <1>5 DEF RenewByConnect, Cancel, Exchange, PushEnds, pushes, TypeOK
  <2> QED
    BY <1>5, <2>1, <2>2, <2>3, <2>4 DEF RenewByConnect, Cancel, TypeOK, FlowEnded, FlowPcs, PushPcs
<1>6. ASSUME NEW c \in Chans, Check(c) PROVE TypeOK'
  <2>1. opener' \in [Chans -> OpenerPcs] /\ current' \subseteq Chans
        /\ found' \in [Chans -> Chans \cup {NoChannel}]
    BY <1>6 DEF Check, Return, OpenerGoto, TypeOK, OpenerPcs
  <2>2. pool' \in [Addrs -> Chans \cup {NoChannel}] /\ \A a \in Addrs : pool'[a] # NoChannel => Addr(pool'[a]) = a
    BY <1>6 DEF Check, TypeOK
  <2> QED
    BY <1>6, <2>1, <2>2 DEF Check, pushes, TypeOK, OpenerPcs
<1>7. ASSUME NEW c \in Chans, Dialed(c) PROVE TypeOK'
  <2>1. opener' \in [Chans -> OpenerPcs] /\ current' \subseteq Chans
        /\ found' \in [Chans -> Chans \cup {NoChannel}]
    BY <1>7 DEF Dialed, Return, Store, OpenerGoto, TypeOK, OpenerPcs
  <2>2. pool' \in [Addrs -> Chans \cup {NoChannel}] /\ \A a \in Addrs : pool'[a] # NoChannel => Addr(pool'[a]) = a
    BY <1>7 DEF Dialed, Store, TypeOK
  <2>3. open' \subseteq Chans /\ fresh' \subseteq Chans
    BY <1>7 DEF Dialed, Store, TypeOK
  <2> QED
    BY <1>7, <2>1, <2>2, <2>3 DEF Dialed, pushes, TypeOK, OpenerPcs
<1>8. ASSUME NEW c \in Chans, DialErr(c) \/ Register(c) PROVE TypeOK'
  <2>1. opener' \in [Chans -> OpenerPcs] /\ current' \subseteq Chans
        /\ found' \in [Chans -> Chans \cup {NoChannel}] /\ live' \subseteq Chans
    BY <1>8 DEF DialErr, Register, Return, OpenerGoto, TypeOK, OpenerPcs
  <2> QED
    BY <1>8, <2>1 DEF DialErr, Register, pushes, TypeOK, OpenerPcs
<1>9. ASSUME NEW c \in Chans, Close(c) PROVE TypeOK'
  BY <1>9 DEF Close, pushes, TypeOK
<1>10. ASSUME \/ Renew
              \/ \E p \in Pushers : \/ PushReads(p) \/ Snapshot(p) \/ Pushed(p)
                                   \/ \E c \in Chans : Push(p, c) \/ PushErr(p, c) \/ PushHangs(p, c)
       PROVE  TypeOK'
  <2>1. push' \in [Pushers -> PushPcs]
    BY <1>10 DEF Renew, PushReads, Snapshot, Pushed, Push, PushErr, PushHangs, PushEnds, PushGoto, TypeOK, PushPcs
  <2>2. live' \subseteq Chans /\ open' = open /\ latest' \subseteq Pushers
    BY <1>10 DEF Renew, PushReads, Snapshot, Pushed, Push, PushErr, PushHangs, PushEnds, Exchange, Pushers, TypeOK
  <2>3. pushing' \in [Pushers -> SUBSET Chans]
    BY <1>10, <2>2 DEF Renew, PushReads, Snapshot, Pushed, Push, PushErr, PushHangs, PushEnds, Told, TypeOK
  <2>4. fresh' \subseteq Chans /\ current' \subseteq Chans
    BY <1>10 DEF Renew, PushReads, Snapshot, Pushed, Push, PushErr, PushHangs, Exchange, TypeOK
  <2>5. flow' \in [Flows -> FlowPcs]
    BY <1>10, PoolAssumption
    DEF Renew, PushReads, Snapshot, Pushed, Push, PushErr, PushHangs, FlowGoto, Pushers, TypeOK, FlowEnded, FlowPcs
  <2>6. UNCHANGED <<pool, hold, spare, opener, found>>
    BY <1>10 DEF Renew, PushReads, Snapshot, Pushed, Push, PushErr, PushHangs
  <2> QED
    BY <2>1, <2>2, <2>3, <2>4, <2>5, <2>6 DEF TypeOK, FlowEnded, FlowPcs, PushPcs
<1>11. CASE UNCHANGED vars
  BY <1>11 DEF vars, pushes, TypeOK
<1> QED
  BY <1>1, <1>2, <1>3, <1>4, <1>5, <1>6, <1>7, <1>8, <1>9, <1>10, <1>11, Steps

\* The pool, the registry and the openers keep their shape (pool.rs, fanout.rs).
THEOREM PoolTypeCorrect == Spec => []TypeOK
<1>1. Init => TypeOK
  <2> SUFFICES ASSUME Init PROVE TypeOK
    OBVIOUS
  <2>1. /\ pool \in [Addrs -> Chans \cup {NoChannel}]
        /\ \A a \in Addrs : pool[a] # NoChannel => Addr(pool[a]) = a
    BY DEF Init
  <2>2. live = {} /\ open = {} /\ fresh = {} /\ current = {} /\ latest = {}
    BY DEF Init
  <2>3. /\ flow \in [Flows -> FlowPcs]
        /\ hold \in [Flows -> Chans \cup {NoChannel}]
        /\ spare \in [Flows -> SUBSET Addrs]
    BY DEF Init, FlowPcs
  <2>4. opener \in [Chans -> OpenerPcs] /\ found \in [Chans -> Chans \cup {NoChannel}]
    BY DEF Init, OpenerPcs
  <2>5. push \in [Pushers -> PushPcs] /\ pushing \in [Pushers -> SUBSET Chans]
    BY DEF Init, PushPcs
  <2> QED
    BY <2>1, <2>2, <2>3, <2>4, <2>5 DEF TypeOK, FlowEnded, FlowPcs, OpenerPcs, PushPcs
<1> QED
  BY <1>1, PoolTypeStep, PTL DEF Spec

----------------------------------------------------------------------------
(* The pool.                                                               *)

\* Only what is dead is taken out of the pool or replaced.
LEMMA PoolStep == TypeOK /\ NoOrphans /\ [Next]_vars => NoOrphans'
<1> SUFFICES ASSUME TypeOK, NoOrphans, [Next]_vars PROVE NoOrphans'
  OBVIOUS
<1> USE ChanAddr
<1>0. ASSUME UNCHANGED pool, open' \subseteq open PROVE NoOrphans'
  BY <1>0 DEF NoOrphans
<1>1. ASSUME NEW f \in Flows, Start(f) PROVE NoOrphans'
  <2> SUFFICES ASSUME NEW c \in open PROVE pool'[Addr(c)] = c
    BY <1>1 DEF NoOrphans, Start
  <2>1. c \in Chans /\ pool[Addr(c)] = c
    BY DEF NoOrphans, TypeOK
  <2> QED
    BY <1>1, <2>1 DEF Start, Alive
<1>2. ASSUME NEW c \in Chans, Check(c) PROVE NoOrphans'
  <2> SUFFICES ASSUME NEW d \in open PROVE pool'[Addr(d)] = d
    BY <1>2 DEF NoOrphans, Check
  <2>1. d \in Chans /\ pool[Addr(d)] = d
    BY DEF NoOrphans, TypeOK
  <2> QED
    BY <1>2, <2>1 DEF Check, Alive, TypeOK
<1>3. ASSUME NEW c \in Chans, Dialed(c) PROVE NoOrphans'
  <2>1. CASE Alive(Addr(c))
    BY <1>0, <1>3, <2>1 DEF Dialed
  <2>2. CASE ~Alive(Addr(c))
    <3>1. pool' = [pool EXCEPT ![Addr(c)] = c] /\ open' = open \cup {c}
      BY <1>3, <2>2 DEF Dialed, Store
    <3>2. ASSUME NEW d \in open PROVE d \in Chans /\ pool[Addr(d)] = d /\ Addr(d) # Addr(c)
      BY <2>2 DEF NoOrphans, TypeOK, Alive
    <3> QED
      BY <3>1, <3>2 DEF NoOrphans, TypeOK
  <2> QED
    BY <2>1, <2>2
<1>4. ASSUME NEW f \in Flows, Unconnected(f) \/ SpawnSpare(f) \/ FanOut(f) \/ Receive(f)
                             \/ RenewByConnect(f) \/ Cancel(f)
      PROVE  NoOrphans'
  BY <1>0, <1>4 DEF Unconnected, SpawnSpare, FanOut, Receive, RenewByConnect, Cancel
<1>5. ASSUME NEW c \in Chans, DialErr(c) \/ Register(c) \/ Close(c)
      PROVE  NoOrphans'
  BY <1>0, <1>5 DEF DialErr, Register, Close
<1>6. CASE Renew \/ UNCHANGED vars
  BY <1>0, <1>6 DEF Renew, vars
<1>7. ASSUME NEW p \in Pushers, \/ PushReads(p) \/ Snapshot(p) \/ Pushed(p)
                                \/ \E c \in Chans : Push(p, c) \/ PushErr(p, c) \/ PushHangs(p, c)
      PROVE  NoOrphans'
  BY <1>0, <1>7 DEF PushReads, Snapshot, Pushed, Push, PushErr, PushHangs
<1> QED
  BY <1>1, <1>2, <1>3, <1>4, <1>5, <1>6, <1>7, Steps

\* pool_store_or_reuse_into and the evictions leave every open channel in the
\* pool, and so one per router, however many connects race for it.
THEOREM NoOrphansCorrect == Spec => []NoOrphans
<1>1. Init => NoOrphans
  BY DEF Init, NoOrphans
<1> QED
  BY <1>1, PoolStep, PoolTypeCorrect, PTL DEF Spec

----------------------------------------------------------------------------
(* The fan-out.                                                            *)

\* A flow has no openers before it has fanned out, while it waits those that
\* it has heard from had no channel, and when it failed it had heard from all.
SpawnedBy(f) ==
  /\ flow[f] \in {"start", "renewing", "renewed", "config", "unconnected", "spareconfig"}
       => \A c \in Chans : c[1] = f => opener[c] = "none"
  /\ flow[f] \in {"waiting", "failed"}
       => \A c \in Chans : c[1] = f /\ opener[c] = "done" => found[c] = NoChannel
  /\ flow[f] = "failed" => \A c \in Chans : c[1] = f => opener[c] \in {"none", "done"}
Spawned == \A f \in Flows : SpawnedBy(f)

\* A flow pushes a token only while it renews it.
Renewing == \A f \in Expired : flow[f] # "renewing" => push[f] = "idle"

\* The push of a flow ends with it.
LEMMA RenewingStep == TypeOK /\ Renewing /\ [Next]_vars => Renewing'
<1> SUFFICES ASSUME TypeOK, Renewing, [Next]_vars PROVE Renewing'
  OBVIOUS
<1>0. Expired \subseteq Pushers /\ Expired \subseteq Flows /\ Timer \notin Flows
  BY PoolAssumption DEF Pushers
<1>1. ASSUME NEW f \in Flows, Start(f) \/ Unconnected(f) \/ SpawnSpare(f) \/ FanOut(f) \/ Receive(f)
      PROVE  Renewing'
  <2>1. flow[f] # "renewing" /\ UNCHANGED push
    BY <1>1 DEF Start, Unconnected, SpawnSpare, FanOut, Receive, pushes
  <2>2. \A g \in Flows : g # f => flow'[g] = flow[g]
    BY <1>1 DEF Start, Unconnected, SpawnSpare, FanOut, Receive, FlowGoto, TypeOK
  <2> QED
    BY <1>0, <2>1, <2>2 DEF Renewing
<1>2. ASSUME NEW f \in Flows, RenewByConnect(f) \/ Cancel(f) PROVE Renewing'
  <2>1. \A g \in Expired : g # f => flow'[g] = flow[g] /\ push'[g] = push[g]
    BY <1>0, <1>2 DEF RenewByConnect, Cancel, PushEnds, PushGoto, FlowGoto, pushes, TypeOK
  <2>2. f \in Expired => flow'[f] = "renewing" \/ push'[f] = "idle"
    BY <1>0, <1>2 DEF RenewByConnect, Cancel, PushEnds, PushGoto, FlowGoto, pushes, TypeOK, Renewing
  <2> QED
    BY <2>1, <2>2 DEF Renewing
<1>3. ASSUME NEW c \in Chans, Check(c) \/ Dialed(c) \/ DialErr(c) \/ Register(c) \/ Close(c)
      PROVE  Renewing'
  BY <1>3 DEF Renewing, Check, Dialed, DialErr, Register, Close, pushes
<1>4. CASE Renew
  BY <1>0, <1>4 DEF Renewing, Renew, PushGoto, TypeOK
<1>5. ASSUME NEW p \in Pushers, \/ PushReads(p) \/ Snapshot(p)
                                \/ \E c \in Chans : Push(p, c) \/ PushErr(p, c) \/ PushHangs(p, c)
      PROVE  Renewing'
  <2>1. UNCHANGED flow /\ push[p] # "idle" /\ \A q \in Pushers : q # p => push'[q] = push[q]
    BY <1>5 DEF PushReads, Snapshot, Push, PushErr, PushHangs, Told, PushGoto, TypeOK
  <2> QED
    BY <1>0, <2>1 DEF Renewing
<1>6. ASSUME NEW p \in Pushers, Pushed(p) PROVE Renewing'
  <2>1. push'[p] = "idle" /\ \A q \in Pushers : q # p => push'[q] = push[q]
    BY <1>6 DEF Pushed, PushEnds, PushGoto, TypeOK
  <2>2. \A g \in Flows : g # p => flow'[g] = flow[g]
    BY <1>6 DEF Pushed, FlowGoto, TypeOK
  <2> QED
    BY <1>0, <2>1, <2>2 DEF Renewing
<1>7. CASE UNCHANGED vars
  BY <1>7 DEF Renewing, vars, pushes
<1> QED
  BY <1>1, <1>2, <1>3, <1>4, <1>5, <1>6, <1>7, Steps

\* The results are heard one at a time, and an opener speaks once.
LEMMA SpawnedStep == TypeOK /\ Renewing /\ Spawned /\ [Next]_vars => Spawned'
<1> SUFFICES ASSUME TypeOK, Renewing, Spawned, [Next]_vars, NEW g \in Flows PROVE SpawnedBy(g)'
  BY DEF Spawned
<1> USE ChanAddr
<1>0. SpawnedBy(g)
  BY DEF Spawned
<1>1. ASSUME NEW f \in Flows,
             Start(f) \/ Unconnected(f) \/ RenewByConnect(f) \/ Cancel(f)
      PROVE  SpawnedBy(g)'
  <2>1. UNCHANGED <<opener, found>> /\ flow' \in [Flows -> FlowPcs] /\ (f # g => flow'[g] = flow[g])
    BY <1>1 DEF Start, Unconnected, RenewByConnect, Cancel, FlowGoto, TypeOK, FlowPcs, FlowEnded
  <2>2. f = g => \/ flow'[g] = "cancelled"
                 \/ flow[g] \in {"start", "renewed", "unconnected"} /\ flow'[g] # "waiting"
    BY <1>1 DEF Start, Unconnected, RenewByConnect, Cancel, FlowGoto, TypeOK
  <2> QED
    BY <1>0, <2>1, <2>2 DEF SpawnedBy
<1>2. ASSUME NEW f \in Flows, SpawnSpare(f) \/ FanOut(f) PROVE SpawnedBy(g)'
  <2>1. /\ UNCHANGED found
        /\ \A c \in Chans : opener'[c] = opener[c] \/ (c[1] = f /\ opener'[c] = "check")
        /\ f # g => flow'[g] = flow[g]
        /\ f = g => \/ flow'[g] \in {"connected", "waiting"}
                    \/ flow'[g] = "failed" /\ UNCHANGED opener
        /\ flow[f] \in {"spareconfig", "config"}
    BY <1>2 DEF SpawnSpare, FanOut, Spawn, FlowGoto, TypeOK
  <2> QED
    BY <1>0, <2>1 DEF SpawnedBy
<1>3. ASSUME NEW f \in Flows, Receive(f) PROVE SpawnedBy(g)'
  <2>1. CASE f # g
    <3>1. /\ UNCHANGED found /\ flow'[g] = flow[g]
          /\ \A c \in Chans : c[1] = g => opener'[c] = opener[c]
      BY <1>3, <2>1 DEF Receive, Openers, OpenerGoto, FlowGoto, TypeOK
    <3> QED
      BY <1>0, <3>1 DEF SpawnedBy
  <2>2. CASE f = g
    <3>1. flow[g] = "waiting" /\ UNCHANGED found
      BY <1>3, <2>2 DEF Receive
    <3>2. CASE \A c \in Openers(g) : opener[c] = "done"
      <4>1. \A c \in Chans : c[1] = g => opener[c] \in {"none", "done"}
        BY <3>2 DEF Openers
      <4>2. UNCHANGED opener
        BY <1>3, <2>2, <3>2 DEF Receive
      <4> QED
        BY <1>0, <3>1, <4>1, <4>2, <1>3, <2>2 DEF SpawnedBy, Receive, FlowGoto, TypeOK
    <3>3. ASSUME NEW c \in Openers(g), opener[c] = "sent", OpenerGoto(c, "done"),
                 IF found[c] = NoChannel THEN UNCHANGED <<flow, hold>>
                   ELSE FlowGoto(g, "connected") /\ hold' = [hold EXCEPT ![g] = found[c]]
          PROVE  SpawnedBy(g)'
      BY <1>0, <3>1, <3>3 DEF SpawnedBy, Openers, OpenerGoto, FlowGoto, TypeOK
    <3> QED
      BY <1>3, <2>2, <3>2, <3>3 DEF Receive
  <2> QED
    BY <2>1, <2>2
<1>4. ASSUME NEW c \in Chans, Check(c) \/ Dialed(c) \/ DialErr(c) \/ Register(c) PROVE SpawnedBy(g)'
  <2>1. /\ UNCHANGED flow
        /\ opener[c] \in {"check", "dial", "register"} /\ opener'[c] \in {"dial", "register", "sent"}
        /\ \A d \in Chans : d # c => opener'[d] = opener[d] /\ found'[d] = found[d]
    BY <1>4 DEF Check, Dialed, DialErr, Register, Return, Store, OpenerGoto, TypeOK
  <2> QED
    BY <1>0, <2>1 DEF SpawnedBy
<1>5. ASSUME NEW c \in Chans, Close(c) PROVE SpawnedBy(g)'
  BY <1>0, <1>5 DEF SpawnedBy, Close
<1>6. CASE Renew \/ UNCHANGED vars
  BY <1>0, <1>6 DEF SpawnedBy, Renew, vars
<1>7. ASSUME NEW p \in Pushers, \/ PushReads(p) \/ Snapshot(p)
                                \/ \E c \in Chans : Push(p, c) \/ PushErr(p, c) \/ PushHangs(p, c)
      PROVE  SpawnedBy(g)'
  BY <1>0, <1>7 DEF SpawnedBy, PushReads, Snapshot, Push, PushErr, PushHangs
<1>8. ASSUME NEW p \in Pushers, Pushed(p) PROVE SpawnedBy(g)'
  <2>1. UNCHANGED <<opener, found>>
    BY <1>8 DEF Pushed
  <2>2. CASE p = Timer \/ p # g
    BY <1>0, <1>8, <2>1, <2>2 DEF SpawnedBy, Pushed, FlowGoto, TypeOK
  <2>3. CASE p = g /\ p # Timer
    <3>1. flow[g] = "renewing" /\ flow'[g] = "renewed"
      BY <1>8, <2>3 DEF Renewing, Pushed, FlowGoto, TypeOK, Pushers
    <3> QED
      BY <1>0, <2>1, <3>1 DEF SpawnedBy
  <2> QED
    BY <2>2, <2>3
<1> QED
  BY <1>1, <1>2, <1>3, <1>4, <1>5, <1>6, <1>7, <1>8, Steps

\* fan_out_first_ok gives up only when every opener it spawned has reported
\* and none of them had a channel.
THEOREM FailsOnlyIfAllFailCorrect == Spec => []FailsOnlyIfAllFail
<1>1. Init => Spawned
  BY ChanAddr DEF Init, Spawned, SpawnedBy
<1>3. Init => Renewing
  BY PoolAssumption DEF Init, Renewing, Pushers
<1>2. Spawned => FailsOnlyIfAllFail
  BY DEF Spawned, SpawnedBy, FailsOnlyIfAllFail, Openers
<1> QED
  BY <1>1, <1>2, <1>3, SpawnedStep, RenewingStep, PoolTypeCorrect, PTL DEF Spec

----------------------------------------------------------------------------
(***************************************************************************)
(* The id.  Ids stay in the range, an id is found under its entry, and no  *)
(* two are equal unless the counter was rewound and allocations overlapped.*)
(* There are two reasons, one for each half of that: until it is rewound   *)
(* the counter gives every caller an id of its own (FirstTurn); and a      *)
(* caller that is alone has looked at the maps as they are (Alone).        *)
(***************************************************************************)

Drawn(c) == pc[c] \in {"conns", "binds", "rewind", "register", "live"}

\* Nothing above the range is registered, or about to be.
InRange ==
  /\ \A i \in Ids : i >= MAX_CONN_ID => conns[i] = "none" /\ binds[i] = "none"
  /\ \A c \in Callers : Holding(c) => ~OutOfRange(id[c])

\* Until it is rewound the counter is ahead of every id that was drawn, they
\* differ, and each that it has drawn above the range is a caller's that is
\* about to rewind.
FirstTurn ==
  ~rewound =>
    /\ \A c \in Callers : Drawn(c) => id[c] <= counter
    /\ \A c, d \in Callers : c # d /\ Drawn(c) /\ Drawn(d) => id[c] # id[d]
    /\ \A i \in MAX_CONN_ID..counter : \E c \in Callers : Drawn(c) /\ id[c] = i

\* What a caller saw in the maps is still so when no other allocates.
Alone ==
  ~overlapped =>
    /\ \A c, d \in Callers : pc[c] \in Allocating /\ pc[d] \in Allocating => c = d
    /\ \A c \in Callers : pc[c] \in {"binds", "rewind", "register"} => conns[id[c]] = "none"
    /\ \A c \in Callers : pc[c] \in {"rewind", "register"} => binds[id[c]] = "none"

\* A live caller is found under its id.
Found ==
  ~(rewound /\ overlapped) =>
    \A c \in Callers : pc[c] = "live" => IF c \in Conns THEN conns[id[c]] = c ELSE binds[id[c]] = c

AllocInv == InRange /\ FirstTurn /\ Alone /\ Found /\ UniqueUnlessRaced

----------------------------------------------------------------------------
(* Numbers.                                                                *)

\* The counter wraps at the modulus and nowhere else.
LEMMA Wraps ==
  ASSUME NEW m \in Nat \ {0}, NEW x \in 0..(m - 1)
  PROVE  /\ (x + 1) % m \in 0..(m - 1)
         /\ x + 1 < m => (x + 1) % m = x + 1
OBVIOUS

\* The range is inside the numbers of the counter.
LEMMA IdRange ==
  MAX_CONN_ID \in Int /\ MAX_CONN_ID > 1 /\ MAX_CONN_ID < Modulus /\ MIN_CONN_ID = 0 /\ Modulus \in Nat \ {0}
<1>1. Modulus - 1 \in Int /\ MIN_CONN_ID = 0 /\ MAX_CONN_ID > 1
  BY AllocAssumption DEF MIN_CONN_ID
<1>2. \A n \in Int : n \div 2 \in Int /\ (n \div 2 > 2 => n \div 2 <= n)
  BY Z3
<1>3. (Modulus - 1) \div 2 \in Int /\ MAX_CONN_ID \in Int
  BY <1>1, <1>2 DEF MAX_CONN_ID
<1>4. (Modulus - 1) \div 2 > 2
  BY <1>1, <1>3 DEF MAX_CONN_ID
<1> QED
  BY <1>1, <1>2, <1>3, <1>4, AllocAssumption DEF MAX_CONN_ID

\* If every number of an interval is somebody's, and somebody has none of them,
\* there are more people than numbers.
LEMMA Crowd ==
  ASSUME NEW C, IsFiniteSet(C), NEW f, NEW c \in C, NEW a \in Int, NEW b \in Int, a <= b,
         \A i \in a..b : \E d \in C \ {c} : f[d] = i
  PROVE  b - a + 1 < Cardinality(C)
<1> DEFINE owner == [i \in a..b |-> CHOOSE d \in C \ {c} : f[d] = i]
<1>1. IsFiniteSet(C \ {c}) /\ Cardinality(C \ {c}) = Cardinality(C) - 1 /\ Cardinality(C) \in Nat
  BY FS_RemoveElement, FS_CardinalityType
<1>2. IsFiniteSet(a..b) /\ Cardinality(a..b) = b - a + 1
  BY FS_Interval
<1>3. \A i \in a..b : owner[i] \in C \ {c} /\ f[owner[i]] = i
  OBVIOUS
<1>4. owner \in [a..b -> C \ {c}]
  BY <1>3
<1>5. ASSUME Cardinality(C \ {c}) < Cardinality(a..b) PROVE FALSE
  <2>1. \E x, y \in a..b : x # y /\ owner[x] = owner[y]
    <3> HIDE DEF owner
    <3> QED
      BY <1>1, <1>2, <1>4, <1>5, FS_PigeonHole
  <2> HIDE DEF owner
  <2> QED
    BY <1>3, <2>1
<1> QED
  BY <1>1, <1>2, <1>5

----------------------------------------------------------------------------
(* Types.                                                                  *)

\* The counter and the ids stay numbers of their width.
LEMMA AllocTypeStep == AllocTypeOK /\ [AllocNext]_allocVars => AllocTypeOK'
<1> SUFFICES ASSUME AllocTypeOK, [AllocNext]_allocVars PROVE AllocTypeOK'
  OBVIOUS
<1> USE IdRange, AllocAssumption
<1>1. ASSUME NEW c \in Callers, StartAlloc(c) PROVE AllocTypeOK'
  <2>1. overlapped' \in BOOLEAN
    BY <1>1, Zenon DEF StartAlloc
  <2> QED
    BY <1>1, <2>1 DEF StartAlloc, Goto, AllocTypeOK, Allocating
<1>2. ASSUME NEW c \in Callers, FetchAdd(c) PROVE AllocTypeOK'
  <2>1. counter' \in Ids
    BY <1>2, Wraps DEF FetchAdd, AllocTypeOK, Ids
  <2> QED
    BY <1>2, <2>1 DEF FetchAdd, Goto, AllocTypeOK, Allocating
<1>3. ASSUME NEW c \in Callers, InUseByConn(c) \/ InUseByBind(c) PROVE AllocTypeOK'
  BY <1>3 DEF InUseByConn, InUseByBind, Goto, AllocTypeOK, Allocating
<1>4. ASSUME NEW c \in Callers, Rewind(c) PROVE AllocTypeOK'
  <2>1. counter' \in Ids
    BY <1>4 DEF Rewind, Ids
  <2> QED
    BY <1>4, <2>1 DEF Rewind, Goto, AllocTypeOK, Allocating
<1>5. ASSUME NEW c \in Callers, RegisterId(c) \/ Release(c) PROVE AllocTypeOK'
  <2>1. conns' \in [Ids -> Conns \cup {"none"}] /\ binds' \in [Ids -> Binds \cup {"none"}]
    BY <1>5 DEF RegisterId, Release, AllocTypeOK
  <2> QED
    BY <1>5, <2>1 DEF RegisterId, Release, Goto, AllocTypeOK, Allocating
<1>6. CASE UNCHANGED allocVars
  BY <1>6 DEF allocVars, AllocTypeOK
<1> QED
  BY <1>1, <1>2, <1>3, <1>4, <1>5, <1>6 DEF AllocNext

\* The counter wraps inside its width, the maps hold those who registered.
THEOREM AllocTypeCorrect == AllocSpec => []AllocTypeOK
<1>1. AllocInit => AllocTypeOK
  <2> SUFFICES ASSUME AllocInit PROVE AllocTypeOK
    OBVIOUS
  <2>1. 0 \in Ids
    BY IdRange DEF Ids
  <2>2. rewound \in BOOLEAN /\ overlapped \in BOOLEAN
    BY DEF AllocInit
  <2> QED
    BY <2>1, <2>2 DEF AllocInit, AllocTypeOK
<1> QED
  BY <1>1, AllocTypeStep, PTL DEF AllocSpec

----------------------------------------------------------------------------
(* The invariant, part by part.                                            *)

\* What a step of a caller may change: its position, and its id only when it
\* draws one.
LEMMA Moves ==
  ASSUME AllocTypeOK, NEW c \in Callers,
         \/ StartAlloc(c) \/ FetchAdd(c) \/ InUseByConn(c) \/ InUseByBind(c)
         \/ Rewind(c) \/ RegisterId(c) \/ Release(c)
  PROVE  /\ \A d \in Callers : d # c => pc'[d] = pc[d] /\ id'[d] = id[d]
         /\ pc[c] # "add" => UNCHANGED id
         /\ FetchAdd(c) => id'[c] = counter' /\ pc[c] = "add" /\ pc'[c] = "conns"
         /\ StartAlloc(c) => pc[c] = "idle" /\ pc'[c] = "add"
         /\ InUseByConn(c) => pc[c] = "conns" /\ pc'[c] \in {"add", "binds"}
         /\ InUseByBind(c) => pc[c] = "binds" /\ pc'[c] \in {"add", "rewind", "register"}
         /\ Rewind(c) => pc[c] = "rewind" /\ pc'[c] = "add"
         /\ RegisterId(c) => pc[c] = "register" /\ pc'[c] = "live"
         /\ Release(c) => pc[c] = "live" /\ pc'[c] = "idle"
<1> USE DEF AllocTypeOK, Goto
<1>1. \A d \in Callers : d # c => pc'[d] = pc[d] /\ id'[d] = id[d]
  BY DEF StartAlloc, FetchAdd, InUseByConn, InUseByBind, Rewind, RegisterId, Release
<1>2. pc[c] # "add" => UNCHANGED id
  BY DEF StartAlloc, FetchAdd, InUseByConn, InUseByBind, Rewind, RegisterId, Release
<1>3. FetchAdd(c) => id'[c] = counter' /\ pc[c] = "add" /\ pc'[c] = "conns"
  BY DEF FetchAdd
<1>4. StartAlloc(c) => pc[c] = "idle" /\ pc'[c] = "add"
  BY DEF StartAlloc
<1>5. InUseByConn(c) => pc[c] = "conns" /\ pc'[c] \in {"add", "binds"}
  BY DEF InUseByConn
<1>6. InUseByBind(c) => pc[c] = "binds" /\ pc'[c] \in {"add", "rewind", "register"}
  BY DEF InUseByBind
<1>7. Rewind(c) => pc[c] = "rewind" /\ pc'[c] = "add"
  BY DEF Rewind
<1>8. RegisterId(c) => pc[c] = "register" /\ pc'[c] = "live"
  BY DEF RegisterId
<1>9. Release(c) => pc[c] = "live" /\ pc'[c] = "idle"
  BY DEF Release
<1> QED
  BY <1>1, <1>2, <1>3, <1>4, <1>5, <1>6, <1>7, <1>8, <1>9

\* What a step may change in the maps: one entry, when it registers or releases.
LEMMA Entries ==
  ASSUME AllocTypeOK, NEW c \in Callers, RegisterId(c) \/ Release(c)
  PROVE  /\ id[c] \in Ids
         /\ \A i \in Ids : i # id[c] => conns'[i] = conns[i] /\ binds'[i] = binds[i]
         /\ RegisterId(c) => IF c \in Conns THEN conns'[id[c]] = c ELSE binds'[id[c]] = c
         /\ Release(c) => /\ conns'[id[c]] \in {"none", conns[id[c]]}
                          /\ binds'[id[c]] \in {"none", binds[id[c]]}
BY DEF RegisterId, Release, AllocTypeOK, Callers

\* Only ids in the range get into the maps.
LEMMA InRangeStep ==
  ASSUME AllocTypeOK, InRange, NEW c \in Callers,
         \/ StartAlloc(c) \/ FetchAdd(c) \/ InUseByConn(c) \/ InUseByBind(c)
         \/ Rewind(c) \/ RegisterId(c) \/ Release(c)
  PROVE  InRange'
<1>1. \A i \in Ids : i >= MAX_CONN_ID => conns'[i] = "none" /\ binds'[i] = "none"
  <2>1. CASE RegisterId(c) \/ Release(c)
    <3>1. id[c] < MAX_CONN_ID
      BY <2>1, Moves, IdRange DEF InRange, Holding, OutOfRange, AllocTypeOK, Ids
    <3> QED
      BY <2>1, <3>1, Entries, IdRange DEF InRange, AllocTypeOK, Ids
  <2>2. CASE ~(RegisterId(c) \/ Release(c))
    BY <2>2 DEF StartAlloc, FetchAdd, InUseByConn, InUseByBind, Rewind, InRange
  <2> QED
    BY <2>1, <2>2
<1>2. ASSUME NEW d \in Callers, Holding(d)' PROVE ~OutOfRange(id'[d])
  <2>1. CASE Holding(d)
    <3>1. id'[d] = id[d]
      BY <2>1, Moves DEF Holding
    <3> QED
      BY <2>1, <3>1 DEF InRange
  <2>2. CASE ~Holding(d)
    <3>1. d = c /\ InUseByBind(c) /\ pc'[c] = "register"
      BY <1>2, <2>2, Moves DEF Holding
    <3>2. ~OutOfRange(id[c]) /\ UNCHANGED id
      BY <3>1 DEF InUseByBind, Goto, AllocTypeOK
    <3> QED
      BY <3>1, <3>2
  <2> QED
    BY <2>1, <2>2
<1> QED
  BY <1>1, <1>2 DEF InRange, Holding, OutOfRange

\* The counter does not come back to an id before it is rewound.
LEMMA FirstTurnStep ==
  ASSUME AllocTypeOK, InRange, FirstTurn, NEW c \in Callers,
         \/ StartAlloc(c) \/ FetchAdd(c) \/ InUseByConn(c) \/ InUseByBind(c)
         \/ Rewind(c) \/ RegisterId(c) \/ Release(c)
  PROVE  FirstTurn'
<1> SUFFICES ASSUME ~rewound'
             PROVE  /\ \A d \in Callers : Drawn(d)' => id'[d] <= counter'
                    /\ \A d, e \in Callers : d # e /\ Drawn(d)' /\ Drawn(e)' => id'[d] # id'[e]
                    /\ \A i \in MAX_CONN_ID..counter' : \E d \in Callers : Drawn(d)' /\ id'[d] = i
  BY DEF FirstTurn, Drawn
<1>1. ~rewound /\ ~Rewind(c)
  BY DEF StartAlloc, FetchAdd, InUseByConn, InUseByBind, Rewind, RegisterId, Release
<1>2. CASE FetchAdd(c)
  <2>1. pc[c] = "add" /\ ~Drawn(c) /\ counter \in Ids
    BY <1>2 DEF FetchAdd, Drawn, AllocTypeOK
  <2>2. counter + 1 < Modulus
    <3> SUFFICES ASSUME ~(counter + 1 < Modulus) PROVE FALSE
      OBVIOUS
    <3>1. counter = Modulus - 1
      BY <2>1, IdRange DEF Ids
    <3>2. \A i \in MAX_CONN_ID..(Modulus - 1) : \E d \in Callers \ {c} : id[d] = i
      BY <1>1, <2>1, <3>1 DEF FirstTurn
    <3>3. IsFiniteSet(Callers) /\ Cardinality(Callers) <= Modulus - MAX_CONN_ID /\ Cardinality(Callers) \in Nat
      BY AllocAssumption, FS_CardinalityType
    <3>4. MAX_CONN_ID \in Int /\ Modulus - 1 \in Int /\ MAX_CONN_ID <= Modulus - 1
      BY IdRange
    <3>5. (Modulus - 1) - MAX_CONN_ID + 1 < Cardinality(Callers)
      BY <3>2, <3>3, <3>4, Crowd
    <3> QED
      BY <3>3, <3>4, <3>5, IdRange
  <2>3. counter' = counter + 1 /\ id'[c] = counter'
    BY <1>2, <2>1, <2>2, Wraps, IdRange, Moves DEF FetchAdd, Ids
  <2>4. \A d \in Callers : d # c => (Drawn(d)' <=> Drawn(d)) /\ id'[d] = id[d] /\ id[d] \in Ids
    BY Moves DEF Drawn, AllocTypeOK
  <2>5. Drawn(c)'
    BY <1>2, Moves DEF Drawn
  <2>6. \A d \in Callers : d # c /\ Drawn(d) => id[d] <= counter
    BY <1>1 DEF FirstTurn
  <2>7. ASSUME NEW d \in Callers, Drawn(d)' PROVE id'[d] <= counter'
    BY <2>1, <2>3, <2>4, <2>6, <2>7 DEF Ids
  <2>8. ASSUME NEW d \in Callers, NEW e \in Callers, d # e, Drawn(d)', Drawn(e)' PROVE id'[d] # id'[e]
    BY <1>1, <2>1, <2>3, <2>4, <2>6, <2>8 DEF FirstTurn, Ids
  <2>9. ASSUME NEW i \in MAX_CONN_ID..counter' PROVE \E d \in Callers : Drawn(d)' /\ id'[d] = i
    <3>1. CASE i = counter'
      BY <2>3, <2>5, <3>1
    <3>2. CASE i # counter'
      <4>1. i \in MAX_CONN_ID..counter
        BY <2>1, <2>3, <3>2, IdRange DEF Ids
      <4>2. PICK d \in Callers : Drawn(d) /\ id[d] = i
        BY <1>1, <4>1 DEF FirstTurn
      <4> QED
        BY <2>1, <2>4, <4>2
    <3> QED
      BY <3>1, <3>2
  <2> QED
    BY <2>7, <2>8, <2>9
<1>3. CASE ~FetchAdd(c)
  <2>1. UNCHANGED <<counter, id>>
    BY <1>1, <1>3 DEF StartAlloc, InUseByConn, InUseByBind, RegisterId, Release
  <2>2. \A d \in Callers : Drawn(d)' => Drawn(d)
    BY <1>1, <1>3, Moves DEF Drawn
  <2>3. ASSUME NEW d \in Callers, Drawn(d), id[d] >= MAX_CONN_ID PROVE Drawn(d)'
    <3>1. CASE d # c
      BY <2>3, <3>1, Moves DEF Drawn
    <3>2. CASE d = c
      <4>1. id[c] \in Ids /\ conns[id[c]] = "none" /\ binds[id[c]] = "none"
        BY <2>3, <3>2 DEF InRange, AllocTypeOK
      <4>2. ~Holding(c)
        BY <2>3, <3>2, <4>1, IdRange DEF InRange, OutOfRange, Ids
      <4> QED
        BY <1>1, <1>3, <2>3, <3>2, <4>1, <4>2, Moves
        DEF Drawn, Holding, InUseByConn, InUseByBind, Goto, AllocTypeOK
    <3> QED
      BY <3>1, <3>2
  <2>4. \A d \in Callers : Drawn(d)' => id'[d] <= counter'
    BY <1>1, <2>1, <2>2 DEF FirstTurn
  <2>5. \A d, e \in Callers : d # e /\ Drawn(d)' /\ Drawn(e)' => id'[d] # id'[e]
    BY <1>1, <2>1, <2>2 DEF FirstTurn
  <2>6. ASSUME NEW i \in MAX_CONN_ID..counter' PROVE \E d \in Callers : Drawn(d)' /\ id'[d] = i
    <3>1. PICK d \in Callers : Drawn(d) /\ id[d] = i
      BY <1>1, <2>1 DEF FirstTurn
    <3>2. id[d] >= MAX_CONN_ID
      BY <3>1, <2>1, IdRange DEF AllocTypeOK, Ids
    <3> QED
      BY <2>1, <2>3, <3>1, <3>2
  <2> QED
    BY <2>4, <2>5, <2>6
<1> QED
  BY <1>2, <1>3

\* Who allocates alone finds the maps as it saw them: others can only release.
LEMMA AloneStep ==
  ASSUME AllocTypeOK, Alone, NEW c \in Callers,
         \/ StartAlloc(c) \/ FetchAdd(c) \/ InUseByConn(c) \/ InUseByBind(c)
         \/ Rewind(c) \/ RegisterId(c) \/ Release(c)
  PROVE  Alone'
<1> SUFFICES ASSUME ~overlapped'
             PROVE  /\ \A d, e \in Callers : pc'[d] \in Allocating /\ pc'[e] \in Allocating => d = e
                    /\ \A d \in Callers : pc'[d] \in {"binds", "rewind", "register"} => conns'[id'[d]] = "none"
                    /\ \A d \in Callers : pc'[d] \in {"rewind", "register"} => binds'[id'[d]] = "none"
  BY DEF Alone
<1>1. ~overlapped /\ (StartAlloc(c) => \A d \in Callers : pc[d] \notin Allocating)
  <2>1. CASE StartAlloc(c)
    BY <2>1, Zenon DEF StartAlloc
  <2>2. CASE ~StartAlloc(c)
    BY <2>2 DEF FetchAdd, InUseByConn, InUseByBind, Rewind, RegisterId, Release
  <2> QED
    BY <2>1, <2>2
<1>2. \A d, e \in Callers : pc[d] \in Allocating /\ pc[e] \in Allocating => d = e
  BY <1>1 DEF Alone
<1>3. \A d, e \in Callers : pc'[d] \in Allocating /\ pc'[e] \in Allocating => d = e
  <2>1. \A d \in Callers : pc'[d] \in Allocating => pc[d] \in Allocating \/ (StartAlloc(c) /\ d = c)
    BY Moves DEF Allocating
  <2> QED
    BY <1>1, <1>2, <2>1
<1>4. ASSUME NEW d \in Callers, pc'[d] \in {"binds", "rewind", "register"}
      PROVE  /\ conns'[id'[d]] = "none"
             /\ pc'[d] \in {"rewind", "register"} => binds'[id'[d]] = "none"
  <2>1. CASE d = c
    <3>1. InUseByConn(c) \/ InUseByBind(c)
      BY <1>4, <2>1, Moves
    <3>2. UNCHANGED <<conns, binds, id>>
      BY <3>1 DEF InUseByConn, InUseByBind
    <3>3. CASE InUseByConn(c)
      <4>1. pc'[c] = "binds" /\ conns[id[c]] = "none"
        BY <1>4, <2>1, <3>3, Moves DEF InUseByConn, Goto, AllocTypeOK
      <4> QED
        BY <2>1, <3>2, <4>1
    <3>4. CASE InUseByBind(c)
      <4>1. pc[c] = "binds" /\ conns[id[c]] = "none" /\ binds[id[c]] = "none"
        BY <1>1, <1>4, <2>1, <3>4 DEF Alone, InUseByBind, Goto, AllocTypeOK
      <4> QED
        BY <2>1, <3>2, <4>1
    <3> QED
      BY <3>1, <3>3, <3>4
  <2>2. CASE d # c
    <3>1. pc[d] = pc'[d] /\ id'[d] = id[d] /\ pc[d] \in Allocating /\ id[d] \in Ids
      BY <1>4, <2>2, Moves DEF Allocating, AllocTypeOK
    <3>2. pc[c] \notin Allocating /\ Release(c)
      BY <1>1, <1>2, <2>2, <3>1, Moves DEF Allocating
    <3>3. conns[id[d]] = "none" /\ (pc[d] \in {"rewind", "register"} => binds[id[d]] = "none")
      BY <1>1, <1>4, <3>1 DEF Alone
    <3> QED
      BY <3>1, <3>2, <3>3, Entries
  <2> QED
    BY <2>1, <2>2
<1> QED
  BY <1>3, <1>4

\* An id that is about to be registered is nobody's: in the first turn because
\* each is drawn once, and later because who is alone saw that it is free.
LEMMA UniqueStep ==
  ASSUME AllocTypeOK, AllocInv, FirstTurn', NEW c \in Callers,
         \/ StartAlloc(c) \/ FetchAdd(c) \/ InUseByConn(c) \/ InUseByBind(c)
         \/ Rewind(c) \/ RegisterId(c) \/ Release(c)
  PROVE  UniqueUnlessRaced'
<1>1. CASE ~rewound'
  BY <1>1 DEF FirstTurn, Drawn, UniqueUnlessRaced, Unique, Holding
<1>2. CASE rewound' /\ ~overlapped'
  <2>1. ~overlapped
    BY <1>2 DEF StartAlloc, FetchAdd, InUseByConn, InUseByBind, Rewind, RegisterId, Release
  <2>2. Unique
    BY <2>1 DEF AllocInv, UniqueUnlessRaced
  <2> SUFFICES ASSUME NEW d \in Callers, NEW e \in Callers, d # e, Holding(d)', Holding(e)'
               PROVE  id'[d] # id'[e]
    BY DEF UniqueUnlessRaced, Unique, Holding
  <2>3. CASE Holding(d) /\ Holding(e)
    <3>1. id'[d] = id[d] /\ id'[e] = id[e]
      BY <2>3, Moves DEF Holding
    <3> QED
      BY <2>2, <2>3, <3>1 DEF Unique
  <2>4. ASSUME NEW x \in Callers, NEW y \in Callers, x # y, Holding(x)', Holding(y)', ~Holding(x)
        PROVE  id'[x] # id'[y]
    <3>1. x = c /\ InUseByBind(c) /\ pc'[c] = "register" /\ pc'[y] = pc[y] /\ UNCHANGED id
      BY <2>4, Moves DEF Holding, InUseByBind
    <3>2. pc[c] = "binds" /\ conns[id[c]] = "none" /\ binds[id[c]] = "none"
      BY <2>1, <3>1 DEF AllocInv, Alone, InUseByBind, Goto, AllocTypeOK
    <3>3. pc[y] = "live"
      BY <2>1, <2>4, <3>1, <3>2 DEF AllocInv, Alone, Holding, Allocating
    <3>4. IF y \in Conns THEN conns[id[y]] = y ELSE binds[id[y]] = y
      BY <2>1, <3>3 DEF AllocInv, Found
    <3>5. y # "none"
      BY AllocAssumption
    <3> QED
      BY <3>1, <3>2, <3>4, <3>5
  <2> QED
    BY <2>3, <2>4
<1>3. CASE rewound' /\ overlapped'
  BY <1>3 DEF UniqueUnlessRaced
<1> QED
  BY <1>1, <1>2, <1>3

\* An entry is overwritten or removed only by who has its id.
LEMMA FoundStep ==
  ASSUME AllocTypeOK, AllocInv, NEW c \in Callers,
         \/ StartAlloc(c) \/ FetchAdd(c) \/ InUseByConn(c) \/ InUseByBind(c)
         \/ Rewind(c) \/ RegisterId(c) \/ Release(c)
  PROVE  Found'
<1> SUFFICES ASSUME ~(rewound' /\ overlapped'), NEW d \in Callers, pc'[d] = "live"
             PROVE  IF d \in Conns THEN conns'[id'[d]] = d ELSE binds'[id'[d]] = d
  BY DEF Found
<1>1. ~(rewound /\ overlapped)
  BY DEF StartAlloc, FetchAdd, InUseByConn, InUseByBind, Rewind, RegisterId, Release
<1>2. Unique
  BY <1>1 DEF AllocInv, UniqueUnlessRaced
<1>3. CASE pc[d] # "live"
  <2>1. d = c /\ RegisterId(c) /\ UNCHANGED id
    BY <1>3, Moves
  <2> QED
    BY <2>1, Entries
<1>4. CASE pc[d] = "live"
  <2>1. id'[d] = id[d] /\ id[d] \in Ids /\ IF d \in Conns THEN conns[id[d]] = d ELSE binds[id[d]] = d
    BY <1>1, <1>4, Moves DEF AllocInv, Found, AllocTypeOK
  <2>2. CASE RegisterId(c) \/ Release(c)
    <3>1. d # c /\ Holding(d) /\ Holding(c)
      BY <1>4, <2>2, Moves DEF Holding
    <3>2. id[d] # id[c]
      BY <1>2, <3>1 DEF Unique
    <3> QED
      BY <2>1, <2>2, <3>2, Entries
  <2>3. CASE ~(RegisterId(c) \/ Release(c))
    <3>1. UNCHANGED <<conns, binds>>
      BY <2>3 DEF StartAlloc, FetchAdd, InUseByConn, InUseByBind, Rewind
    <3> QED
      BY <2>1, <3>1
  <2> QED
    BY <2>2, <2>3
<1> QED
  BY <1>3, <1>4

\* All of it is invariant.
LEMMA AllocInvariant == AllocSpec => []AllocInv
<1>1. AllocInit => AllocInv
  <2> SUFFICES ASSUME AllocInit PROVE AllocInv
    OBVIOUS
  <2>1. InRange /\ Alone /\ Found /\ UniqueUnlessRaced
    BY DEF AllocInit, InRange, Alone, Found, UniqueUnlessRaced, Unique, Holding, Allocating
  <2>2. FirstTurn
    <3>1. MAX_CONN_ID..counter = {}
      BY IdRange DEF AllocInit
    <3> QED
      BY <3>1 DEF AllocInit, FirstTurn, Drawn
  <2> QED
    BY <2>1, <2>2 DEF AllocInv
<1>2. AllocTypeOK /\ AllocInv /\ [AllocNext]_allocVars => AllocInv'
  <2> SUFFICES ASSUME AllocTypeOK, AllocInv, [AllocNext]_allocVars PROVE AllocInv'
    OBVIOUS
  <2>1. ASSUME NEW c \in Callers, \/ StartAlloc(c) \/ FetchAdd(c) \/ InUseByConn(c) \/ InUseByBind(c)
                                  \/ Rewind(c) \/ RegisterId(c) \/ Release(c)
        PROVE  AllocInv'
    <3>1. InRange'
      BY <2>1, InRangeStep DEF AllocInv
    <3>2. FirstTurn'
      BY <2>1, FirstTurnStep DEF AllocInv
    <3>3. Alone'
      BY <2>1, AloneStep DEF AllocInv
    <3>4. UniqueUnlessRaced' /\ Found'
      BY <2>1, <3>2, UniqueStep, FoundStep
    <3> QED
      BY <3>1, <3>2, <3>3, <3>4 DEF AllocInv
  <2>2. CASE UNCHANGED allocVars
    BY <2>2
    DEF allocVars, AllocInv, InRange, FirstTurn, Alone, Found, UniqueUnlessRaced, Unique, Holding, Drawn, OutOfRange
  <2> QED
    BY <2>1, <2>2 DEF AllocNext
<1> QED
  BY <1>1, <1>2, AllocTypeCorrect, PTL DEF AllocSpec

----------------------------------------------------------------------------
\* alloc_conn_id never hands out an id of the router's half, and a caller that
\* registered is found under its id while ids are unique.
THEOREM IdsUsableCorrect == AllocSpec => []IdsUsable
<1>1. AllocTypeOK /\ AllocInv => IdsUsable
  <2>1. \A i : ~OutOfRange(i) => ~(i < MIN_CONN_ID) /\ ~(i >= MAX_CONN_ID)
    BY DEF OutOfRange
  <2>2. AllocTypeOK /\ AllocInv => \A c \in Callers : Holding(c) => MIN_CONN_ID <= id[c] /\ id[c] < MAX_CONN_ID
    BY <2>1, IdRange DEF AllocInv, InRange, AllocTypeOK, Ids
  <2> QED
    BY <2>2 DEF AllocInv, Found, IdsUsable
<1> QED
  BY <1>1, AllocInvariant, AllocTypeCorrect, PTL

\* Two callers hold one id only if the counter was rewound and two allocations
\* overlapped: the race that the code accepts.
THEOREM UniqueUnlessRacedCorrect == AllocSpec => []UniqueUnlessRaced
<1>1. AllocInv => UniqueUnlessRaced
  BY DEF AllocInv
<1> QED
  BY <1>1, AllocInvariant, PTL
=============================================================================
