-------------------------- MODULE ApiSessionProofs --------------------------
(***************************************************************************)
(* The safety of ApiSession for any number of connects, tokens and         *)
(* sessions.  reauth_lock makes the token the property of one actor between*)
(* its look at it and its store; the cache is safe because only a session  *)
(* that nobody has seen yet is ever inserted.                              *)
(***************************************************************************)
EXTENDS ApiSession, FiniteSetTheorems, TLAPS

\* A minted token is in an actor's hand when it is about to store it.
Minted == \A a \in Actors : pc[a] = "store" => minted[a] # 0

\* Only a flow that is after the certificate waits for its lock or stores it.
Renewing == \A f \in Flows : pc[f] \in {"holder", "certminted"} => op[f] \in CertOps

\* A session that is about to be inserted has never been in the cache, and no
\* other flow holds it.
Fresh ==
  /\ \A f \in Flows : pc[f] = "insert" => sess[f] \in 1..Len(under) /\ sess[f] # cache /\ sess[f] \notin evicted
  /\ \A f, g \in Flows : f # g /\ pc[f] = "insert" /\ pc[g] = "insert" => sess[f] # sess[g]

\* Nothing has been in the cache but what the controller has minted.
Known == cache <= Len(under) /\ evicted \subseteq 1..Len(under)

\* Unless refresh() is called, its entry point rests.
Quiet == pc["user"] = "idle"

\* A token that is about to be stored is later than the one in use.
Later ==
  /\ token <= tokens
  /\ \A a \in Actors : pc[a] = "store" => minted[a] <= tokens /\ token < minted[a]

\* No flow is called like one of the timers; tokens and sessions are numbers.
LEMMA Names ==
  /\ Flows \subseteq Actors /\ "timer" \in Actors /\ "user" \in Actors
  /\ "none" \notin Actors /\ "timer" \notin Flows /\ "user" \notin Flows /\ "none" \notin Flows
  /\ MaxTokens \in Nat \ {0} /\ MaxErrors \in Nat /\ MaxSessions \in Nat \ {0}
<1>1. {"none", "timer", "user"} \cap Flows = {}
  BY SessionAssumption
<1>2. MaxTokens \in Nat \ {0} /\ MaxErrors \in Nat /\ MaxSessions \in Nat \ {0}
  BY SessionAssumption
<1> QED
  BY <1>1, <1>2 DEF Actors

\* The bound on failures is kept.
LEMMA Failures == ControllerTyped /\ SomethingFails => errors' \in 0..MaxErrors
BY Names DEF ControllerTyped, SomethingFails

\* No step of a connect, a timer or the controller breaks the types.
LEMMA TypedStep == Typed /\ Minted /\ [Next]_vars => Typed'
<1> SUFFICES ASSUME ClientTyped, ActorsTyped, FlowTyped, RefresherTyped, ControllerTyped, HistoryTyped,
                    Minted, [Next]_vars
             PROVE  Typed'
  BY DEF Typed
<1> USE Names DEF Typed, Tokens, Sessions, Ended, FlowPcs, CertOps, Ops, Pcs, Reauth, Goto, client, actors, flow, refresher,
      controller, history, TickElsewhere
<1>1. ASSUME NEW f \in Flows, Start(f) PROVE Typed'
  BY <1>1 DEF Start, InFlight,
       ClientTyped, ActorsTyped, FlowTyped, RefresherTyped, ControllerTyped, HistoryTyped
<1>2. ASSUME NEW f \in Flows, ReadToken(f) PROVE Typed'
  BY <1>2 DEF ReadToken,
       ClientTyped, ActorsTyped, FlowTyped, RefresherTyped, ControllerTyped, HistoryTyped
<1>3. ASSUME NEW f \in Flows, Accepted(f) PROVE Typed'
  <2>1. ClientTyped' /\ RefresherTyped' /\ HistoryTyped'
    BY <1>3 DEF Accepted, ClientTyped, RefresherTyped, HistoryTyped
  <2>2. ActorsTyped'
    BY <1>3 DEF Accepted, ActorsTyped
  <2>3. under \in Seq(Tokens) /\ Len(under) \in Nat /\ used[f] \in Tokens
    BY DEF ControllerTyped, ActorsTyped
  <2>4. CASE op[f] = "create"
    <3>1. under' = Append(under, used[f]) /\ Len(under) < MaxSessions
      BY <1>3, <2>4 DEF Accepted
    <3>2. under' \in Seq(Tokens) /\ Len(under') = Len(under) + 1
      BY <3>1, <2>3
    <3>3. ControllerTyped'
      <4>0. alive' = alive \cup {Len(under')}
        BY <1>3, <2>4 DEF Accepted
      <4>1. ASSUME NEW i \in alive' PROVE i \in 1..Len(under')
        <5>1. i \in 1..Len(under) \/ i = Len(under')
          BY <4>0 DEF ControllerTyped
        <5>2. \A n \in Nat : n + 1 \in 1..(n + 1) /\ \A j \in 1..n : j \in 1..(n + 1)
          OBVIOUS
        <5> QED
          BY <5>1, <5>2, <2>3, <3>2
      <4>2. Len(under') <= MaxSessions
        BY <2>3, <3>1, <3>2
      <4> QED
        BY <1>3, <3>2, <4>1, <4>2 DEF Accepted, ControllerTyped
    <3>4. FlowTyped'
      BY <1>3, <2>3, <2>4, <3>1, <3>2 DEF Accepted, FlowTyped
    <3> QED
      BY <2>1, <2>2, <3>3, <3>4
  <2>5. CASE op[f] # "create"
    BY <1>3, <2>1, <2>2, <2>5 DEF Accepted, FlowTyped, ControllerTyped
  <2> QED
    BY <2>4, <2>5
<1>4. ASSUME NEW f \in Flows, Unauthorized(f) PROVE Typed'
  BY <1>4 DEF Unauthorized, OpFails, AfterFailedDial, LetGo,
       ClientTyped, ActorsTyped, FlowTyped, RefresherTyped, ControllerTyped, HistoryTyped
<1>5. ASSUME NEW f \in Flows, RequestErr(f) PROVE Typed'
  <2>1. RefresherTyped' /\ HistoryTyped'
    BY <1>5 DEF RequestErr, OpFails, AfterFailedDial, LetGo, Wrap, RefresherTyped, HistoryTyped
  <2>2. ClientTyped'
    BY <1>5 DEF RequestErr, OpFails, AfterFailedDial, LetGo, Wrap, ClientTyped
  <2>3. ActorsTyped'
    BY <1>5 DEF RequestErr, OpFails, AfterFailedDial, LetGo, Wrap, ActorsTyped
  <2>4. FlowTyped'
    BY <1>5 DEF RequestErr, OpFails, AfterFailedDial, LetGo, Wrap, FlowTyped
  <2>5. ControllerTyped'
    BY <1>5, Failures DEF RequestErr, OpFails, AfterFailedDial, LetGo, Wrap, ControllerTyped
  <2> QED
    BY <2>1, <2>2, <2>3, <2>4, <2>5
<1>6. ASSUME NEW f \in Flows, CertStored(f) PROVE Typed'
  BY <1>6 DEF CertStored,
       ClientTyped, ActorsTyped, FlowTyped, RefresherTyped, ControllerTyped, HistoryTyped
<1>7. ASSUME NEW f \in Flows, Lookup(f) PROVE Typed'
  <2>1. ClientTyped' /\ RefresherTyped' /\ ControllerTyped' /\ HistoryTyped'
    BY <1>7 DEF Lookup, Wrap, ClientTyped, RefresherTyped, ControllerTyped, HistoryTyped
  <2>2. ActorsTyped'
    BY <1>7 DEF Lookup, Wrap, ActorsTyped
  <2>3. FlowTyped'
    BY <1>7 DEF Lookup, Wrap, ClientTyped, FlowTyped
  <2> QED
    BY <2>1, <2>2, <2>3
<1>8. ASSUME NEW f \in Flows, Insert(f) PROVE Typed'
  BY <1>8 DEF Insert,
       ClientTyped, ActorsTyped, FlowTyped, RefresherTyped, ControllerTyped, HistoryTyped
<1>9. ASSUME NEW f \in Flows, Open(f) PROVE Typed'
  BY <1>9 DEF Open,
       ClientTyped, ActorsTyped, FlowTyped, RefresherTyped, ControllerTyped, HistoryTyped
<1>10. ASSUME NEW f \in Flows, Pool(f) PROVE Typed'
  <2>1. ClientTyped' /\ RefresherTyped' /\ ControllerTyped' /\ HistoryTyped'
    BY <1>10 DEF Pool, Wrap, ClientTyped, RefresherTyped, ControllerTyped, HistoryTyped
  <2>2. ActorsTyped'
    BY <1>10 DEF Pool, Wrap, ActorsTyped
  <2>3. FlowTyped'
    BY <1>10 DEF Pool, Wrap, FlowTyped
  <2> QED
    BY <2>1, <2>2, <2>3
<1>11. ASSUME NEW f \in Flows, Dial(f) PROVE Typed'
  <2>1. ClientTyped' /\ FlowTyped' /\ RefresherTyped' /\ HistoryTyped'
    BY <1>11 DEF Dial, AfterFailedDial, ClientTyped, FlowTyped, RefresherTyped, HistoryTyped
  <2>2. ActorsTyped'
    BY <1>11 DEF Dial, AfterFailedDial, ActorsTyped
  <2>3. ControllerTyped'
    BY <1>11, Failures DEF Dial, AfterFailedDial, ControllerTyped
  <2> QED
    BY <2>1, <2>2, <2>3
<1>12. ASSUME NEW f \in Flows, ProbeStart(f) PROVE Typed'
  BY <1>12 DEF ProbeStart,
       ClientTyped, ActorsTyped, FlowTyped, RefresherTyped, ControllerTyped, HistoryTyped
<1>13. ASSUME NEW f \in Flows, Probe(f) PROVE Typed'
  <2>1. ClientTyped' /\ RefresherTyped' /\ HistoryTyped'
    BY <1>13 DEF Probe, ProbeFails, AfterFailedDial, Uncache, ClientTyped, RefresherTyped, HistoryTyped
  <2>2. ActorsTyped'
    BY <1>13 DEF Probe, ProbeFails, AfterFailedDial, ActorsTyped
  <2>3. FlowTyped'
    BY <1>13 DEF Probe, ProbeFails, AfterFailedDial, FlowTyped
  <2>4. ControllerTyped'
    BY <1>13, Failures DEF Probe, ProbeFails, AfterFailedDial, ControllerTyped
  <2> QED
    BY <2>1, <2>2, <2>3, <2>4
<1>14. ASSUME NEW f \in Flows, RecacheAlive(f) PROVE Typed'
  <2>1. RefresherTyped' /\ HistoryTyped'
    BY <1>14 DEF RecacheAlive, Recache, AfterFailedDial, RefresherTyped, HistoryTyped
  <2>2. ClientTyped'
    BY <1>14 DEF RecacheAlive, Recache, AfterFailedDial, ClientTyped
  <2>3. ActorsTyped'
    BY <1>14 DEF RecacheAlive, Recache, AfterFailedDial, ActorsTyped
  <2>4. FlowTyped'
    BY <1>14 DEF RecacheAlive, Recache, AfterFailedDial, FlowTyped
  <2>5. ControllerTyped'
    BY <1>14, Failures DEF RecacheAlive, Recache, AfterFailedDial, ControllerTyped
  <2> QED
    BY <2>1, <2>2, <2>3, <2>4, <2>5
<1>15. ASSUME NEW f \in Flows, Evict(f) PROVE Typed'
  BY <1>15 DEF Evict, Uncache,
       ClientTyped, ActorsTyped, FlowTyped, RefresherTyped, ControllerTyped, HistoryTyped
<1>16. ASSUME NEW f \in Flows, Holder(f) PROVE Typed'
  BY <1>16 DEF Holder,
       ClientTyped, ActorsTyped, FlowTyped, RefresherTyped, ControllerTyped, HistoryTyped
<1>17. ASSUME NEW f \in Flows, Cancel(f) PROVE Typed'
  BY <1>17 DEF Cancel, LetGo,
       ClientTyped, ActorsTyped, FlowTyped, RefresherTyped, ControllerTyped, HistoryTyped
<1>18. ASSUME NEW a \in Actors, Gate(a) PROVE Typed'
  BY <1>18 DEF Gate, ReauthOk,
       ClientTyped, ActorsTyped, FlowTyped, RefresherTyped, ControllerTyped, HistoryTyped
<1>19. ASSUME NEW a \in Actors, Invalidate(a) PROVE Typed'
  BY <1>19 DEF Invalidate, ReauthOk,
       ClientTyped, ActorsTyped, FlowTyped, RefresherTyped, ControllerTyped, HistoryTyped
<1>20. ASSUME NEW a \in Actors, Authenticate(a) PROVE Typed'
  BY <1>20 DEF Authenticate,
       ClientTyped, ActorsTyped, FlowTyped, RefresherTyped, ControllerTyped, HistoryTyped
<1>21. ASSUME NEW a \in Actors, AuthenticateErr(a) PROVE Typed'
  <2>1. FlowTyped' /\ RefresherTyped' /\ HistoryTyped'
    BY <1>21 DEF AuthenticateErr, OpFails, AfterFailedDial, FlowTyped, RefresherTyped, HistoryTyped
  <2>2. ClientTyped'
    BY <1>21 DEF AuthenticateErr, OpFails, AfterFailedDial, ClientTyped
  <2>3. ActorsTyped'
    BY <1>21 DEF AuthenticateErr, OpFails, AfterFailedDial, ActorsTyped
  <2>4. ControllerTyped'
    BY <1>21, Failures DEF AuthenticateErr, OpFails, AfterFailedDial, ControllerTyped
  <2> QED
    BY <2>1, <2>2, <2>3, <2>4
<1>22. ASSUME NEW a \in Actors, Store(a) PROVE Typed'
  BY <1>22 DEF Store, ReauthOk, Minted,
       ClientTyped, ActorsTyped, FlowTyped, RefresherTyped, ControllerTyped, HistoryTyped
<1>23. ASSUME NEW a \in Actors, Clear(a) PROVE Typed'
  BY <1>23 DEF Clear, Uncache, ReauthOk,
       ClientTyped, ActorsTyped, FlowTyped, RefresherTyped, ControllerTyped, HistoryTyped
<1>24. ASSUME NEW a \in {"timer", "user"}, Get(a) PROVE Typed'
  <2>1. ClientTyped' /\ FlowTyped' /\ RefresherTyped' /\ HistoryTyped'
    BY <1>24 DEF Get, ClientTyped, FlowTyped, RefresherTyped, HistoryTyped
  <2>2. ActorsTyped'
    BY <1>24 DEF Get, ActorsTyped
  <2>3. ControllerTyped'
    BY <1>24, Failures DEF Get, ControllerTyped
  <2> QED
    BY <2>1, <2>2, <2>3
<1>25. CASE TimerWake
  BY <1>25 DEF TimerWake,
       ClientTyped, ActorsTyped, FlowTyped, RefresherTyped, ControllerTyped, HistoryTyped
<1>26. CASE UserRefresh
  BY <1>26 DEF UserRefresh,
       ClientTyped, ActorsTyped, FlowTyped, RefresherTyped, ControllerTyped, HistoryTyped
<1>27. CASE GuardedStore
  BY <1>27 DEF GuardedStore,
       ClientTyped, ActorsTyped, FlowTyped, RefresherTyped, ControllerTyped, HistoryTyped
<1>28. CASE UserStore
  BY <1>28 DEF UserStore,
       ClientTyped, ActorsTyped, FlowTyped, RefresherTyped, ControllerTyped, HistoryTyped
<1>29. CASE TickStart
  BY <1>29 DEF TickStart,
       ClientTyped, ActorsTyped, FlowTyped, RefresherTyped, ControllerTyped, HistoryTyped
<1>30. CASE TickSnapshot
  BY <1>30 DEF TickSnapshot,
       ClientTyped, ActorsTyped, FlowTyped, RefresherTyped, ControllerTyped, HistoryTyped
<1>31. CASE TickProbe
  BY <1>31 DEF TickProbe, SomethingFails,
       ClientTyped, ActorsTyped, FlowTyped, RefresherTyped, ControllerTyped, HistoryTyped
<1>32. CASE TickRecache
  BY <1>32 DEF TickRecache, Recache,
       ClientTyped, ActorsTyped, FlowTyped, RefresherTyped, ControllerTyped, HistoryTyped
<1>33. CASE TickPurge
  BY <1>33 DEF TickPurge, Uncache,
       ClientTyped, ActorsTyped, FlowTyped, RefresherTyped, ControllerTyped, HistoryTyped
<1>34. CASE ServiceRemoved
  BY <1>34 DEF ServiceRemoved, Uncache,
       ClientTyped, ActorsTyped, FlowTyped, RefresherTyped, ControllerTyped, HistoryTyped
<1>35. ASSUME NEW t \in Tokens, ExpireToken(t) PROVE Typed'
  BY <1>35 DEF ExpireToken,
       ClientTyped, ActorsTyped, FlowTyped, RefresherTyped, ControllerTyped, HistoryTyped
<1>36. ASSUME NEW s \in Sessions, DeleteSession(s) PROVE Typed'
  BY <1>36 DEF DeleteSession, SomethingFails,
       ClientTyped, ActorsTyped, FlowTyped, RefresherTyped, ControllerTyped, HistoryTyped
<1>37. CASE UNCHANGED vars
  BY <1>37 DEF vars, ClientTyped, ActorsTyped, FlowTyped, RefresherTyped, ControllerTyped, HistoryTyped
<1> QED
  BY <1>1, <1>2, <1>3, <1>4, <1>5, <1>6, <1>7, <1>8, <1>9, <1>10, <1>11, <1>12, <1>13, <1>14, <1>15, <1>16, <1>17, <1>18, <1>19, <1>20, <1>21, <1>22, <1>23, <1>24, <1>25, <1>26, <1>27, <1>28, <1>29, <1>30, <1>31, <1>32, <1>33, <1>34, <1>35, <1>36, <1>37 DEF Next, FlowStep, Await, Reauthenticate, Refresh, Tick

\* reauth_lock and the certificate's lock are with whoever is between their
\* acquisition and their release, and with nobody else.
LEMMA HeldStep == Typed /\ Held /\ Renewing /\ [Next]_vars => Held' /\ Renewing'
<1> SUFFICES ASSUME ActorsTyped, FlowTyped, Held, Renewing, [Next]_vars PROVE Held' /\ Renewing'
  BY DEF Typed
<1> USE Names DEF ActorsTyped, FlowTyped, Tokens, Sessions, Ended, FlowPcs, CertOps, Ops, Pcs, Reauth, Goto, client, actors, flow, refresher,
      controller, history, TickElsewhere
<1>1. ASSUME NEW f \in Flows, Start(f) PROVE Held' /\ Renewing'
  BY <1>1 DEF Start, InFlight, Held, Renewing
<1>2. ASSUME NEW f \in Flows, ReadToken(f) PROVE Held' /\ Renewing'
  BY <1>2 DEF ReadToken, Held, Renewing
<1>3. ASSUME NEW f \in Flows, Accepted(f) PROVE Held' /\ Renewing'
  BY <1>3 DEF Accepted, Held, Renewing
<1>4. ASSUME NEW f \in Flows, Unauthorized(f) PROVE Held' /\ Renewing'
  <2>1. \A b \in Actors : (lock = b <=> pc[b] \in {"auth", "store", "clear", "certgate"})'
    BY <1>4 DEF Unauthorized, OpFails, AfterFailedDial, LetGo, Held
  <2>2. \A g \in Flows : (certLock = g <=> op[g] \in CertOps /\ pc[g] \in {"request", "certminted"})'
    BY <1>4 DEF Unauthorized, OpFails, AfterFailedDial, LetGo, Held
  <2>3. \A g \in Flows : (pc[g] \in {"holder", "certminted"} => op[g] \in CertOps)'
    BY <1>4 DEF Unauthorized, OpFails, AfterFailedDial, LetGo, Held, Renewing
  <2> QED
    BY <2>1, <2>2, <2>3 DEF Held, Renewing
<1>5. ASSUME NEW f \in Flows, RequestErr(f) PROVE Held' /\ Renewing'
  BY <1>5 DEF RequestErr, OpFails, AfterFailedDial, LetGo, Wrap, Held, Renewing
<1>6. ASSUME NEW f \in Flows, CertStored(f) PROVE Held' /\ Renewing'
  <2>1. \A b \in Actors : (lock = b <=> pc[b] \in {"auth", "store", "clear", "certgate"})'
    BY <1>6 DEF CertStored, Held
  <2>2. \A g \in Flows : (certLock = g <=> op[g] \in CertOps /\ pc[g] \in {"request", "certminted"})'
    BY <1>6 DEF CertStored, Held, Renewing
  <2>3. \A g \in Flows : (pc[g] \in {"holder", "certminted"} => op[g] \in CertOps)'
    BY <1>6 DEF CertStored, Held, Renewing
  <2> QED
    BY <2>1, <2>2, <2>3 DEF Held, Renewing
<1>7. ASSUME NEW f \in Flows, Lookup(f) PROVE Held' /\ Renewing'
  BY <1>7 DEF Lookup, Wrap, Held, Renewing
<1>8. ASSUME NEW f \in Flows, Insert(f) PROVE Held' /\ Renewing'
  BY <1>8 DEF Insert, Held, Renewing
<1>9. ASSUME NEW f \in Flows, Open(f) PROVE Held' /\ Renewing'
  BY <1>9 DEF Open, Held, Renewing
<1>10. ASSUME NEW f \in Flows, Pool(f) PROVE Held' /\ Renewing'
  BY <1>10 DEF Pool, Wrap, Held, Renewing
<1>11. ASSUME NEW f \in Flows, Dial(f) PROVE Held' /\ Renewing'
  BY <1>11 DEF Dial, AfterFailedDial, Held, Renewing
<1>12. ASSUME NEW f \in Flows, ProbeStart(f) PROVE Held' /\ Renewing'
  BY <1>12 DEF ProbeStart, Held, Renewing
<1>13. ASSUME NEW f \in Flows, Probe(f) PROVE Held' /\ Renewing'
  <2>1. \A b \in Actors : (lock = b <=> pc[b] \in {"auth", "store", "clear", "certgate"})'
    BY <1>13 DEF Probe, ProbeFails, AfterFailedDial, Held
  <2>2. \A g \in Flows : (certLock = g <=> op[g] \in CertOps /\ pc[g] \in {"request", "certminted"})'
    BY <1>13 DEF Probe, ProbeFails, AfterFailedDial, Held
  <2>3. \A g \in Flows : (pc[g] \in {"holder", "certminted"} => op[g] \in CertOps)'
    BY <1>13 DEF Probe, ProbeFails, AfterFailedDial, Held, Renewing
  <2> QED
    BY <2>1, <2>2, <2>3 DEF Held, Renewing
<1>14. ASSUME NEW f \in Flows, RecacheAlive(f) PROVE Held' /\ Renewing'
  BY <1>14 DEF RecacheAlive, AfterFailedDial, Held, Renewing
<1>15. ASSUME NEW f \in Flows, Evict(f) PROVE Held' /\ Renewing'
  BY <1>15 DEF Evict, Held, Renewing
<1>16. ASSUME NEW f \in Flows, Holder(f) PROVE Held' /\ Renewing'
  <2>1. \A b \in Actors : (lock = b <=> pc[b] \in {"auth", "store", "clear", "certgate"})'
    BY <1>16 DEF Holder, Held
  <2>2. \A g \in Flows : (certLock = g <=> op[g] \in CertOps /\ pc[g] \in {"request", "certminted"})'
    BY <1>16 DEF Holder, Held, Renewing
  <2>3. \A g \in Flows : (pc[g] \in {"holder", "certminted"} => op[g] \in CertOps)'
    BY <1>16 DEF Holder, Held, Renewing
  <2> QED
    BY <2>1, <2>2, <2>3 DEF Held, Renewing
<1>17. ASSUME NEW f \in Flows, Cancel(f) PROVE Held' /\ Renewing'
  BY <1>17 DEF Cancel, LetGo, Held, Renewing
<1>18. ASSUME NEW a \in Actors, Gate(a) PROVE Held' /\ Renewing'
  <2>1. \A b \in Actors : (lock = b <=> pc[b] \in {"auth", "store", "clear", "certgate"})'
    BY <1>18 DEF Gate, ReauthOk, Held
  <2>2. \A g \in Flows : (certLock = g <=> op[g] \in CertOps /\ pc[g] \in {"request", "certminted"})'
    BY <1>18 DEF Gate, ReauthOk, Held
  <2>3. \A g \in Flows : (pc[g] \in {"holder", "certminted"} => op[g] \in CertOps)'
    BY <1>18 DEF Gate, ReauthOk, Held, Renewing
  <2> QED
    BY <2>1, <2>2, <2>3 DEF Held, Renewing
<1>19. ASSUME NEW a \in Actors, Invalidate(a) PROVE Held' /\ Renewing'
  BY <1>19 DEF Invalidate, ReauthOk, Held, Renewing
<1>20. ASSUME NEW a \in Actors, Authenticate(a) PROVE Held' /\ Renewing'
  BY <1>20 DEF Authenticate, Held, Renewing
<1>21. ASSUME NEW a \in Actors, AuthenticateErr(a) PROVE Held' /\ Renewing'
  <2>1. \A b \in Actors : (lock = b <=> pc[b] \in {"auth", "store", "clear", "certgate"})'
    BY <1>21 DEF AuthenticateErr, OpFails, AfterFailedDial, Held
  <2>2. \A g \in Flows : (certLock = g <=> op[g] \in CertOps /\ pc[g] \in {"request", "certminted"})'
    BY <1>21 DEF AuthenticateErr, OpFails, AfterFailedDial, Held
  <2>3. \A g \in Flows : (pc[g] \in {"holder", "certminted"} => op[g] \in CertOps)'
    BY <1>21 DEF AuthenticateErr, OpFails, AfterFailedDial, Held, Renewing
  <2> QED
    BY <2>1, <2>2, <2>3 DEF Held, Renewing
<1>22. ASSUME NEW a \in Actors, Store(a) PROVE Held' /\ Renewing'
  <2>1. \A b \in Actors : (lock = b <=> pc[b] \in {"auth", "store", "clear", "certgate"})'
    BY <1>22 DEF Store, ReauthOk, Held
  <2>2. \A g \in Flows : (certLock = g <=> op[g] \in CertOps /\ pc[g] \in {"request", "certminted"})'
    BY <1>22 DEF Store, ReauthOk, Held
  <2>3. \A g \in Flows : (pc[g] \in {"holder", "certminted"} => op[g] \in CertOps)'
    BY <1>22 DEF Store, ReauthOk, Held, Renewing
  <2> QED
    BY <2>1, <2>2, <2>3 DEF Held, Renewing
<1>23. ASSUME NEW a \in Actors, Clear(a) PROVE Held' /\ Renewing'
  BY <1>23 DEF Clear, ReauthOk, Held, Renewing
<1>24. ASSUME NEW a \in {"timer", "user"}, Get(a) PROVE Held' /\ Renewing'
  BY <1>24 DEF Get, Held, Renewing
<1>25. CASE TimerWake
  BY <1>25 DEF TimerWake, Held, Renewing
<1>26. CASE UserRefresh
  BY <1>26 DEF UserRefresh, Held, Renewing
<1>27. CASE GuardedStore
  BY <1>27 DEF GuardedStore, Held, Renewing
<1>28. CASE UserStore
  BY <1>28 DEF UserStore, Held, Renewing
<1>29. CASE TickStart
  BY <1>29 DEF TickStart, Held, Renewing
<1>30. CASE TickSnapshot
  BY <1>30 DEF TickSnapshot, Held, Renewing
<1>31. CASE TickProbe
  BY <1>31 DEF TickProbe, Held, Renewing
<1>32. CASE TickRecache
  BY <1>32 DEF TickRecache, Held, Renewing
<1>33. CASE TickPurge
  BY <1>33 DEF TickPurge, Held, Renewing
<1>34. CASE ServiceRemoved
  BY <1>34 DEF ServiceRemoved, Held, Renewing
<1>35. ASSUME NEW t \in Tokens, ExpireToken(t) PROVE Held' /\ Renewing'
  BY <1>35 DEF ExpireToken, Held, Renewing
<1>36. ASSUME NEW s \in Sessions, DeleteSession(s) PROVE Held' /\ Renewing'
  BY <1>36 DEF DeleteSession, Held, Renewing
<1>37. CASE UNCHANGED vars
  BY <1>37 DEF vars, Held, Renewing
<1> QED
  BY <1>1, <1>2, <1>3, <1>4, <1>5, <1>6, <1>7, <1>8, <1>9, <1>10, <1>11, <1>12, <1>13, <1>14, <1>15, <1>16, <1>17, <1>18, <1>19, <1>20, <1>21, <1>22, <1>23, <1>24, <1>25, <1>26, <1>27, <1>28, <1>29, <1>30, <1>31, <1>32, <1>33, <1>34, <1>35, <1>36, <1>37 DEF Next, FlowStep, Await, Reauthenticate, Refresh, Tick

\* What the controller minted stays in the hand of the actor that stores it.
LEMMA MintedStep == Typed /\ Minted /\ [Next]_vars => Minted'
<1> SUFFICES ASSUME ActorsTyped, ControllerTyped, Minted, [Next]_vars PROVE Minted'
  BY DEF Typed
<1> USE Names DEF ActorsTyped, Minted, Ended, CertOps, Goto, client, actors, flow, refresher, controller, history, TickElsewhere
<1>1. ASSUME NEW f \in Flows, Start(f) PROVE Minted'
  BY <1>1 DEF Start, InFlight
<1>2. ASSUME NEW f \in Flows, ReadToken(f) PROVE Minted'
  BY <1>2 DEF ReadToken
<1>3. ASSUME NEW f \in Flows, Accepted(f) PROVE Minted'
  BY <1>3 DEF Accepted
<1>4. ASSUME NEW f \in Flows, Unauthorized(f) PROVE Minted'
  BY <1>4 DEF Unauthorized, OpFails, AfterFailedDial, LetGo
<1>5. ASSUME NEW f \in Flows, RequestErr(f) PROVE Minted'
  BY <1>5 DEF RequestErr, OpFails, AfterFailedDial, LetGo, Wrap
<1>6. ASSUME NEW f \in Flows, CertStored(f) PROVE Minted'
  BY <1>6 DEF CertStored
<1>7. ASSUME NEW f \in Flows, Lookup(f) PROVE Minted'
  BY <1>7 DEF Lookup, Wrap
<1>8. ASSUME NEW f \in Flows, Insert(f) PROVE Minted'
  BY <1>8 DEF Insert
<1>9. ASSUME NEW f \in Flows, Open(f) PROVE Minted'
  BY <1>9 DEF Open
<1>10. ASSUME NEW f \in Flows, Pool(f) PROVE Minted'
  BY <1>10 DEF Pool, Wrap
<1>11. ASSUME NEW f \in Flows, Dial(f) PROVE Minted'
  BY <1>11 DEF Dial, AfterFailedDial
<1>12. ASSUME NEW f \in Flows, ProbeStart(f) PROVE Minted'
  BY <1>12 DEF ProbeStart
<1>13. ASSUME NEW f \in Flows, Probe(f) PROVE Minted'
  BY <1>13 DEF Probe, ProbeFails, AfterFailedDial
<1>14. ASSUME NEW f \in Flows, RecacheAlive(f) PROVE Minted'
  BY <1>14 DEF RecacheAlive, AfterFailedDial
<1>15. ASSUME NEW f \in Flows, Evict(f) PROVE Minted'
  BY <1>15 DEF Evict
<1>16. ASSUME NEW f \in Flows, Holder(f) PROVE Minted'
  BY <1>16 DEF Holder
<1>17. ASSUME NEW f \in Flows, Cancel(f) PROVE Minted'
  BY <1>17 DEF Cancel, LetGo
<1>18. ASSUME NEW a \in Actors, Gate(a) PROVE Minted'
  BY <1>18 DEF Gate, ReauthOk
<1>19. ASSUME NEW a \in Actors, Invalidate(a) PROVE Minted'
  BY <1>19 DEF Invalidate, ReauthOk
<1>20. ASSUME NEW a \in Actors, Authenticate(a) PROVE Minted'
  BY <1>20 DEF Authenticate, ControllerTyped, Tokens
<1>21. ASSUME NEW a \in Actors, AuthenticateErr(a) PROVE Minted'
  BY <1>21 DEF AuthenticateErr, OpFails, AfterFailedDial
<1>22. ASSUME NEW a \in Actors, Store(a) PROVE Minted'
  BY <1>22 DEF Store, ReauthOk
<1>23. ASSUME NEW a \in Actors, Clear(a) PROVE Minted'
  BY <1>23 DEF Clear, ReauthOk
<1>24. ASSUME NEW a \in {"timer", "user"}, Get(a) PROVE Minted'
  BY <1>24 DEF Get
<1>25. CASE TimerWake
  BY <1>25 DEF TimerWake
<1>26. CASE UserRefresh
  BY <1>26 DEF UserRefresh
<1>27. CASE GuardedStore
  BY <1>27 DEF GuardedStore
<1>28. CASE UserStore
  BY <1>28 DEF UserStore
<1>29. CASE TickStart
  BY <1>29 DEF TickStart
<1>30. CASE TickSnapshot
  BY <1>30 DEF TickSnapshot
<1>31. CASE TickProbe
  BY <1>31 DEF TickProbe
<1>32. CASE TickRecache
  BY <1>32 DEF TickRecache
<1>33. CASE TickPurge
  BY <1>33 DEF TickPurge
<1>34. CASE ServiceRemoved
  BY <1>34 DEF ServiceRemoved
<1>35. ASSUME NEW t \in Tokens, ExpireToken(t) PROVE Minted'
  BY <1>35 DEF ExpireToken
<1>36. ASSUME NEW s \in Sessions, DeleteSession(s) PROVE Minted'
  BY <1>36 DEF DeleteSession
<1>37. CASE UNCHANGED vars
  BY <1>37 DEF vars
<1> QED
  BY <1>1, <1>2, <1>3, <1>4, <1>5, <1>6, <1>7, <1>8, <1>9, <1>10, <1>11, <1>12, <1>13, <1>14, <1>15, <1>16, <1>17, <1>18, <1>19, <1>20, <1>21, <1>22, <1>23, <1>24, <1>25, <1>26, <1>27, <1>28, <1>29, <1>30, <1>31, <1>32, <1>33, <1>34, <1>35, <1>36, <1>37 DEF Next, FlowStep, Await, Reauthenticate, Refresh, Tick

\* What is taken out of the cache is what was in it.
LEMMA Uncaches ==
  ASSUME ClientTyped, Known, Len(under) \in Nat, Uncache
  PROVE  /\ cache' = 0 /\ evicted' \subseteq 1..Len(under)
         /\ \A s \in evicted' : s \in evicted \/ s = cache
BY Names DEF ClientTyped, Known, Uncache, Sessions

\* cache_dial_session is the only way into the cache, and it inserts what no
\* one has evicted; recache_refreshed_dial_session never changes the identity.
LEMMA CacheStep == Typed /\ Fresh /\ Known /\ NoResurrection /\ [Next]_vars
                     => Fresh' /\ Known' /\ NoResurrection'
<1> SUFFICES ASSUME ClientTyped, ActorsTyped, FlowTyped, ControllerTyped,
                    Fresh, Known, NoResurrection, [Next]_vars
             PROVE  (Fresh /\ Known /\ NoResurrection)'
  BY DEF Typed
<1>0. Len(under) \in Nat
  BY DEF ControllerTyped
<1> USE <1>0, Names DEF ActorsTyped, FlowTyped, Fresh, Known, NoResurrection, Ended, CertOps, Goto, client, actors, flow, refresher, controller, history, TickElsewhere
<1>1. ASSUME NEW f \in Flows, Start(f) PROVE (Fresh /\ Known /\ NoResurrection)'
  BY <1>1 DEF Start, InFlight
<1>2. ASSUME NEW f \in Flows, ReadToken(f) PROVE (Fresh /\ Known /\ NoResurrection)'
  BY <1>2 DEF ReadToken
<1>3. ASSUME NEW f \in Flows, Accepted(f) PROVE (Fresh /\ Known /\ NoResurrection)'
  <2>1. CASE op[f] = "create"
    <3>1. /\ under' = Append(under, used[f]) /\ used[f] \in Tokens /\ under \in Seq(Tokens)
          /\ sess' = [sess EXCEPT ![f] = Len(under')]
          /\ pc' = [pc EXCEPT ![f] = "insert"] /\ UNCHANGED <<cache, evicted>>
      BY <1>3, <2>1 DEF Accepted, ControllerTyped
    <3>2. Len(under') = Len(under) + 1
      BY <3>1
    <3>3. Known' /\ NoResurrection'
      BY <3>1, <3>2 DEF ClientTyped, Sessions
    <3>4. Fresh'
      BY <3>1, <3>2 DEF ClientTyped, Sessions
    <3> QED
      BY <3>3, <3>4
  <2>2. CASE op[f] # "create"
    BY <1>3, <2>2 DEF Accepted
  <2> QED
    BY <2>1, <2>2
<1>4. ASSUME NEW f \in Flows, Unauthorized(f) PROVE (Fresh /\ Known /\ NoResurrection)'
  BY <1>4 DEF Unauthorized, OpFails, AfterFailedDial, LetGo
<1>5. ASSUME NEW f \in Flows, RequestErr(f) PROVE (Fresh /\ Known /\ NoResurrection)'
  BY <1>5 DEF RequestErr, OpFails, AfterFailedDial, LetGo, Wrap
<1>6. ASSUME NEW f \in Flows, CertStored(f) PROVE (Fresh /\ Known /\ NoResurrection)'
  BY <1>6 DEF CertStored
<1>7. ASSUME NEW f \in Flows, Lookup(f) PROVE (Fresh /\ Known /\ NoResurrection)'
  BY <1>7 DEF Lookup, Wrap
<1>8. ASSUME NEW f \in Flows, Insert(f) PROVE (Fresh /\ Known /\ NoResurrection)'
  <2>1. /\ cache' = sess[f] /\ sess[f] \in 1..Len(under) /\ UNCHANGED <<under, sess>>
        /\ evicted' = evicted \cup ({cache} \ {0}) /\ sess[f] # cache /\ sess[f] \notin evicted
    BY <1>8 DEF Insert
  <2>2. Known'
    BY <2>1 DEF ClientTyped, Sessions
  <2>3. NoResurrection'
    BY <2>1
  <2>4. \A g \in Flows : pc'[g] = "insert" => g # f /\ pc[g] = "insert"
    BY <1>8 DEF Insert
  <2>5. ASSUME NEW g \in Flows, pc'[g] = "insert"
        PROVE  sess'[g] \in 1..Len(under') /\ sess'[g] # cache' /\ sess'[g] \notin evicted'
    BY <2>1, <2>4, <2>5, <1>8 DEF Insert
  <2>6. ASSUME NEW g \in Flows, NEW h \in Flows, g # h, pc'[g] = "insert", pc'[h] = "insert"
        PROVE  sess'[g] # sess'[h]
    BY <2>1, <2>4, <2>6
  <2> QED
    BY <2>2, <2>3, <2>5, <2>6
<1>9. ASSUME NEW f \in Flows, Open(f) PROVE (Fresh /\ Known /\ NoResurrection)'
  BY <1>9 DEF Open
<1>10. ASSUME NEW f \in Flows, Pool(f) PROVE (Fresh /\ Known /\ NoResurrection)'
  BY <1>10 DEF Pool, Wrap
<1>11. ASSUME NEW f \in Flows, Dial(f) PROVE (Fresh /\ Known /\ NoResurrection)'
  BY <1>11 DEF Dial, AfterFailedDial
<1>12. ASSUME NEW f \in Flows, ProbeStart(f) PROVE (Fresh /\ Known /\ NoResurrection)'
  BY <1>12 DEF ProbeStart
<1>13. ASSUME NEW f \in Flows, Probe(f) PROVE (Fresh /\ Known /\ NoResurrection)'
  <2>1. CASE Uncache
    <3>1. /\ cache' = 0 /\ evicted' \subseteq 1..Len(under)
          /\ \A s \in evicted' : s \in evicted \/ s = cache
      BY <2>1, Uncaches
    <3> QED
      BY <1>13, <3>1 DEF Probe, ProbeFails, AfterFailedDial
  <2>2. CASE UNCHANGED <<cache, evicted>>
    BY <1>13, <2>2 DEF Probe, ProbeFails, AfterFailedDial
  <2> QED
    BY <1>13, <2>1, <2>2 DEF Probe
<1>14. ASSUME NEW f \in Flows, RecacheAlive(f) PROVE (Fresh /\ Known /\ NoResurrection)'
  BY <1>14 DEF RecacheAlive, Recache, AfterFailedDial
<1>15. ASSUME NEW f \in Flows, Evict(f) PROVE (Fresh /\ Known /\ NoResurrection)'
  <2>1. /\ cache' = 0 /\ evicted' \subseteq 1..Len(under)
        /\ \A s \in evicted' : s \in evicted \/ s = cache
    BY <1>15, Uncaches DEF Evict
  <2> QED
    BY <1>15, <2>1 DEF Evict
<1>16. ASSUME NEW f \in Flows, Holder(f) PROVE (Fresh /\ Known /\ NoResurrection)'
  BY <1>16 DEF Holder
<1>17. ASSUME NEW f \in Flows, Cancel(f) PROVE (Fresh /\ Known /\ NoResurrection)'
  BY <1>17 DEF Cancel, LetGo
<1>18. ASSUME NEW a \in Actors, Gate(a) PROVE (Fresh /\ Known /\ NoResurrection)'
  BY <1>18 DEF Gate, ReauthOk
<1>19. ASSUME NEW a \in Actors, Invalidate(a) PROVE (Fresh /\ Known /\ NoResurrection)'
  BY <1>19 DEF Invalidate, ReauthOk
<1>20. ASSUME NEW a \in Actors, Authenticate(a) PROVE (Fresh /\ Known /\ NoResurrection)'
  BY <1>20 DEF Authenticate
<1>21. ASSUME NEW a \in Actors, AuthenticateErr(a) PROVE (Fresh /\ Known /\ NoResurrection)'
  BY <1>21 DEF AuthenticateErr, OpFails, AfterFailedDial
<1>22. ASSUME NEW a \in Actors, Store(a) PROVE (Fresh /\ Known /\ NoResurrection)'
  BY <1>22 DEF Store, ReauthOk
<1>23. ASSUME NEW a \in Actors, Clear(a) PROVE (Fresh /\ Known /\ NoResurrection)'
  <2>1. /\ cache' = 0 /\ evicted' \subseteq 1..Len(under)
        /\ \A s \in evicted' : s \in evicted \/ s = cache
    BY <1>23, Uncaches DEF Clear
  <2> QED
    BY <1>23, <2>1 DEF Clear, ReauthOk
<1>24. ASSUME NEW a \in {"timer", "user"}, Get(a) PROVE (Fresh /\ Known /\ NoResurrection)'
  BY <1>24 DEF Get
<1>25. CASE TimerWake
  BY <1>25 DEF TimerWake
<1>26. CASE UserRefresh
  BY <1>26 DEF UserRefresh
<1>27. CASE GuardedStore
  BY <1>27 DEF GuardedStore
<1>28. CASE UserStore
  BY <1>28 DEF UserStore
<1>29. CASE TickStart
  BY <1>29 DEF TickStart
<1>30. CASE TickSnapshot
  BY <1>30 DEF TickSnapshot
<1>31. CASE TickProbe
  BY <1>31 DEF TickProbe
<1>32. CASE TickRecache
  BY <1>32 DEF TickRecache, Recache
<1>33. CASE TickPurge
  <2>1. CASE cache = snap
    <3>1. /\ cache' = 0 /\ evicted' \subseteq 1..Len(under)
          /\ \A s \in evicted' : s \in evicted \/ s = cache
      BY <1>33, <2>1, Uncaches DEF TickPurge
    <3> QED
      BY <1>33, <3>1 DEF TickPurge
  <2>2. CASE cache # snap
    <3>1. UNCHANGED <<cache, evicted, pc, sess, under>>
      BY <1>33, <2>2 DEF TickPurge
    <3> QED
      BY <3>1
  <2> QED
    BY <2>1, <2>2
<1>34. CASE ServiceRemoved
  <2>1. /\ cache' = 0 /\ evicted' \subseteq 1..Len(under)
        /\ \A s \in evicted' : s \in evicted \/ s = cache
    BY <1>34, Uncaches DEF ServiceRemoved
  <2> QED
    BY <1>34, <2>1 DEF ServiceRemoved
<1>35. ASSUME NEW t \in Tokens, ExpireToken(t) PROVE (Fresh /\ Known /\ NoResurrection)'
  BY <1>35 DEF ExpireToken
<1>36. ASSUME NEW s \in Sessions, DeleteSession(s) PROVE (Fresh /\ Known /\ NoResurrection)'
  BY <1>36 DEF DeleteSession
<1>37. CASE UNCHANGED vars
  BY <1>37 DEF vars
<1> QED
  BY <1>1, <1>2, <1>3, <1>4, <1>5, <1>6, <1>7, <1>8, <1>9, <1>10, <1>11, <1>12, <1>13, <1>14, <1>15, <1>16, <1>17, <1>18, <1>19, <1>20, <1>21, <1>22, <1>23, <1>24, <1>25, <1>26, <1>27, <1>28, <1>29, <1>30, <1>31, <1>32, <1>33, <1>34, <1>35, <1>36, <1>37 DEF Next, FlowStep, Await, Reauthenticate, Refresh, Tick

\* reauth_lock: between the gate and the store nobody else touches the token, so
\* that it is still the one that was refused, and what replaces it is newer.
LEMMA TokenStep ==
  ASSUME "refresh" \notin Events, Typed, Held, Quiet, Later, OneReauthPerToken, [Next]_vars
  PROVE  (Quiet /\ Later /\ OneReauthPerToken)' /\ token' >= token
<1> DEFINE Kept == (Quiet /\ Later /\ OneReauthPerToken)' /\ token' >= token
<1>0. /\ ActorsTyped /\ token \in Nat /\ tokens \in Nat /\ minted \in [Actors -> Nat]
      /\ \A a \in Actors : lock = a <=> pc[a] \in {"auth", "store", "clear", "certgate"}
  BY Names DEF Typed, ClientTyped, ActorsTyped, ControllerTyped, Tokens, Held
<1> SUFFICES Kept
  OBVIOUS
<1> USE <1>0, Names DEF ActorsTyped, Quiet, Later, OneReauthPerToken, Ended, CertOps, Goto, client, actors, flow, refresher, controller, history, TickElsewhere
<1>1. ASSUME NEW f \in Flows, Start(f) PROVE Kept
  BY <1>1 DEF Start, InFlight
<1>2. ASSUME NEW f \in Flows, ReadToken(f) PROVE Kept
  BY <1>2 DEF ReadToken
<1>3. ASSUME NEW f \in Flows, Accepted(f) PROVE Kept
  BY <1>3 DEF Accepted
<1>4. ASSUME NEW f \in Flows, Unauthorized(f) PROVE Kept
  BY <1>4 DEF Unauthorized, OpFails, AfterFailedDial, LetGo
<1>5. ASSUME NEW f \in Flows, RequestErr(f) PROVE Kept
  BY <1>5 DEF RequestErr, OpFails, AfterFailedDial, LetGo, Wrap
<1>6. ASSUME NEW f \in Flows, CertStored(f) PROVE Kept
  BY <1>6 DEF CertStored
<1>7. ASSUME NEW f \in Flows, Lookup(f) PROVE Kept
  BY <1>7 DEF Lookup, Wrap
<1>8. ASSUME NEW f \in Flows, Insert(f) PROVE Kept
  BY <1>8 DEF Insert
<1>9. ASSUME NEW f \in Flows, Open(f) PROVE Kept
  BY <1>9 DEF Open
<1>10. ASSUME NEW f \in Flows, Pool(f) PROVE Kept
  BY <1>10 DEF Pool, Wrap
<1>11. ASSUME NEW f \in Flows, Dial(f) PROVE Kept
  BY <1>11 DEF Dial, AfterFailedDial
<1>12. ASSUME NEW f \in Flows, ProbeStart(f) PROVE Kept
  BY <1>12 DEF ProbeStart
<1>13. ASSUME NEW f \in Flows, Probe(f) PROVE Kept
  BY <1>13 DEF Probe, ProbeFails, AfterFailedDial
<1>14. ASSUME NEW f \in Flows, RecacheAlive(f) PROVE Kept
  BY <1>14 DEF RecacheAlive, AfterFailedDial
<1>15. ASSUME NEW f \in Flows, Evict(f) PROVE Kept
  BY <1>15 DEF Evict
<1>16. ASSUME NEW f \in Flows, Holder(f) PROVE Kept
  BY <1>16 DEF Holder
<1>17. ASSUME NEW f \in Flows, Cancel(f) PROVE Kept
  BY <1>17 DEF Cancel, LetGo
<1>18. ASSUME NEW a \in Actors, Gate(a) PROVE Kept
  BY <1>18 DEF Gate, ReauthOk
<1>19. ASSUME NEW a \in Actors, Invalidate(a) PROVE Kept
  BY <1>19 DEF Invalidate, ReauthOk
<1>20. ASSUME NEW a \in Actors, Authenticate(a) PROVE Kept
  BY <1>20 DEF Authenticate
<1>21. ASSUME NEW a \in Actors, AuthenticateErr(a) PROVE Kept
  BY <1>21 DEF AuthenticateErr, OpFails, AfterFailedDial
<1>22. ASSUME NEW a \in Actors, Store(a) PROVE Kept
  BY <1>22 DEF Store, ReauthOk
<1>23. ASSUME NEW a \in Actors, Clear(a) PROVE Kept
  BY <1>23 DEF Clear, ReauthOk
<1>24. ASSUME NEW a \in {"timer", "user"}, Get(a) PROVE Kept
  BY <1>24 DEF Get
<1>25. CASE TimerWake
  BY <1>25 DEF TimerWake
<1>26. CASE UserRefresh
  BY <1>26 DEF UserRefresh
<1>27. CASE GuardedStore
  BY <1>27 DEF GuardedStore
<1>28. CASE UserStore
  BY <1>28 DEF UserStore
<1>29. CASE TickStart
  BY <1>29 DEF TickStart
<1>30. CASE TickSnapshot
  BY <1>30 DEF TickSnapshot
<1>31. CASE TickProbe
  BY <1>31 DEF TickProbe
<1>32. CASE TickRecache
  BY <1>32 DEF TickRecache
<1>33. CASE TickPurge
  BY <1>33 DEF TickPurge
<1>34. CASE ServiceRemoved
  BY <1>34 DEF ServiceRemoved
<1>35. ASSUME NEW t \in Tokens, ExpireToken(t) PROVE Kept
  BY <1>35 DEF ExpireToken
<1>36. ASSUME NEW s \in Sessions, DeleteSession(s) PROVE Kept
  BY <1>36 DEF DeleteSession
<1>37. CASE UNCHANGED vars
  BY <1>37 DEF vars
<1> QED
  BY <1>1, <1>2, <1>3, <1>4, <1>5, <1>6, <1>7, <1>8, <1>9, <1>10, <1>11, <1>12, <1>13, <1>14, <1>15, <1>16, <1>17, <1>18, <1>19, <1>20, <1>21, <1>22, <1>23, <1>24, <1>25, <1>26, <1>27, <1>28, <1>29, <1>30, <1>31, <1>32, <1>33, <1>34, <1>35, <1>36, <1>37 DEF Next, FlowStep, Await, Reauthenticate, Refresh, Tick

\* What the tick has in its snapshot was minted, and what it takes for dead is
\* dead: it never comes back to life.
Purging ==
  /\ tick \in {"probe", "recache", "purge"} => snap \in 1..Len(under)
  /\ tick = "purge" => snap \notin alive

\* The tick's purge is right about the session in its snapshot, whatever happens
\* between its look at the cache, its probe and the purge.
LEMMA PurgeStep ==
  ASSUME Typed, Known, Purging, [Next]_vars
  PROVE  Purging' /\ [tick = "purge" /\ tick' = "sleep" /\ cache' # cache => cache \notin alive]_vars
<1> DEFINE Same == UNCHANGED <<tick, snap, under, alive>>
           Kept == Purging' /\ (tick = "purge" /\ tick' = "sleep" /\ cache' # cache => cache \notin alive)
<1>0. /\ Len(under) \in Nat /\ alive \subseteq 1..Len(under)
      /\ under \in Seq(Tokens) /\ cache \in Nat /\ cache <= Len(under)
  BY Names DEF Typed, ClientTyped, ControllerTyped, Sessions, Known
<1>a. ASSUME Same PROVE Kept
  BY <1>a DEF Purging
<1> USE DEF client, actors, flow, refresher, controller, TickElsewhere
<1>1. ASSUME NEW f \in Flows, Start(f) PROVE Kept
  BY <1>1, <1>a DEF Start
<1>2. ASSUME NEW f \in Flows, ReadToken(f) PROVE Kept
  BY <1>2, <1>a DEF ReadToken
<1>3. ASSUME NEW f \in Flows, Accepted(f) PROVE Kept
  <2>1. CASE op[f] = "create"
    <3>1. under' = Append(under, used[f]) /\ used[f] \in Tokens /\ alive' = alive \cup {Len(under')}
      BY <1>3, <2>1, Names DEF Accepted, CertOps, Typed, ActorsTyped
    <3>2. Len(under') = Len(under) + 1
      BY <1>0, <3>1
    <3>3. tick' = tick /\ snap' = snap
      BY <1>3 DEF Accepted
    <3>4. tick = "purge" => snap # Len(under')
      BY <1>0, <3>2 DEF Purging
    <3> QED
      BY <1>0, <3>1, <3>2, <3>3, <3>4 DEF Purging
  <2>2. CASE op[f] # "create"
    BY <1>3, <1>a, <2>2 DEF Accepted
  <2> QED
    BY <2>1, <2>2
<1>4. ASSUME NEW f \in Flows, Unauthorized(f) PROVE Kept
  BY <1>4, <1>a DEF Unauthorized
<1>5. ASSUME NEW f \in Flows, RequestErr(f) PROVE Kept
  BY <1>5, <1>a DEF RequestErr
<1>6. ASSUME NEW f \in Flows, CertStored(f) PROVE Kept
  BY <1>6, <1>a DEF CertStored
<1>7. ASSUME NEW f \in Flows, Lookup(f) PROVE Kept
  BY <1>7, <1>a DEF Lookup
<1>8. ASSUME NEW f \in Flows, Insert(f) PROVE Kept
  BY <1>8, <1>a DEF Insert
<1>9. ASSUME NEW f \in Flows, Open(f) PROVE Kept
  BY <1>9, <1>a DEF Open
<1>10. ASSUME NEW f \in Flows, Pool(f) PROVE Kept
  BY <1>10, <1>a DEF Pool
<1>11. ASSUME NEW f \in Flows, Dial(f) PROVE Kept
  BY <1>11, <1>a DEF Dial
<1>12. ASSUME NEW f \in Flows, ProbeStart(f) PROVE Kept
  BY <1>12, <1>a DEF ProbeStart
<1>13. ASSUME NEW f \in Flows, Probe(f) PROVE Kept
  BY <1>13, <1>a DEF Probe
<1>14. ASSUME NEW f \in Flows, RecacheAlive(f) PROVE Kept
  BY <1>14, <1>a DEF RecacheAlive
<1>15. ASSUME NEW f \in Flows, Evict(f) PROVE Kept
  BY <1>15, <1>a DEF Evict
<1>16. ASSUME NEW f \in Flows, Holder(f) PROVE Kept
  BY <1>16, <1>a DEF Holder
<1>17. ASSUME NEW f \in Flows, Cancel(f) PROVE Kept
  BY <1>17, <1>a DEF Cancel
<1>18. ASSUME NEW a \in Actors, Gate(a) PROVE Kept
  BY <1>18, <1>a DEF Gate
<1>19. ASSUME NEW a \in Actors, Invalidate(a) PROVE Kept
  BY <1>19, <1>a DEF Invalidate
<1>20. ASSUME NEW a \in Actors, Authenticate(a) PROVE Kept
  BY <1>20, <1>a DEF Authenticate
<1>21. ASSUME NEW a \in Actors, AuthenticateErr(a) PROVE Kept
  BY <1>21, <1>a DEF AuthenticateErr
<1>22. ASSUME NEW a \in Actors, Store(a) PROVE Kept
  BY <1>22, <1>a DEF Store
<1>23. ASSUME NEW a \in Actors, Clear(a) PROVE Kept
  BY <1>23, <1>a DEF Clear
<1>24. ASSUME NEW a \in {"timer", "user"}, Get(a) PROVE Kept
  BY <1>24, <1>a DEF Get
<1>25. ASSUME TimerWake PROVE Kept
  BY <1>25, <1>a DEF TimerWake
<1>26. ASSUME UserRefresh PROVE Kept
  BY <1>26, <1>a DEF UserRefresh
<1>27. ASSUME GuardedStore PROVE Kept
  BY <1>27, <1>a DEF GuardedStore
<1>28. ASSUME UserStore PROVE Kept
  BY <1>28, <1>a DEF UserStore
<1>29. ASSUME TickStart PROVE Kept
  BY <1>29 DEF TickStart, Purging
<1>30. ASSUME TickSnapshot PROVE Kept
  <2>1. snap' = cache /\ tick = "snapshot" /\ tick' = IF cache = 0 THEN "sleep" ELSE "probe"
    BY <1>30 DEF TickSnapshot
  <2>2. under' = under
    BY <1>30 DEF TickSnapshot
  <2> QED
    BY <1>0, <2>1, <2>2 DEF Purging
<1>31. ASSUME TickProbe PROVE Kept
  BY <1>31 DEF TickProbe, ProvenDead, Purging
<1>32. ASSUME TickRecache PROVE Kept
  BY <1>32 DEF TickRecache, Purging
<1>33. ASSUME TickPurge PROVE Kept
  BY <1>33 DEF TickPurge, Purging
<1>34. ASSUME ServiceRemoved PROVE Kept
  BY <1>34, <1>a DEF ServiceRemoved
<1>35. ASSUME NEW t \in Tokens, ExpireToken(t) PROVE Kept
  <2>1. alive' \subseteq alive /\ UNCHANGED <<tick, snap, under>>
    BY <1>35 DEF ExpireToken
  <2> QED
    BY <2>1 DEF Purging
<1>36. ASSUME NEW s \in Sessions, DeleteSession(s) PROVE Kept
  <2>1. alive' \subseteq alive /\ UNCHANGED <<tick, snap, under>>
    BY <1>36 DEF DeleteSession
  <2> QED
    BY <2>1 DEF Purging
<1>37. ASSUME UNCHANGED vars PROVE Kept
  BY <1>37, <1>a DEF vars
<1> QED
  BY <1>1, <1>2, <1>3, <1>4, <1>5, <1>6, <1>7, <1>8, <1>9, <1>10, <1>11, <1>12, <1>13, <1>14, <1>15, <1>16, <1>17, <1>18, <1>19, <1>20, <1>21, <1>22, <1>23, <1>24, <1>25, <1>26, <1>27, <1>28, <1>29, <1>30, <1>31, <1>32, <1>33, <1>34, <1>35, <1>36, <1>37 DEF Next, FlowStep, Await, Reauthenticate, Refresh, Tick

\* A client to which nothing has happened but expired tokens.
Sound == errors = 0 /\ kind = "legacy" /\ \A f \in Flows : pc[f] # "cancelled"
OneExpired == \A s, t \in 1..tokens : s \notin valid /\ t \notin valid => s = t

\* No actor, and no session, has a token that the client has not had.  The last
\* token does not expire.
Ahead ==
  /\ \A a \in Actors : used[a] <= token
  /\ \A s \in 1..Len(under) : under[s] <= token
  /\ MaxTokens <= tokens => MaxTokens \in valid

\* Whoever asks for a new token was refused with the one it used; there is one
\* token that may be valid, the client's or the one about to be stored; and the
\* sessions that exist are those of valid tokens.
Turn ==
  /\ \A a \in Actors : pc[a] \in {"gate", "auth"} => used[a] \notin valid
  /\ token = tokens \/ \E a \in Actors : pc[a] = "store" /\ minted[a] = tokens
  /\ \A t \in 1..tokens : t # tokens => t \notin valid
  /\ \A s \in 1..Len(under) : s \in alive <=> under[s] \in valid

\* A flow that has not begun is as it was; one that is alone has no other beside it.
Begun == \A f \in Flows : pc[f] = "idle" => op[f] = "resolve" /\ ~again[f] /\ dials[f] = 1 /\ f \notin alone
Apart == \A f \in alone : pc[f] \notin Ended => \A g \in Flows : g # f => pc[g] \in Ended

\* Inside with_reauth_retry; and where a flow has a dial session in its hand.
Trying == {"op", "holder", "request", "certminted"}
HasSession(f) ==
  \/ pc[f] \in {"insert", "open", "pool", "dial", "probe", "probing", "recache", "evict"}
  \/ op[f] \in CertOps /\ pc[f] \in Trying \cup Reauth

\* A flow that is alone, as long as only the first token has expired: at a second
\* attempt it uses the second token, at a second dial a session of the second token.
Fine(f) ==
  /\ pc[f] # "failed"
  /\ HasSession(f) => sess[f] \in 1..Len(under)
  /\ (again[f] /\ pc[f] \in Trying) \/ pc[f] \in {"clear", "certgate"} => token # 1
  /\ again[f] /\ pc[f] \in Trying \ {"op"} => used[f] # 1
  /\ dials[f] = 2 => 1 \notin valid
  /\ dials[f] = 2 /\ pc[f] = "lookup" => cache = 0
  /\ dials[f] = 2 /\ pc[f] \in Trying \cup Reauth => op[f] # "resolve"
  /\ dials[f] = 2 /\ HasSession(f) => under[sess[f]] # 1
  /\ pc[f] = "probing" => under[sess[f]] <= used[f]
  /\ pc[f] \in {"probe", "probing"} /\ op[f] # "routers" => dials[f] = 1 /\ sess[f] \notin alive
  /\ pc[f] = "recache" => op[f] = "routers"
  /\ pc[f] = "evict" => dials[f] = 1 /\ 1 \notin valid
Recovers == \A f \in alone : Fine(f)

\* What any step leaves alone: a flow that has ended, or not begun, stays as it
\* is; tokens are only added, each of them valid at first.
Keeps ==
  /\ errors' \in {errors, errors + 1} /\ kind' = kind
  /\ \/ tokens' = tokens /\ valid' \subseteq valid
     \/ tokens' = tokens + 1 /\ valid' = valid \cup {tokens + 1}
  /\ \A f \in Flows : pc[f] \in {"connected", "failed", "cancelled"} => pc'[f] = pc[f]
  /\ \A f \in Flows : pc'[f] = "idle" =>
       pc[f] = "idle" /\ op'[f] = op[f] /\ again'[f] = again[f] /\ dials'[f] = dials[f]

\* No step of anybody disturbs a flow that is not under way.
LEMMA StepKeeps == ASSUME Typed, Quiet, [Next]_vars PROVE Keeps
<1>0. ActorsTyped /\ FlowTyped /\ errors \in Nat
  BY Names DEF Typed, ControllerTyped
<1> USE <1>0, Names DEF Keeps, ActorsTyped, FlowTyped, Ended, Goto, client, actors, flow, refresher, controller, history, TickElsewhere
<1>1. ASSUME NEW f \in Flows, Start(f) PROVE Keeps
  BY <1>1 DEF Start, InFlight
<1>2. ASSUME NEW f \in Flows, ReadToken(f) PROVE Keeps
  BY <1>2 DEF ReadToken
<1>3. ASSUME NEW f \in Flows, Accepted(f) PROVE Keeps
  BY <1>3 DEF Accepted
<1>4. ASSUME NEW f \in Flows, Unauthorized(f) PROVE Keeps
  BY <1>4 DEF Unauthorized, OpFails, AfterFailedDial, LetGo
<1>5. ASSUME NEW f \in Flows, RequestErr(f) PROVE Keeps
  BY <1>5 DEF RequestErr, OpFails, AfterFailedDial, LetGo, Wrap, SomethingFails
<1>6. ASSUME NEW f \in Flows, CertStored(f) PROVE Keeps
  BY <1>6 DEF CertStored
<1>7. ASSUME NEW f \in Flows, Lookup(f) PROVE Keeps
  BY <1>7 DEF Lookup, Wrap
<1>8. ASSUME NEW f \in Flows, Insert(f) PROVE Keeps
  BY <1>8 DEF Insert
<1>9. ASSUME NEW f \in Flows, Open(f) PROVE Keeps
  BY <1>9 DEF Open
<1>10. ASSUME NEW f \in Flows, Pool(f) PROVE Keeps
  BY <1>10 DEF Pool, Wrap
<1>11. ASSUME NEW f \in Flows, Dial(f) PROVE Keeps
  BY <1>11 DEF Dial, AfterFailedDial, SomethingFails
<1>12. ASSUME NEW f \in Flows, ProbeStart(f) PROVE Keeps
  BY <1>12 DEF ProbeStart
<1>13. ASSUME NEW f \in Flows, Probe(f) PROVE Keeps
  BY <1>13 DEF Probe, ProbeFails, AfterFailedDial, SomethingFails, Uncache
<1>14. ASSUME NEW f \in Flows, RecacheAlive(f) PROVE Keeps
  BY <1>14 DEF RecacheAlive, AfterFailedDial, SomethingFails, Recache
<1>15. ASSUME NEW f \in Flows, Evict(f) PROVE Keeps
  BY <1>15 DEF Evict, Uncache
<1>16. ASSUME NEW f \in Flows, Holder(f) PROVE Keeps
  BY <1>16 DEF Holder
<1>17. ASSUME NEW f \in Flows, Cancel(f) PROVE Keeps
  BY <1>17 DEF Cancel, LetGo
<1>18. ASSUME NEW a \in Actors, Gate(a) PROVE Keeps
  BY <1>18 DEF Gate, ReauthOk
<1>19. ASSUME NEW a \in Actors, Invalidate(a) PROVE Keeps
  BY <1>19 DEF Invalidate, ReauthOk
<1>20. ASSUME NEW a \in Actors, Authenticate(a) PROVE Keeps
  BY <1>20 DEF Authenticate
<1>21. ASSUME NEW a \in Actors, AuthenticateErr(a) PROVE Keeps
  BY <1>21 DEF AuthenticateErr, OpFails, AfterFailedDial, SomethingFails
<1>22. ASSUME NEW a \in Actors, Store(a) PROVE Keeps
  BY <1>22 DEF Store, ReauthOk
<1>23. ASSUME NEW a \in Actors, Clear(a) PROVE Keeps
  BY <1>23 DEF Clear, ReauthOk, Uncache
<1>24. ASSUME NEW a \in {"timer", "user"}, Get(a) PROVE Keeps
  BY <1>24 DEF Get, SomethingFails
<1>25. ASSUME TimerWake PROVE Keeps
  BY <1>25 DEF TimerWake
<1>26. ASSUME UserRefresh PROVE Keeps
  BY <1>26 DEF UserRefresh
<1>27. ASSUME GuardedStore PROVE Keeps
  BY <1>27 DEF GuardedStore
<1>28. ASSUME UserStore PROVE Keeps
  BY <1>28 DEF UserStore
<1>29. ASSUME TickStart PROVE Keeps
  BY <1>29 DEF TickStart
<1>30. ASSUME TickSnapshot PROVE Keeps
  BY <1>30 DEF TickSnapshot
<1>31. ASSUME TickProbe PROVE Keeps
  BY <1>31 DEF TickProbe, SomethingFails
<1>32. ASSUME TickRecache PROVE Keeps
  BY <1>32 DEF TickRecache, Recache
<1>33. ASSUME TickPurge PROVE Keeps
  BY <1>33 DEF TickPurge, Uncache
<1>34. ASSUME ServiceRemoved PROVE Keeps
  BY <1>34 DEF ServiceRemoved, Uncache
<1>35. ASSUME NEW t \in Tokens, ExpireToken(t) PROVE Keeps
  BY <1>35 DEF ExpireToken
<1>36. ASSUME NEW s \in Sessions, DeleteSession(s) PROVE Keeps
  BY <1>36 DEF DeleteSession, SomethingFails
<1>37. ASSUME UNCHANGED vars PROVE Keeps
  BY <1>37 DEF vars
<1> QED
  BY <1>1, <1>2, <1>3, <1>4, <1>5, <1>6, <1>7, <1>8, <1>9, <1>10, <1>11, <1>12, <1>13, <1>14, <1>15, <1>16, <1>17, <1>18, <1>19, <1>20, <1>21, <1>22, <1>23, <1>24, <1>25, <1>26, <1>27, <1>28, <1>29, <1>30, <1>31, <1>32, <1>33, <1>34, <1>35, <1>36, <1>37 DEF Next, FlowStep, Await, Reauthenticate, Refresh, Tick

\* What has gone wrong stays so.
LEMMA Earlier == ASSUME Typed, Keeps PROVE (Sound' => Sound) /\ (OneExpired' => OneExpired)
<1>1. errors \in Nat /\ tokens \in Nat
  BY Names DEF Typed, ControllerTyped, Tokens
<1>2. Sound' => Sound
  BY <1>1 DEF Sound, Keeps
<1>3. ASSUME OneExpired', NEW s \in 1..tokens, NEW t \in 1..tokens, s \notin valid, t \notin valid
      PROVE  s = t
  <2>1. s \in 1..tokens' /\ t \in 1..tokens' /\ s \notin valid' /\ t \notin valid'
    BY <1>1, <1>3 DEF Keeps
  <2> QED
    BY <1>3, <2>1 DEF OneExpired
<1> QED
  BY <1>2, <1>3 DEF OneExpired

\* A token is used after the client has had it.
LEMMA AheadStep ==
  ASSUME Typed, Typed', Quiet, Ahead, token' >= token, "refresh" \notin Events, [Next]_vars PROVE Ahead'
<1> DEFINE A1 == \A b \in Actors : used'[b] <= token'
           A2 == \A i \in 1..Len(under') : under'[i] <= token'
           A3 == MaxTokens <= tokens' => MaxTokens \in valid'
<1>0. /\ token \in Nat /\ token' \in Nat /\ tokens \in Nat /\ tokens <= MaxTokens
      /\ under \in Seq(Tokens) /\ used \in [Actors -> Nat]
  BY Names DEF Typed, ClientTyped, ActorsTyped, ControllerTyped, Tokens
<1>x. \A b \in Actors : used[b] <= token'
  BY <1>0 DEF Ahead
<1>y. \A i \in 1..Len(under) : under[i] \in Nat /\ under[i] <= token'
  <2>1. \A i \in 1..Len(under) : under[i] \in Tokens
    BY <1>0
  <2>2. Tokens \subseteq Nat
    BY Names DEF Tokens
  <2>3. \A m \in Nat : m <= token => m <= token'
    BY <1>0
  <2> QED
    BY <2>1, <2>2, <2>3 DEF Ahead
<1>a. ASSUME used' = used \/ \E b \in Actors : used' = [used EXCEPT ![b] = token] PROVE A1
  BY <1>0, <1>x, <1>a
<1>b. ASSUME under' = under \/ \E b \in Actors : under' = Append(under, used[b]) PROVE A2
  <2>1. CASE under' = under
    BY <1>y, <2>1
  <2>2. ASSUME NEW b \in Actors, under' = Append(under, used[b]) PROVE A2
    <3>1. PICK n \in Nat : n = Len(under)
      BY <1>0
    <3>2. /\ Len(under') = n + 1 /\ under'[n + 1] = used[b]
          /\ \A i \in 1..n : under'[i] = under[i]
      BY <1>0, <2>2, <3>1
    <3>3. \A i \in 1..(n + 1) : i = n + 1 \/ i \in 1..n
      OBVIOUS
    <3> QED
      BY <1>x, <1>y, <3>1, <3>2, <3>3
  <2> QED
    BY <1>b, <2>1, <2>2
<1>c. ASSUME \/ tokens' = tokens /\ valid' = valid
             \/ tokens' = tokens + 1 /\ valid' = valid \cup {tokens + 1}
             \/ \E t \in Tokens : t < MaxTokens /\ tokens' = tokens /\ valid' = valid \ {t}
      PROVE  A3
  BY <1>0, <1>c, Names DEF Ahead, Tokens
<1> DEFINE Steps ==
      /\ used' = used \/ \E b \in Actors : used' = [used EXCEPT ![b] = token]
      /\ under' = under \/ \E b \in Actors : under' = Append(under, used[b])
      /\ \/ tokens' = tokens /\ valid' = valid
         \/ tokens' = tokens + 1 /\ valid' = valid \cup {tokens + 1}
         \/ \E t \in Tokens : t < MaxTokens /\ tokens' = tokens /\ valid' = valid \ {t}
<1> SUFFICES Steps
  BY <1>a, <1>b, <1>c DEF Ahead
<1> HIDE DEF A1, A2, A3
<1> USE Names DEF client, actors, flow, refresher, controller, history, TickElsewhere
<1>1. ASSUME NEW f \in Flows, Start(f) PROVE Steps
  BY <1>1 DEF Start
<1>2. ASSUME NEW f \in Flows, ReadToken(f) PROVE Steps
  BY <1>2 DEF ReadToken
<1>3. ASSUME NEW f \in Flows, Accepted(f) PROVE Steps
  BY <1>3 DEF Accepted
<1>4. ASSUME NEW f \in Flows, Unauthorized(f) PROVE Steps
  BY <1>4 DEF Unauthorized
<1>5. ASSUME NEW f \in Flows, RequestErr(f) PROVE Steps
  BY <1>5 DEF RequestErr
<1>6. ASSUME NEW f \in Flows, CertStored(f) PROVE Steps
  BY <1>6 DEF CertStored
<1>7. ASSUME NEW f \in Flows, Lookup(f) PROVE Steps
  BY <1>7 DEF Lookup
<1>8. ASSUME NEW f \in Flows, Insert(f) PROVE Steps
  BY <1>8 DEF Insert
<1>9. ASSUME NEW f \in Flows, Open(f) PROVE Steps
  BY <1>9 DEF Open
<1>10. ASSUME NEW f \in Flows, Pool(f) PROVE Steps
  BY <1>10 DEF Pool
<1>11. ASSUME NEW f \in Flows, Dial(f) PROVE Steps
  BY <1>11 DEF Dial
<1>12. ASSUME NEW f \in Flows, ProbeStart(f) PROVE Steps
  BY <1>12 DEF ProbeStart
<1>13. ASSUME NEW f \in Flows, Probe(f) PROVE Steps
  BY <1>13 DEF Probe
<1>14. ASSUME NEW f \in Flows, RecacheAlive(f) PROVE Steps
  BY <1>14 DEF RecacheAlive
<1>15. ASSUME NEW f \in Flows, Evict(f) PROVE Steps
  BY <1>15 DEF Evict
<1>16. ASSUME NEW f \in Flows, Holder(f) PROVE Steps
  BY <1>16 DEF Holder
<1>17. ASSUME NEW f \in Flows, Cancel(f) PROVE Steps
  BY <1>17 DEF Cancel
<1>18. ASSUME NEW a \in Actors, Gate(a) PROVE Steps
  BY <1>18 DEF Gate
<1>19. ASSUME NEW a \in Actors, Invalidate(a) PROVE Steps
  BY <1>19 DEF Invalidate
<1>20. ASSUME NEW a \in Actors, Authenticate(a) PROVE Steps
  BY <1>20 DEF Authenticate
<1>21. ASSUME NEW a \in Actors, AuthenticateErr(a) PROVE Steps
  BY <1>21 DEF AuthenticateErr
<1>22. ASSUME NEW a \in Actors, Store(a) PROVE Steps
  BY <1>22 DEF Store
<1>23. ASSUME NEW a \in Actors, Clear(a) PROVE Steps
  BY <1>23 DEF Clear
<1>24. ASSUME NEW a \in {"timer", "user"}, Get(a) PROVE Steps
  BY <1>24 DEF Get
<1>25. ASSUME TimerWake PROVE Steps
  BY <1>25 DEF TimerWake
<1>26. ASSUME UserRefresh PROVE Steps
  BY <1>26 DEF UserRefresh
<1>27. ASSUME GuardedStore PROVE Steps
  BY <1>27 DEF GuardedStore
<1>28. ASSUME UserStore PROVE Steps
  BY <1>28 DEF UserStore
<1>29. ASSUME TickStart PROVE Steps
  BY <1>29 DEF TickStart
<1>30. ASSUME TickSnapshot PROVE Steps
  BY <1>30 DEF TickSnapshot
<1>31. ASSUME TickProbe PROVE Steps
  BY <1>31 DEF TickProbe
<1>32. ASSUME TickRecache PROVE Steps
  BY <1>32 DEF TickRecache
<1>33. ASSUME TickPurge PROVE Steps
  BY <1>33 DEF TickPurge
<1>34. ASSUME ServiceRemoved PROVE Steps
  BY <1>34 DEF ServiceRemoved
<1>35. ASSUME NEW t \in Tokens, ExpireToken(t) PROVE Steps
  BY <1>35 DEF ExpireToken
<1>36. ASSUME NEW s \in Sessions, DeleteSession(s) PROVE Steps
  BY <1>36 DEF DeleteSession
<1>37. ASSUME UNCHANGED vars PROVE Steps
  BY <1>37 DEF vars
<1> QED
  BY <1>1, <1>2, <1>3, <1>4, <1>5, <1>6, <1>7, <1>8, <1>9, <1>10, <1>11, <1>12, <1>13, <1>14, <1>15, <1>16, <1>17, <1>18, <1>19, <1>20, <1>21, <1>22, <1>23, <1>24, <1>25, <1>26, <1>27, <1>28, <1>29, <1>30, <1>31, <1>32, <1>33, <1>34, <1>35, <1>36, <1>37 DEF Next, FlowStep, Await, Reauthenticate, Refresh, Tick

\* Tokens take turns: each is minted after the one before it has expired.
LEMMA TurnStep ==
  ASSUME Typed, Typed', Held, Quiet, Later, OneReauthPerToken, Ahead, Turn, Sound, Sound',
         "refresh" \notin Events, [Next]_vars
  PROVE  Turn'
<1> DEFINE Asks == {"gate", "auth"}
           T1 == \A a \in Actors : pc'[a] \in Asks => used'[a] \notin valid'
           T2 == token' = tokens' \/ \E a \in Actors : pc'[a] = "store" /\ minted'[a] = tokens'
           T3 == \A t \in 1..tokens' : t # tokens' => t \notin valid'
           T4 == \A s \in 1..Len(under') : s \in alive' <=> under'[s] \in valid'
           Elsewhere == UNCHANGED <<minted, token, tokens, valid, under, alive>>
           Stays == /\ \A a \in Actors : pc'[a] \in Asks => used'[a] = used[a] /\ (pc[a] \in Asks \/ used[a] \notin valid)
                   /\ \A a \in Actors : pc[a] = "store" => pc'[a] = "store"
<1>0. /\ token \in Nat /\ tokens \in Nat /\ errors = 0 /\ errors' = 0 /\ kind = "legacy" /\ kind' = kind
      /\ \A f \in Flows : pc'[f] # "cancelled"
      /\ under \in Seq(Tokens) /\ used \in [Actors -> Tokens] /\ valid \subseteq 1..tokens
      /\ minted \in [Actors -> Tokens \cup {0}] /\ alive \subseteq 1..Len(under)
      /\ pc \in [Actors -> Pcs] /\ op \in [Flows -> Ops] /\ again \in [Flows -> BOOLEAN]
  <2>1. token \in Nat /\ tokens \in Nat
    BY Names DEF Typed, ClientTyped, ControllerTyped, Tokens
  <2>2. /\ errors = 0 /\ errors' = 0 /\ kind = "legacy" /\ kind' = kind
        /\ \A f \in Flows : pc'[f] # "cancelled"
    BY DEF Sound
  <2> QED
    BY <2>1, <2>2 DEF Typed, ActorsTyped, FlowTyped, ControllerTyped
<1>u. /\ \A a \in Actors : pc[a] \in Asks => used[a] \notin valid
      /\ token = tokens \/ \E a \in Actors : pc[a] = "store" /\ minted[a] = tokens
      /\ \A t \in 1..tokens : t # tokens => t \notin valid
      /\ \A s \in 1..Len(under) : s \in alive <=> under[s] \in valid
  BY DEF Turn
<1>h. \A a, b \in Actors : pc[a] \in {"auth", "store"} /\ pc[b] \in {"auth", "store"} => a = b
  BY DEF Held
<1>t. ASSUME T1, T2, T3, T4 PROVE Turn'
  BY <1>t DEF Turn
<1>k. ASSUME Elsewhere, Stays PROVE Turn'
  <2>1. T1
    BY <1>k, <1>u
  <2>2. T2
    BY <1>k, <1>u
  <2>3. T3 /\ T4
    BY <1>k, <1>u
  <2> QED
    BY <2>1, <2>2, <2>3, <1>t
<1> HIDE DEF Elsewhere, Stays, T1, T2, T3, T4
<1> USE Names DEF Goto, client, actors, flow, refresher, controller, history, TickElsewhere
<1>1. ASSUME NEW f \in Flows, Start(f) PROVE Turn'
  <2>1. Elsewhere
    BY <1>1, <1>0 DEF Start, Elsewhere
  <2>2. Stays
    BY <1>1, <1>0 DEF Start, InFlight, Stays
  <2> QED
    BY <2>1, <2>2, <1>k
<1>2. ASSUME NEW f \in Flows, ReadToken(f) PROVE Turn'
  <2>1. Elsewhere
    BY <1>2, <1>0 DEF ReadToken, Elsewhere
  <2>2. Stays
    BY <1>2, <1>0 DEF ReadToken, Stays
  <2> QED
    BY <2>1, <2>2, <1>k
<1>3. ASSUME NEW f \in Flows, Accepted(f) PROVE Turn'
  <2>1. UNCHANGED <<used, minted, token, tokens, valid>> /\ Stays
    BY <1>3, <1>0 DEF Accepted, Stays
  <2>2. CASE op[f] = "create"
    <3>1. PICK n \in Nat : n = Len(under)
      BY <1>0
    <3>2. under' = Append(under, used[f]) /\ alive' = alive \cup {Len(under')} /\ used[f] \in valid
      BY <1>3, <2>2 DEF Accepted, CertOps
    <3>3. /\ Len(under') = n + 1 /\ under'[n + 1] = used[f] /\ alive \subseteq 1..n
          /\ \A i \in 1..n : under'[i] = under[i]
      BY <1>0, <3>1, <3>2
    <3>4. \A i \in 1..(n + 1) : i = n + 1 \/ (i \in 1..n /\ i # n + 1)
      OBVIOUS
    <3>5. T4
      BY <1>u, <2>1, <3>1, <3>2, <3>3, <3>4 DEF T4
    <3>6. T1 /\ T2 /\ T3
      BY <1>u, <2>1 DEF Stays, T1, T2, T3
    <3> QED
      BY <3>5, <3>6, <1>t
  <2>3. CASE op[f] # "create"
    <3>1. Elsewhere
      BY <1>3, <2>1, <2>3 DEF Accepted, Elsewhere
    <3> QED
      BY <2>1, <3>1, <1>k
  <2> QED
    BY <2>2, <2>3
<1>4. ASSUME NEW f \in Flows, Unauthorized(f) PROVE Turn'
  <2>1. Elsewhere
    BY <1>4, <1>0 DEF Unauthorized, Elsewhere
  <2>2. Stays
    BY <1>4, <1>0 DEF Unauthorized, OpFails, AfterFailedDial, LetGo, Stays
  <2> QED
    BY <2>1, <2>2, <1>k
<1>5. ASSUME NEW f \in Flows, RequestErr(f) PROVE Turn'
  BY <1>5, <1>0 DEF RequestErr, SomethingFails
<1>6. ASSUME NEW f \in Flows, CertStored(f) PROVE Turn'
  <2>1. Elsewhere
    BY <1>6, <1>0 DEF CertStored, Elsewhere
  <2>2. Stays
    BY <1>6, <1>0 DEF CertStored, Stays
  <2> QED
    BY <2>1, <2>2, <1>k
<1>7. ASSUME NEW f \in Flows, Lookup(f) PROVE Turn'
  <2>1. Elsewhere
    BY <1>7, <1>0 DEF Lookup, Elsewhere
  <2>2. Stays
    BY <1>7, <1>0 DEF Lookup, Wrap, Stays
  <2> QED
    BY <2>1, <2>2, <1>k
<1>8. ASSUME NEW f \in Flows, Insert(f) PROVE Turn'
  <2>1. Elsewhere
    BY <1>8, <1>0 DEF Insert, Elsewhere
  <2>2. Stays
    BY <1>8, <1>0 DEF Insert, Stays
  <2> QED
    BY <2>1, <2>2, <1>k
<1>9. ASSUME NEW f \in Flows, Open(f) PROVE Turn'
  <2>1. Elsewhere
    BY <1>9, <1>0 DEF Open, Elsewhere
  <2>2. Stays
    BY <1>9, <1>0 DEF Open, Stays
  <2> QED
    BY <2>1, <2>2, <1>k
<1>10. ASSUME NEW f \in Flows, Pool(f) PROVE Turn'
  <2>1. Elsewhere
    BY <1>10, <1>0 DEF Pool, Elsewhere
  <2>2. Stays
    BY <1>10, <1>0 DEF Pool, Wrap, Stays
  <2> QED
    BY <2>1, <2>2, <1>k
<1>11. ASSUME NEW f \in Flows, Dial(f) PROVE Turn'
  <2>1. Elsewhere
    BY <1>11, <1>0 DEF Dial, Elsewhere
  <2>2. Stays
    BY <1>11, <1>0 DEF Dial, AfterFailedDial, SomethingFails, Stays
  <2> QED
    BY <2>1, <2>2, <1>k
<1>12. ASSUME NEW f \in Flows, ProbeStart(f) PROVE Turn'
  <2>1. Elsewhere
    BY <1>12, <1>0 DEF ProbeStart, Elsewhere
  <2>2. Stays
    BY <1>12, <1>0 DEF ProbeStart, Stays
  <2> QED
    BY <2>1, <2>2, <1>k
<1>13. ASSUME NEW f \in Flows, Probe(f) PROVE Turn'
  <2>1. Elsewhere
    BY <1>13, <1>0 DEF Probe, Elsewhere
  <2>2. Stays
    BY <1>13, <1>0 DEF Probe, ProbeFails, AfterFailedDial, SomethingFails, Uncache, Stays
  <2> QED
    BY <2>1, <2>2, <1>k
<1>14. ASSUME NEW f \in Flows, RecacheAlive(f) PROVE Turn'
  <2>1. Elsewhere
    BY <1>14, <1>0 DEF RecacheAlive, Elsewhere
  <2>2. Stays
    BY <1>14, <1>0 DEF RecacheAlive, AfterFailedDial, SomethingFails, Recache, Stays
  <2> QED
    BY <2>1, <2>2, <1>k
<1>15. ASSUME NEW f \in Flows, Evict(f) PROVE Turn'
  <2>1. Elsewhere
    BY <1>15, <1>0 DEF Evict, Elsewhere
  <2>2. Stays
    BY <1>15, <1>0 DEF Evict, Uncache, Stays
  <2> QED
    BY <2>1, <2>2, <1>k
<1>16. ASSUME NEW f \in Flows, Holder(f) PROVE Turn'
  <2>1. Elsewhere
    BY <1>16, <1>0 DEF Holder, Elsewhere
  <2>2. Stays
    BY <1>16, <1>0 DEF Holder, Stays
  <2> QED
    BY <2>1, <2>2, <1>k
<1>17. ASSUME NEW f \in Flows, Cancel(f) PROVE Turn'
  <2>1. pc'[f] = "cancelled"
    BY <1>17, <1>0 DEF Cancel
  <2> QED
    BY <1>0, <2>1
<1>18. ASSUME NEW a \in Actors, Gate(a) PROVE Turn'
  <2>1. Elsewhere
    BY <1>18, <1>0 DEF Gate, Elsewhere
  <2>2. Stays
    BY <1>18, <1>0 DEF Gate, ReauthOk, Stays
  <2> QED
    BY <2>1, <2>2, <1>k
<1>19. ASSUME NEW a \in Actors, Invalidate(a) PROVE Turn'
  <2>1. Elsewhere
    BY <1>19, <1>0 DEF Invalidate, Elsewhere
  <2>2. Stays
    BY <1>19, <1>0 DEF Invalidate, ReauthOk, Stays
  <2> QED
    BY <2>1, <2>2, <1>k
<1>20. ASSUME NEW a \in Actors, Authenticate(a) PROVE Turn'
  <2>1. /\ tokens' = tokens + 1 /\ valid' = valid \cup {tokens + 1} /\ UNCHANGED <<used, token, under, alive>>
        /\ minted' = [minted EXCEPT ![a] = tokens + 1] /\ pc' = [pc EXCEPT ![a] = "store"] /\ pc[a] = "auth"
    BY <1>20 DEF Authenticate
  <2>2. token = tokens /\ tokens \notin valid
    <3>1. token \notin valid
      BY <1>u, <2>1 DEF OneReauthPerToken
    <3>2. token = tokens
      BY <1>u, <1>h, <2>1
    <3> QED
      BY <3>1, <3>2
  <2>3. \A b \in Actors : used[b] \in Nat /\ used[b] <= tokens
    BY <1>0, <2>2 DEF Ahead, Tokens
  <2>4. T1
    <3>1. \A b \in Actors : used[b] # tokens + 1
      BY <1>0, <2>3
    <3> QED
      BY <1>0, <1>u, <2>1, <3>1 DEF T1
  <2>5. T2
    BY <1>0, <2>1 DEF T2
  <2>6. T3
    BY <1>0, <1>u, <2>1, <2>2 DEF T3
  <2>7. T4
    <3>1. ASSUME NEW s \in 1..Len(under) PROVE under[s] # tokens + 1
      <4>1. PICK m \in Nat : m = under[s]
        <5>1. under[s] \in Tokens
          BY <1>0
        <5> QED
          BY <5>1 DEF Tokens
      <4>2. m <= tokens
        BY <2>2, <4>1 DEF Ahead
      <4> QED
        BY <1>0, <4>1, <4>2
    <3> QED
      BY <1>u, <2>1, <3>1 DEF T4
  <2> QED
    BY <2>4, <2>5, <2>6, <2>7, <1>t
<1>21. ASSUME NEW a \in Actors, AuthenticateErr(a) PROVE Turn'
  <2>1. Elsewhere
    BY <1>21, <1>0 DEF AuthenticateErr, Elsewhere
  <2>2. Stays
    BY <1>21, <1>0 DEF AuthenticateErr, OpFails, AfterFailedDial, SomethingFails, Stays
  <2> QED
    BY <2>1, <2>2, <1>k
<1>22. ASSUME NEW a \in Actors, Store(a) PROVE Turn'
  <2>1. /\ token' = minted[a] /\ UNCHANGED <<used, minted, tokens, valid, under, alive>>
        /\ pc' = [pc EXCEPT ![a] = "clear"] /\ pc[a] = "store"
    BY <1>22, <1>0 DEF Store
  <2>2. minted[a] = tokens
    <3>1. token # tokens
      <4>1. PICK m \in Nat : m = minted[a]
        <5>1. minted[a] \in Tokens \cup {0}
          BY <1>0
        <5> QED
          BY <5>1 DEF Tokens
      <4>2. m <= tokens /\ token < m
        BY <2>1, <4>1 DEF Later
      <4> QED
        BY <1>0, <4>2
    <3> QED
      BY <1>u, <1>h, <2>1, <3>1
  <2>3. T1
    BY <1>0, <1>u, <2>1 DEF T1
  <2>4. T2 /\ T3 /\ T4
    BY <1>u, <2>1, <2>2 DEF T2, T3, T4
  <2> QED
    BY <2>3, <2>4, <1>t
<1>23. ASSUME NEW a \in Actors, Clear(a) PROVE Turn'
  <2>1. Elsewhere
    BY <1>23, <1>0 DEF Clear, Elsewhere
  <2>2. Stays
    BY <1>23, <1>0 DEF Clear, ReauthOk, Uncache, Stays
  <2> QED
    BY <2>1, <2>2, <1>k
<1>24. ASSUME NEW a \in {"timer", "user"}, Get(a) PROVE Turn'
  <2>1. Elsewhere
    BY <1>24, <1>0 DEF Get, Elsewhere
  <2>2. Stays
    BY <1>24, <1>0 DEF Get, SomethingFails, Stays
  <2> QED
    BY <2>1, <2>2, <1>k
<1>25. ASSUME TimerWake PROVE Turn'
  <2>1. Elsewhere
    BY <1>25, <1>0 DEF TimerWake, Elsewhere
  <2>2. Stays
    BY <1>25, <1>0 DEF TimerWake, Stays
  <2> QED
    BY <2>1, <2>2, <1>k
<1>26. ASSUME UserRefresh PROVE Turn'
  BY <1>26 DEF UserRefresh
<1>27. ASSUME GuardedStore PROVE Turn'
  <2>1. Elsewhere
    BY <1>27, <1>0 DEF GuardedStore, Elsewhere
  <2>2. Stays
    BY <1>27, <1>0 DEF GuardedStore, Stays
  <2> QED
    BY <2>1, <2>2, <1>k
<1>28. ASSUME UserStore PROVE Turn'
  BY <1>28 DEF UserStore, Quiet
<1>29. ASSUME TickStart PROVE Turn'
  <2>1. Elsewhere
    BY <1>29, <1>0 DEF TickStart, Elsewhere
  <2>2. Stays
    BY <1>29, <1>0 DEF TickStart, Stays
  <2> QED
    BY <2>1, <2>2, <1>k
<1>30. ASSUME TickSnapshot PROVE Turn'
  <2>1. Elsewhere
    BY <1>30, <1>0 DEF TickSnapshot, Elsewhere
  <2>2. Stays
    BY <1>30, <1>0 DEF TickSnapshot, Stays
  <2> QED
    BY <2>1, <2>2, <1>k
<1>31. ASSUME TickProbe PROVE Turn'
  <2>1. Elsewhere
    BY <1>31, <1>0 DEF TickProbe, Elsewhere
  <2>2. Stays
    BY <1>31, <1>0 DEF TickProbe, SomethingFails, Stays
  <2> QED
    BY <2>1, <2>2, <1>k
<1>32. ASSUME TickRecache PROVE Turn'
  <2>1. Elsewhere
    BY <1>32, <1>0 DEF TickRecache, Elsewhere
  <2>2. Stays
    BY <1>32, <1>0 DEF TickRecache, Recache, Stays
  <2> QED
    BY <2>1, <2>2, <1>k
<1>33. ASSUME TickPurge PROVE Turn'
  <2>1. Elsewhere
    BY <1>33, <1>0 DEF TickPurge, Elsewhere
  <2>2. Stays
    BY <1>33, <1>0 DEF TickPurge, Uncache, Stays
  <2> QED
    BY <2>1, <2>2, <1>k
<1>34. ASSUME ServiceRemoved PROVE Turn'
  <2>1. Elsewhere
    BY <1>34, <1>0 DEF ServiceRemoved, Elsewhere
  <2>2. Stays
    BY <1>34, <1>0 DEF ServiceRemoved, Uncache, Stays
  <2> QED
    BY <2>1, <2>2, <1>k
<1>35. ASSUME NEW t \in Tokens, ExpireToken(t) PROVE Turn'
  <2>1. /\ valid' = valid \ {t} /\ alive' = {s \in alive : under[s] # t}
        /\ UNCHANGED <<pc, used, minted, token, tokens, under>>
    BY <1>35, <1>0 DEF ExpireToken
  <2>2. T1 /\ T2 /\ T3
    BY <1>u, <2>1 DEF T1, T2, T3
  <2>3. T4
    BY <1>u, <2>1 DEF T4
  <2> QED
    BY <2>2, <2>3, <1>t
<1>36. ASSUME NEW s \in Sessions, DeleteSession(s) PROVE Turn'
  BY <1>36, <1>0 DEF DeleteSession, SomethingFails
<1>37. ASSUME UNCHANGED vars PROVE Turn'
  <2>1. Elsewhere
    BY <1>37, <1>0 DEF vars, Elsewhere
  <2>2. Stays
    BY <1>37, <1>0 DEF vars, Stays
  <2> QED
    BY <2>1, <2>2, <1>k
<1> QED
  BY <1>1, <1>2, <1>3, <1>4, <1>5, <1>6, <1>7, <1>8, <1>9, <1>10, <1>11, <1>12, <1>13, <1>14, <1>15, <1>16, <1>17, <1>18, <1>19, <1>20, <1>21, <1>22, <1>23, <1>24, <1>25, <1>26, <1>27, <1>28, <1>29, <1>30, <1>31, <1>32, <1>33, <1>34, <1>35, <1>36, <1>37 DEF Next, FlowStep, Await, Reauthenticate, Refresh, Tick

\* A flow is alone from its start until another one starts.
LEMMA ApartStep ==
  ASSUME Typed, Begun, Apart, Keeps, [Next]_vars PROVE Begun' /\ Apart'
<1> DEFINE Same == alone' = alone /\ \A f \in Flows : pc[f] = "idle" => pc'[f] = "idle"
<1>0. pc \in [Actors -> Pcs] /\ alone \subseteq Flows /\ again \in [Flows -> BOOLEAN]
  BY DEF Typed, ActorsTyped, FlowTyped, HistoryTyped
<1>k. ASSUME Same PROVE Begun' /\ Apart'
  <2>1. Begun'
    BY <1>k DEF Begun, Keeps
  <2>2. \A f \in Flows : pc[f] \in Ended => pc'[f] \in Ended
    BY <1>k DEF Keeps, Ended
  <2>3. Apart'
    BY <1>0, <1>k, <2>2 DEF Apart
  <2> QED
    BY <2>1, <2>3
<1> HIDE DEF Same
<1> USE Names DEF Goto, client, actors, flow, refresher, controller, history, TickElsewhere
<1>1. ASSUME NEW f \in Flows, Start(f) PROVE Begun' /\ Apart'
  <2>1. /\ pc[f] = "idle" /\ pc' = [pc EXCEPT ![f] = "op"] /\ UNCHANGED <<op, again, dials>>
        /\ alone' = IF InFlight = {} THEN alone \cup {f} ELSE alone \ InFlight
    BY <1>1 DEF Start
  <2>2. f \notin alone
    BY <2>1 DEF Begun
  <2>3. \A g \in Flows : g # f => pc'[g] = pc[g]
    BY <1>0, <2>1
  <2>4. pc'[f] = "op"
    BY <1>0, <2>1
  <2>5. \A g \in Flows : pc'[g] = "idle" => g # f /\ g \notin alone'
    BY <2>1, <2>3, <2>4 DEF Begun
  <2>6. Begun'
    BY <2>1, <2>3, <2>5 DEF Begun
  <2>7. CASE InFlight = {}
    <3>1. \A g \in Flows : pc[g] \in Ended
      BY <2>7 DEF InFlight
    <3> QED
      BY <1>0, <2>1, <2>3, <2>6, <3>1 DEF Apart
  <2>8. CASE InFlight # {}
    <3>1. \A g \in alone' : g # f /\ pc[g] \in Ended
      BY <1>0, <2>1, <2>2, <2>8 DEF InFlight
    <3>2. Apart'
      BY <1>0, <2>1, <2>3, <2>8, <3>1 DEF Apart
    <3> QED
      BY <2>6, <3>2
  <2> QED
    BY <2>7, <2>8
<1>2. ASSUME NEW f \in Flows, ReadToken(f) PROVE Begun' /\ Apart'
  BY <1>2, <1>0, <1>k DEF ReadToken, Same
<1>3. ASSUME NEW f \in Flows, Accepted(f) PROVE Begun' /\ Apart'
  BY <1>3, <1>0, <1>k DEF Accepted, Same
<1>4. ASSUME NEW f \in Flows, Unauthorized(f) PROVE Begun' /\ Apart'
  BY <1>4, <1>0, <1>k DEF Unauthorized, OpFails, AfterFailedDial, LetGo, Same
<1>5. ASSUME NEW f \in Flows, RequestErr(f) PROVE Begun' /\ Apart'
  BY <1>5, <1>0, <1>k DEF RequestErr, OpFails, AfterFailedDial, LetGo, Wrap, SomethingFails, Same
<1>6. ASSUME NEW f \in Flows, CertStored(f) PROVE Begun' /\ Apart'
  BY <1>6, <1>0, <1>k DEF CertStored, Same
<1>7. ASSUME NEW f \in Flows, Lookup(f) PROVE Begun' /\ Apart'
  BY <1>7, <1>0, <1>k DEF Lookup, Wrap, Same
<1>8. ASSUME NEW f \in Flows, Insert(f) PROVE Begun' /\ Apart'
  BY <1>8, <1>0, <1>k DEF Insert, Same
<1>9. ASSUME NEW f \in Flows, Open(f) PROVE Begun' /\ Apart'
  BY <1>9, <1>0, <1>k DEF Open, Same
<1>10. ASSUME NEW f \in Flows, Pool(f) PROVE Begun' /\ Apart'
  BY <1>10, <1>0, <1>k DEF Pool, Wrap, Same
<1>11. ASSUME NEW f \in Flows, Dial(f) PROVE Begun' /\ Apart'
  BY <1>11, <1>0, <1>k DEF Dial, AfterFailedDial, SomethingFails, Same
<1>12. ASSUME NEW f \in Flows, ProbeStart(f) PROVE Begun' /\ Apart'
  BY <1>12, <1>0, <1>k DEF ProbeStart, Same
<1>13. ASSUME NEW f \in Flows, Probe(f) PROVE Begun' /\ Apart'
  BY <1>13, <1>0, <1>k DEF Probe, ProbeFails, AfterFailedDial, SomethingFails, Uncache, Same
<1>14. ASSUME NEW f \in Flows, RecacheAlive(f) PROVE Begun' /\ Apart'
  BY <1>14, <1>0, <1>k DEF RecacheAlive, AfterFailedDial, SomethingFails, Recache, Same
<1>15. ASSUME NEW f \in Flows, Evict(f) PROVE Begun' /\ Apart'
  BY <1>15, <1>0, <1>k DEF Evict, Uncache, Same
<1>16. ASSUME NEW f \in Flows, Holder(f) PROVE Begun' /\ Apart'
  BY <1>16, <1>0, <1>k DEF Holder, Same
<1>17. ASSUME NEW f \in Flows, Cancel(f) PROVE Begun' /\ Apart'
  BY <1>17, <1>0, <1>k DEF Cancel, LetGo, Same
<1>18. ASSUME NEW a \in Actors, Gate(a) PROVE Begun' /\ Apart'
  BY <1>18, <1>0, <1>k DEF Gate, ReauthOk, Same
<1>19. ASSUME NEW a \in Actors, Invalidate(a) PROVE Begun' /\ Apart'
  BY <1>19, <1>0, <1>k DEF Invalidate, ReauthOk, Same
<1>20. ASSUME NEW a \in Actors, Authenticate(a) PROVE Begun' /\ Apart'
  BY <1>20, <1>0, <1>k DEF Authenticate, Same
<1>21. ASSUME NEW a \in Actors, AuthenticateErr(a) PROVE Begun' /\ Apart'
  BY <1>21, <1>0, <1>k DEF AuthenticateErr, OpFails, AfterFailedDial, SomethingFails, Same
<1>22. ASSUME NEW a \in Actors, Store(a) PROVE Begun' /\ Apart'
  BY <1>22, <1>0, <1>k DEF Store, ReauthOk, Same
<1>23. ASSUME NEW a \in Actors, Clear(a) PROVE Begun' /\ Apart'
  BY <1>23, <1>0, <1>k DEF Clear, ReauthOk, Uncache, Same
<1>24. ASSUME NEW a \in {"timer", "user"}, Get(a) PROVE Begun' /\ Apart'
  BY <1>24, <1>0, <1>k DEF Get, SomethingFails, Same
<1>25. ASSUME TimerWake PROVE Begun' /\ Apart'
  BY <1>25, <1>0, <1>k DEF TimerWake, Same
<1>26. ASSUME UserRefresh PROVE Begun' /\ Apart'
  BY <1>26, <1>0, <1>k DEF UserRefresh, Same
<1>27. ASSUME GuardedStore PROVE Begun' /\ Apart'
  BY <1>27, <1>0, <1>k DEF GuardedStore, Same
<1>28. ASSUME UserStore PROVE Begun' /\ Apart'
  BY <1>28, <1>0, <1>k DEF UserStore, Same
<1>29. ASSUME TickStart PROVE Begun' /\ Apart'
  BY <1>29, <1>0, <1>k DEF TickStart, Same
<1>30. ASSUME TickSnapshot PROVE Begun' /\ Apart'
  BY <1>30, <1>0, <1>k DEF TickSnapshot, Same
<1>31. ASSUME TickProbe PROVE Begun' /\ Apart'
  BY <1>31, <1>0, <1>k DEF TickProbe, SomethingFails, Same
<1>32. ASSUME TickRecache PROVE Begun' /\ Apart'
  BY <1>32, <1>0, <1>k DEF TickRecache, Recache, Same
<1>33. ASSUME TickPurge PROVE Begun' /\ Apart'
  BY <1>33, <1>0, <1>k DEF TickPurge, Uncache, Same
<1>34. ASSUME ServiceRemoved PROVE Begun' /\ Apart'
  BY <1>34, <1>0, <1>k DEF ServiceRemoved, Uncache, Same
<1>35. ASSUME NEW t \in Tokens, ExpireToken(t) PROVE Begun' /\ Apart'
  BY <1>35, <1>0, <1>k DEF ExpireToken, Same
<1>36. ASSUME NEW s \in Sessions, DeleteSession(s) PROVE Begun' /\ Apart'
  BY <1>36, <1>0, <1>k DEF DeleteSession, SomethingFails, Same
<1>37. ASSUME UNCHANGED vars PROVE Begun' /\ Apart'
  BY <1>37, <1>0, <1>k DEF vars, Same
<1> QED
  BY <1>1, <1>2, <1>3, <1>4, <1>5, <1>6, <1>7, <1>8, <1>9, <1>10, <1>11, <1>12, <1>13, <1>14, <1>15, <1>16, <1>17, <1>18, <1>19, <1>20, <1>21, <1>22, <1>23, <1>24, <1>25, <1>26, <1>27, <1>28, <1>29, <1>30, <1>31, <1>32, <1>33, <1>34, <1>35, <1>36, <1>37 DEF Next, FlowStep, Await, Reauthenticate, Refresh, Tick

\* As long as one token has expired there are at most two, and of two the second
\* is valid.
LEMMA Expired ==
  ASSUME Typed, Turn, OneExpired
  PROVE  tokens \in {1, 2} /\ (tokens = 2 => valid = {2}) /\ (tokens = 1 => valid \subseteq {1})
<1>1. tokens \in Nat \ {0} /\ valid \subseteq 1..tokens
  BY Names DEF Typed, ControllerTyped, Tokens
<1>2. \A t \in 1..tokens : t # tokens => t \notin valid
  BY DEF Turn
<1>3. tokens <= 2
  <2>1. CASE tokens > 2
    <3>1. 1 \in 1..tokens /\ 2 \in 1..tokens /\ 1 # tokens /\ 2 # tokens
      BY <1>1, <2>1
    <3> QED
      BY <1>2, <3>1 DEF OneExpired
  <2> QED
    BY <1>1, <2>1
<1>4. tokens \in {1, 2}
  BY <1>1, <1>3
<1>5. ASSUME tokens = 2 PROVE valid = {2}
  <2>1. 1 \in 1..2 /\ 2 \in 1..2 /\ \A t \in 1..2 : t = 1 \/ t = 2
    OBVIOUS
  <2>2. 1 \notin valid
    BY <1>2, <1>5, <2>1
  <2>3. 2 \in valid
    BY <1>5, <2>1, <2>2 DEF OneExpired
  <2> QED
    BY <1>1, <1>5, <2>1, <2>2, <2>3
<1> QED
  BY <1>1, <1>4, <1>5

\* Nothing that happens beside a flow that is alone can make it fail.
LEMMA BesideFine ==
  ASSUME NEW h \in Flows, Fine(h), UNCHANGED <<op, again, sess, dials>>,
         pc'[h] = pc[h], used'[h] = used[h], under' = under, alive' \subseteq alive,
         token # 1 => token' # 1, 1 \notin valid => 1 \notin valid', cache' \in {cache, 0}
  PROVE  Fine(h)'
BY DEF Fine, HasSession, Trying, CertOps, Reauth

\* One that is connected has nothing left to lose.
LEMMA ConnectedFine ==
  ASSUME NEW h \in Flows, Fine(h), pc'[h] = "connected", dials'[h] = dials[h],
         1 \notin valid => 1 \notin valid'
  PROVE  Fine(h)'
BY DEF Fine, HasSession, Trying, CertOps, Reauth

\* A flow that is alone recovers from the expiry of the first token, wherever it
\* meets it: in a request, which it tries again with the second token; in a dial,
\* which it tries again with a session of the second token; in a probe.
LEMMA RecoverStep ==
  ASSUME Typed, Held, Renewing, Known, Quiet, Later, OneReauthPerToken, Ahead, Turn, Begun, Apart,
         Sound, Sound', OneExpired, Recovers, Keeps, "refresh" \notin Events, [Next]_vars
  PROVE  Recovers'
<1>0. /\ token \in Nat /\ errors = 0 /\ errors' = 0 /\ kind = "legacy"
      /\ \A f \in Flows : pc[f] # "cancelled" /\ pc'[f] # "cancelled"
      /\ pc \in [Actors -> Pcs] /\ op \in [Flows -> Ops] /\ again \in [Flows -> BOOLEAN]
      /\ dials \in [Flows -> 1..2] /\ used \in [Actors -> Tokens] /\ sess \in [Flows -> Sessions \cup {0}]
      /\ alone \subseteq Flows
  <2>1. token \in Nat
    BY Names DEF Typed, ClientTyped, Tokens
  <2> QED
    BY <2>1 DEF Sound, Typed, ActorsTyped, FlowTyped, HistoryTyped
<1>d. \A f \in Flows : dials[f] \in {1, 2}
  <2>1. 1..2 = {1, 2}
    OBVIOUS
  <2> QED
    BY <1>0, <2>1
<1>e. tokens \in {1, 2} /\ (tokens = 2 => valid = {2}) /\ (tokens = 1 => valid \subseteq {1})
  BY Expired
<1>v. 1 \notin valid => 1 \notin valid'
  BY <1>e DEF Keeps
<1>w. token \in {1, 2} /\ token <= tokens
  BY <1>0, <1>e, Names DEF Later, Typed, ClientTyped, Tokens
<1>p. \A a \in Actors : used[a] \in {1, 2} /\ used[a] <= token /\ (used[a] \notin valid => used[a] = 1)
  <2>1. ASSUME NEW a \in Actors PROVE used[a] \in {1, 2} /\ used[a] <= token /\ (used[a] \notin valid => used[a] = 1)
    <3>1. PICK m \in Nat \ {0} : m = used[a]
      <4>1. used[a] \in Tokens
        BY <1>0
      <4> QED
        BY <4>1, Names DEF Tokens
    <3>2. m <= token
      BY <3>1 DEF Ahead
    <3>3. m \in {1, 2} /\ (m = 2 => tokens = 2)
      BY <1>w, <1>e, <3>1, <3>2
    <3> QED
      BY <1>e, <3>1, <3>2, <3>3
  <2> QED
    BY <2>1
<1>s. \A s \in 1..Len(under) : /\ under[s] \in {1, 2} /\ under[s] <= token /\ (s \in alive <=> under[s] \in valid)
                             /\ (s \notin alive => under[s] = 1 /\ 1 \notin valid)
  <2>1. ASSUME NEW s \in 1..Len(under)
        PROVE  /\ under[s] \in {1, 2} /\ under[s] <= token /\ (s \in alive <=> under[s] \in valid)
               /\ (s \notin alive => under[s] = 1 /\ 1 \notin valid)
    <3>1. PICK m \in Nat \ {0} : m = under[s]
      <4>1. under[s] \in Tokens
        BY DEF Typed, ControllerTyped
      <4> QED
        BY <4>1, Names DEF Tokens
    <3>2. m <= token /\ (s \in alive <=> m \in valid)
      BY <3>1 DEF Ahead, Turn
    <3>3. m \in {1, 2} /\ (m = 2 => tokens = 2)
      BY <1>w, <1>e, <3>1, <3>2
    <3> QED
      BY <1>e, <3>1, <3>2, <3>3
  <2> QED
    BY <2>1
<1>b. ASSUME UNCHANGED <<op, again, sess, dials, alone, under>>, alive' \subseteq alive,
             \A h \in Flows : pc'[h] = pc[h] /\ used'[h] = used[h],
             token # 1 => token' # 1, cache' \in {cache, 0}
      PROVE  Recovers'
  <2>1. \A h \in alone : Fine(h) /\ h \in Flows
    BY <1>0 DEF Recovers
  <2>2. ASSUME NEW h \in alone PROVE Fine(h)'
    BY <1>b, <1>v, <2>1, BesideFine
  <2> QED
    BY <1>b, <2>2 DEF Recovers
<1>f. ASSUME NEW f \in Flows, pc[f] \notin Ended, alone' = alone,
             \A h \in Flows : h # f => pc'[h] = pc[h] /\ dials'[h] = dials[h],
             f \in alone => Fine(f)'
      PROVE  Recovers'
  <2>1. ASSUME NEW h \in alone, h # f PROVE Fine(h)'
    <3>1. pc[h] \in Ended /\ Fine(h) /\ h \in Flows
      BY <1>0, <1>f, <2>1 DEF Apart, Recovers
    <3>2. pc[h] = "connected"
      BY <1>0, <2>1, <3>1 DEF Ended, Fine, Begun
    <3> QED
      BY <1>f, <1>v, <2>1, <3>1, <3>2, ConnectedFine
  <2> QED
    BY <1>f, <2>1 DEF Recovers
<1>g. \A f \in alone : Fine(f)
  BY DEF Recovers
<1> USE Names DEF Goto, client, actors, flow, refresher, controller, history, TickElsewhere
<1>1. ASSUME NEW f \in Flows, Start(f) PROVE Recovers'
  <2>1. /\ pc[f] = "idle" /\ pc' = [pc EXCEPT ![f] = "op"] /\ UNCHANGED <<op, again, dials>>
        /\ alone' = IF InFlight = {} THEN alone \cup {f} ELSE alone \ InFlight
    BY <1>1 DEF Start
  <2>2. Fine(f)'
    BY <1>0, <2>1 DEF Begun, Fine, HasSession, Trying, CertOps, Reauth
  <2>3. ASSUME NEW h \in alone', h # f PROVE Fine(h)'
    <3>1. h \in alone /\ h \notin InFlight /\ h \in Flows
      BY <1>0, <2>1, <2>3
    <3>2. pc[h] = "connected" /\ pc'[h] = pc[h]
      BY <1>0, <1>g, <2>1, <2>3, <3>1 DEF InFlight, Ended, Fine, Begun
    <3> QED
      BY <1>g, <1>v, <2>1, <3>1, <3>2, ConnectedFine
  <2> QED
    BY <2>2, <2>3 DEF Recovers
<1>2. ASSUME NEW f \in Flows, ReadToken(f) PROVE Recovers'
  <2>1. ASSUME f \in alone PROVE Fine(f)'
    BY <1>2, <1>0, <1>d, <1>e, <1>g, <1>p, <1>s, <1>v, <1>w, <2>1 DEF ReadToken, Fine, HasSession, Trying, CertOps, Reauth
  <2>2. pc[f] \notin Ended /\ alone' = alone /\ \A h \in Flows : h # f => pc'[h] = pc[h] /\ dials'[h] = dials[h]
    BY <1>2, <1>0 DEF ReadToken, Ended
  <2> QED
    BY <2>1, <2>2, <1>f
<1>3. ASSUME NEW f \in Flows, Accepted(f) PROVE Recovers'
  <2>1. ASSUME f \in alone PROVE Fine(f)'
    BY <1>3, <1>0, <1>d, <1>e, <1>g, <1>p, <1>s, <1>v, <1>w, <2>1 DEF Accepted, Fine, HasSession, Trying, CertOps, Reauth
  <2>2. pc[f] \notin Ended /\ alone' = alone /\ \A h \in Flows : h # f => pc'[h] = pc[h] /\ dials'[h] = dials[h]
    BY <1>3, <1>0 DEF Accepted, Ended
  <2> QED
    BY <2>1, <2>2, <1>f
<1>4. ASSUME NEW f \in Flows, Unauthorized(f) PROVE Recovers'
  <2>1. ASSUME f \in alone PROVE Fine(f)'
    BY <1>4, <1>0, <1>d, <1>e, <1>g, <1>p, <1>s, <1>v, <1>w, <2>1 DEF Unauthorized, OpFails, AfterFailedDial, LetGo, Fine, HasSession, Trying, CertOps, Reauth
  <2>2. pc[f] \notin Ended /\ alone' = alone /\ \A h \in Flows : h # f => pc'[h] = pc[h] /\ dials'[h] = dials[h]
    BY <1>4, <1>0 DEF Unauthorized, OpFails, AfterFailedDial, LetGo, Ended
  <2> QED
    BY <2>1, <2>2, <1>f
<1>5. ASSUME NEW f \in Flows, RequestErr(f) PROVE Recovers'
  BY <1>5, <1>0 DEF RequestErr, SomethingFails
<1>6. ASSUME NEW f \in Flows, CertStored(f) PROVE Recovers'
  <2>0. op[f] \in CertOps
    BY <1>6 DEF CertStored, Renewing
  <2>1. ASSUME f \in alone PROVE Fine(f)'
    BY <1>6, <1>0, <1>d, <1>e, <1>g, <1>p, <1>s, <1>v, <1>w, <2>1, <2>0 DEF CertStored, Fine, HasSession, Trying, CertOps, Reauth
  <2>2. pc[f] \notin Ended /\ alone' = alone /\ \A h \in Flows : h # f => pc'[h] = pc[h] /\ dials'[h] = dials[h]
    BY <1>6, <1>0, <2>0 DEF CertStored, Ended
  <2> QED
    BY <2>1, <2>2, <1>f
<1>7. ASSUME NEW f \in Flows, Lookup(f) PROVE Recovers'
  <2>0. cache # 0 => cache \in 1..Len(under)
    BY Names DEF Known, Typed, ClientTyped, ControllerTyped, Sessions
  <2>1. ASSUME f \in alone PROVE Fine(f)'
    BY <1>7, <1>0, <1>d, <1>e, <1>g, <1>p, <1>s, <1>v, <1>w, <2>1, <2>0 DEF Lookup, Wrap, Fine, HasSession, Trying, CertOps, Reauth
  <2>2. pc[f] \notin Ended /\ alone' = alone /\ \A h \in Flows : h # f => pc'[h] = pc[h] /\ dials'[h] = dials[h]
    BY <1>7, <1>0, <2>0 DEF Lookup, Wrap, Ended
  <2> QED
    BY <2>1, <2>2, <1>f
<1>8. ASSUME NEW f \in Flows, Insert(f) PROVE Recovers'
  <2>1. ASSUME f \in alone PROVE Fine(f)'
    BY <1>8, <1>0, <1>d, <1>e, <1>g, <1>p, <1>s, <1>v, <1>w, <2>1 DEF Insert, Fine, HasSession, Trying, CertOps, Reauth
  <2>2. pc[f] \notin Ended /\ alone' = alone /\ \A h \in Flows : h # f => pc'[h] = pc[h] /\ dials'[h] = dials[h]
    BY <1>8, <1>0 DEF Insert, Ended
  <2> QED
    BY <2>1, <2>2, <1>f
<1>9. ASSUME NEW f \in Flows, Open(f) PROVE Recovers'
  <2>1. ASSUME f \in alone PROVE Fine(f)'
    BY <1>9, <1>0, <1>d, <1>e, <1>g, <1>p, <1>s, <1>v, <1>w, <2>1 DEF Open, Fine, HasSession, Trying, CertOps, Reauth
  <2>2. pc[f] \notin Ended /\ alone' = alone /\ \A h \in Flows : h # f => pc'[h] = pc[h] /\ dials'[h] = dials[h]
    BY <1>9, <1>0 DEF Open, Ended
  <2> QED
    BY <2>1, <2>2, <1>f
<1>10. ASSUME NEW f \in Flows, Pool(f) PROVE Recovers'
  <2>1. ASSUME f \in alone PROVE Fine(f)'
    BY <1>10, <1>0, <1>d, <1>e, <1>g, <1>p, <1>s, <1>v, <1>w, <2>1 DEF Pool, Wrap, Fine, HasSession, Trying, CertOps, Reauth
  <2>2. pc[f] \notin Ended /\ alone' = alone /\ \A h \in Flows : h # f => pc'[h] = pc[h] /\ dials'[h] = dials[h]
    BY <1>10, <1>0 DEF Pool, Wrap, Ended
  <2> QED
    BY <2>1, <2>2, <1>f
<1>11. ASSUME NEW f \in Flows, Dial(f) PROVE Recovers'
  <2>1. ASSUME f \in alone PROVE Fine(f)'
    BY <1>11, <1>0, <1>d, <1>e, <1>g, <1>p, <1>s, <1>v, <1>w, <2>1 DEF Dial, AfterFailedDial, SomethingFails, Fine, HasSession, Trying, CertOps, Reauth
  <2>2. pc[f] \notin Ended /\ alone' = alone /\ \A h \in Flows : h # f => pc'[h] = pc[h] /\ dials'[h] = dials[h]
    BY <1>11, <1>0 DEF Dial, AfterFailedDial, SomethingFails, Ended
  <2> QED
    BY <2>1, <2>2, <1>f
<1>12. ASSUME NEW f \in Flows, ProbeStart(f) PROVE Recovers'
  <2>1. ASSUME f \in alone PROVE Fine(f)'
    BY <1>12, <1>0, <1>d, <1>e, <1>g, <1>p, <1>s, <1>v, <1>w, <2>1 DEF ProbeStart, Fine, HasSession, Trying, CertOps, Reauth
  <2>2. pc[f] \notin Ended /\ alone' = alone /\ \A h \in Flows : h # f => pc'[h] = pc[h] /\ dials'[h] = dials[h]
    BY <1>12, <1>0 DEF ProbeStart, Ended
  <2> QED
    BY <2>1, <2>2, <1>f
<1>13. ASSUME NEW f \in Flows, Probe(f) PROVE Recovers'
  <2>1. ASSUME f \in alone PROVE Fine(f)'
    BY <1>13, <1>0, <1>d, <1>e, <1>g, <1>p, <1>s, <1>v, <1>w, <2>1 DEF Probe, ProbeFails, AfterFailedDial, SomethingFails, Uncache, Fine, HasSession, Trying, CertOps, Reauth
  <2>2. pc[f] \notin Ended /\ alone' = alone /\ \A h \in Flows : h # f => pc'[h] = pc[h] /\ dials'[h] = dials[h]
    BY <1>13, <1>0 DEF Probe, ProbeFails, AfterFailedDial, SomethingFails, Uncache, Ended
  <2> QED
    BY <2>1, <2>2, <1>f
<1>14. ASSUME NEW f \in Flows, RecacheAlive(f) PROVE Recovers'
  <2>1. ASSUME f \in alone PROVE Fine(f)'
    BY <1>14, <1>0, <1>d, <1>e, <1>g, <1>p, <1>s, <1>v, <1>w, <2>1 DEF RecacheAlive, AfterFailedDial, SomethingFails, Recache, Fine, HasSession, Trying, CertOps, Reauth
  <2>2. pc[f] \notin Ended /\ alone' = alone /\ \A h \in Flows : h # f => pc'[h] = pc[h] /\ dials'[h] = dials[h]
    BY <1>14, <1>0 DEF RecacheAlive, AfterFailedDial, SomethingFails, Recache, Ended
  <2> QED
    BY <2>1, <2>2, <1>f
<1>15. ASSUME NEW f \in Flows, Evict(f) PROVE Recovers'
  <2>1. ASSUME f \in alone PROVE Fine(f)'
    BY <1>15, <1>0, <1>d, <1>e, <1>g, <1>p, <1>s, <1>v, <1>w, <2>1 DEF Evict, Uncache, Fine, HasSession, Trying, CertOps, Reauth
  <2>2. pc[f] \notin Ended /\ alone' = alone /\ \A h \in Flows : h # f => pc'[h] = pc[h] /\ dials'[h] = dials[h]
    BY <1>15, <1>0 DEF Evict, Uncache, Ended
  <2> QED
    BY <2>1, <2>2, <1>f
<1>16. ASSUME NEW f \in Flows, Holder(f) PROVE Recovers'
  <2>0. op[f] \in CertOps
    BY <1>16 DEF Holder, Renewing
  <2>1. ASSUME f \in alone PROVE Fine(f)'
    BY <1>16, <1>0, <1>d, <1>e, <1>g, <1>p, <1>s, <1>v, <1>w, <2>1, <2>0 DEF Holder, Fine, HasSession, Trying, CertOps, Reauth
  <2>2. pc[f] \notin Ended /\ alone' = alone /\ \A h \in Flows : h # f => pc'[h] = pc[h] /\ dials'[h] = dials[h]
    BY <1>16, <1>0, <2>0 DEF Holder, Ended
  <2> QED
    BY <2>1, <2>2, <1>f
<1>17. ASSUME NEW f \in Flows, Cancel(f) PROVE Recovers'
  <2>1. pc'[f] = "cancelled"
    BY <1>17, <1>0 DEF Cancel
  <2> QED
    BY <1>0, <2>1
<1>18. ASSUME NEW a \in Actors, Gate(a) PROVE Recovers'
  <2>0. used[a] \notin valid
    BY <1>18 DEF Gate, Turn
  <2>1. CASE a \in Flows
    <3>1. ASSUME a \in alone PROVE Fine(a)'
      BY <1>18, <1>0, <1>d, <1>e, <1>g, <1>p, <1>s, <1>v, <1>w, <2>1, <3>1, <2>0 DEF Gate, ReauthOk, Fine, HasSession, Trying, CertOps, Reauth
    <3>2. pc[a] \notin Ended /\ alone' = alone /\ \A h \in Flows : h # a => pc'[h] = pc[h] /\ dials'[h] = dials[h]
      BY <1>18, <1>0, <2>1 DEF Gate, ReauthOk, Ended
    <3> QED
      BY <2>1, <3>1, <3>2, <1>f
  <2>2. CASE a \notin Flows
    BY <1>18, <1>0, <1>b, <1>w, <2>2, <2>0 DEF Gate, ReauthOk
  <2> QED
    BY <2>1, <2>2
<1>19. ASSUME NEW a \in Actors, Invalidate(a) PROVE Recovers'
  <2>1. CASE a \in Flows
    <3>1. ASSUME a \in alone PROVE Fine(a)'
      BY <1>19, <1>0, <1>d, <1>e, <1>g, <1>p, <1>s, <1>v, <1>w, <2>1, <3>1 DEF Invalidate, ReauthOk, Fine, HasSession, Trying, CertOps, Reauth
    <3>2. pc[a] \notin Ended /\ alone' = alone /\ \A h \in Flows : h # a => pc'[h] = pc[h] /\ dials'[h] = dials[h]
      BY <1>19, <1>0, <2>1 DEF Invalidate, ReauthOk, Ended
    <3> QED
      BY <2>1, <3>1, <3>2, <1>f
  <2>2. CASE a \notin Flows
    BY <1>19, <1>0, <1>b, <1>w, <2>2 DEF Invalidate, ReauthOk
  <2> QED
    BY <2>1, <2>2
<1>20. ASSUME NEW a \in Actors, Authenticate(a) PROVE Recovers'
  <2>1. CASE a \in Flows
    <3>1. ASSUME a \in alone PROVE Fine(a)'
      BY <1>20, <1>0, <1>d, <1>e, <1>g, <1>p, <1>s, <1>v, <1>w, <2>1, <3>1 DEF Authenticate, Fine, HasSession, Trying, CertOps, Reauth
    <3>2. pc[a] \notin Ended /\ alone' = alone /\ \A h \in Flows : h # a => pc'[h] = pc[h] /\ dials'[h] = dials[h]
      BY <1>20, <1>0, <2>1 DEF Authenticate, Ended
    <3> QED
      BY <2>1, <3>1, <3>2, <1>f
  <2>2. CASE a \notin Flows
    BY <1>20, <1>0, <1>b, <1>w, <2>2 DEF Authenticate
  <2> QED
    BY <2>1, <2>2
<1>21. ASSUME NEW a \in Actors, AuthenticateErr(a) PROVE Recovers'
  <2>1. pc[a] = "auth" /\ tokens = MaxTokens
    BY <1>21, <1>0 DEF AuthenticateErr, SomethingFails
  <2>2. used[a] = token /\ used[a] \notin valid
    BY <2>1 DEF OneReauthPerToken, Turn
  <2>3. token = tokens
    BY <2>1 DEF Turn, Held
  <2>4. MaxTokens \in valid
    BY <2>1, Names DEF Ahead
  <2> QED
    BY <2>1, <2>2, <2>3, <2>4
<1>22. ASSUME NEW a \in Actors, Store(a) PROVE Recovers'
  <2>0. token' # 1
    BY <1>22, <1>0, <1>w DEF Store, Later
  <2>1. CASE a \in Flows
    <3>1. ASSUME a \in alone PROVE Fine(a)'
      BY <1>22, <1>0, <1>d, <1>e, <1>g, <1>p, <1>s, <1>v, <1>w, <2>1, <3>1, <2>0 DEF Store, ReauthOk, Fine, HasSession, Trying, CertOps, Reauth
    <3>2. pc[a] \notin Ended /\ alone' = alone /\ \A h \in Flows : h # a => pc'[h] = pc[h] /\ dials'[h] = dials[h]
      BY <1>22, <1>0, <2>1 DEF Store, ReauthOk, Ended
    <3> QED
      BY <2>1, <3>1, <3>2, <1>f
  <2>2. CASE a \notin Flows
    BY <1>22, <1>0, <1>b, <1>w, <2>2, <2>0 DEF Store, ReauthOk
  <2> QED
    BY <2>1, <2>2
<1>23. ASSUME NEW a \in Actors, Clear(a) PROVE Recovers'
  <2>1. CASE a \in Flows
    <3>1. ASSUME a \in alone PROVE Fine(a)'
      BY <1>23, <1>0, <1>d, <1>e, <1>g, <1>p, <1>s, <1>v, <1>w, <2>1, <3>1 DEF Clear, ReauthOk, Uncache, Fine, HasSession, Trying, CertOps, Reauth
    <3>2. pc[a] \notin Ended /\ alone' = alone /\ \A h \in Flows : h # a => pc'[h] = pc[h] /\ dials'[h] = dials[h]
      BY <1>23, <1>0, <2>1 DEF Clear, ReauthOk, Uncache, Ended
    <3> QED
      BY <2>1, <3>1, <3>2, <1>f
  <2>2. CASE a \notin Flows
    BY <1>23, <1>0, <1>b, <1>w, <2>2 DEF Clear, ReauthOk, Uncache
  <2> QED
    BY <2>1, <2>2
<1>24. ASSUME NEW a \in {"timer", "user"}, Get(a) PROVE Recovers'
  BY <1>24, <1>0, <1>b, <1>w DEF Get, SomethingFails
<1>25. ASSUME TimerWake PROVE Recovers'
  BY <1>25, <1>0, <1>b, <1>w DEF TimerWake
<1>26. ASSUME UserRefresh PROVE Recovers'
  BY <1>26 DEF UserRefresh
<1>27. ASSUME GuardedStore PROVE Recovers'
  BY <1>27, <1>0, <1>b, <1>w DEF GuardedStore
<1>28. ASSUME UserStore PROVE Recovers'
  BY <1>28 DEF UserStore, Quiet
<1>29. ASSUME TickStart PROVE Recovers'
  BY <1>29, <1>0, <1>b, <1>w DEF TickStart
<1>30. ASSUME TickSnapshot PROVE Recovers'
  BY <1>30, <1>0, <1>b, <1>w DEF TickSnapshot
<1>31. ASSUME TickProbe PROVE Recovers'
  BY <1>31, <1>0, <1>b, <1>w DEF TickProbe, SomethingFails
<1>32. ASSUME TickRecache PROVE Recovers'
  BY <1>32, <1>0, <1>b, <1>w DEF TickRecache, Recache
<1>33. ASSUME TickPurge PROVE Recovers'
  BY <1>33, <1>0, <1>b, <1>w DEF TickPurge, Uncache
<1>34. ASSUME ServiceRemoved PROVE Recovers'
  BY <1>34, <1>0, <1>b, <1>w DEF ServiceRemoved, Uncache
<1>35. ASSUME NEW t \in Tokens, ExpireToken(t) PROVE Recovers'
  BY <1>35, <1>0, <1>b, <1>w DEF ExpireToken
<1>36. ASSUME NEW s \in Sessions, DeleteSession(s) PROVE Recovers'
  BY <1>36, <1>0 DEF DeleteSession, SomethingFails
<1>37. ASSUME UNCHANGED vars PROVE Recovers'
  BY <1>37, <1>0, <1>b, <1>w DEF vars
<1> QED
  BY <1>1, <1>2, <1>3, <1>4, <1>5, <1>6, <1>7, <1>8, <1>9, <1>10, <1>11, <1>12, <1>13, <1>14, <1>15, <1>16, <1>17, <1>18, <1>19, <1>20, <1>21, <1>22, <1>23, <1>24, <1>25, <1>26, <1>27, <1>28, <1>29, <1>30, <1>31, <1>32, <1>33, <1>34, <1>35, <1>36, <1>37 DEF Next, FlowStep, Await, Reauthenticate, Refresh, Tick

\* Of two tokens that have expired, ExpiryRecovered counts two.
LEMMA TwoExpired ==
  ASSUME Typed, Cardinality((1..tokens) \ valid) <= 1 PROVE OneExpired
<1> DEFINE Gone == (1..tokens) \ valid
<1>0. Cardinality(Gone) <= 1
  OBVIOUS
<1>1. IsFiniteSet(Gone)
  <2>1. IsFiniteSet(1..tokens)
    BY FS_Interval, Names DEF Typed, ControllerTyped, Tokens
  <2> QED
    BY <2>1, FS_Subset
<1> SUFFICES ASSUME NEW s \in Gone, NEW t \in Gone, s # t PROVE FALSE
  BY DEF OneExpired
<1> HIDE DEF Gone
<1>2. {s, t} \subseteq Gone /\ IsFiniteSet({s}) /\ Cardinality({s}) = 1
  BY FS_Singleton
<1>3. Cardinality({s} \cup {t}) = 2 /\ {s} \cup {t} = {s, t}
  <2>1. Cardinality({s} \cup {t}) = Cardinality({s}) + 1
    BY <1>2, FS_AddElement
  <2> QED
    BY <1>2, <2>1
<1>4. Cardinality({s, t}) <= Cardinality(Gone)
  BY <1>1, <1>2, FS_Subset
<1>5. Cardinality(Gone) \in Nat
  BY <1>1, FS_CardinalityType
<1> QED
  BY <1>0, <1>3, <1>4, <1>5

\* The invariant of a connect that meets an expired token.
Recovering ==
  /\ Ahead /\ Begun /\ Apart
  /\ Sound => Turn
  /\ Sound /\ OneExpired => Recovers

\* What an api session starts with.
LEMMA InitInv ==
  Init => Typed /\ Held /\ Renewing /\ Minted /\ Fresh /\ Known /\ NoResurrection
          /\ Quiet /\ Later /\ OneReauthPerToken
<1> SUFFICES ASSUME Init
             PROVE  Typed /\ Held /\ Renewing /\ Minted /\ Fresh /\ Known /\ NoResurrection
                    /\ Quiet /\ Later /\ OneReauthPerToken
  OBVIOUS
<1> USE Names DEF Init
<1>1. 1 \in Tokens /\ 1 \in Sessions
  BY DEF Tokens, Sessions
<1>2. ClientTyped
  BY <1>1, SessionAssumption DEF ClientTyped
<1>3. ActorsTyped /\ FlowTyped /\ RefresherTyped
  BY <1>1 DEF ActorsTyped, FlowTyped, RefresherTyped, Pcs, FlowPcs, Ended, Ops
<1>4. under \in Seq(Tokens) /\ Len(under) = cache /\ alive \subseteq 1..Len(under)
  BY <1>1
<1>5. ControllerTyped /\ HistoryTyped
  BY <1>1, <1>4 DEF ControllerTyped, HistoryTyped
<1>6. Held /\ Renewing /\ Minted /\ Fresh
  BY DEF Held, Renewing, Minted, Fresh
<1>7. Known /\ NoResurrection
  BY <1>4 DEF Known, NoResurrection
<1>8. Quiet /\ Later /\ OneReauthPerToken
  BY DEF Quiet, Later, OneReauthPerToken
<1> QED
  BY <1>2, <1>3, <1>5, <1>6, <1>7, <1>8 DEF Typed

\* Every variable keeps its type, and each of the two locks (reauth_lock and the
\* certificate's) is held by exactly the actor that is in the section it guards,
\* through failures, cancelled connects and early returns.
THEOREM TypeCorrect == Spec => []TypeOK
<1>1. Init => Typed /\ Held /\ Renewing /\ Minted
  BY InitInv
<1>2. Typed /\ Held /\ Renewing /\ Minted /\ [Next]_vars => (Typed /\ Held /\ Renewing /\ Minted)'
  BY TypedStep, HeldStep, MintedStep
<1>3. Typed /\ Held => TypeOK
  BY DEF TypeOK
<1> QED
  BY <1>1, <1>2, <1>3, PTL DEF Spec

\* A dial session that was evicted is never cached again: neither by the tick's
\* or a probe's recache_refreshed_dial_session, which may come any time later,
\* nor by the blind cache_dial_session of one of several concurrent connects.
THEOREM NoResurrectionCorrect == Spec => []NoResurrection
<1>1. Init => Typed /\ Minted /\ Fresh /\ Known /\ NoResurrection
  BY InitInv
<1>2. Typed /\ Minted /\ Fresh /\ Known /\ NoResurrection /\ [Next]_vars
        => (Typed /\ Minted /\ Fresh /\ Known /\ NoResurrection)'
  BY TypedStep, MintedStep, CacheStep
<1> QED
  BY <1>1, <1>2, PTL DEF Spec

\* However many connects are refused at once, do_reauthenticate runs for a token
\* at most once, as long as nobody calls refresh(), which takes no lock.
THEOREM OneReauthPerTokenCorrect ==
  ASSUME "refresh" \notin Events PROVE Spec => []OneReauthPerToken
<1>1. Init => Typed /\ Held /\ Renewing /\ Minted /\ Quiet /\ Later /\ OneReauthPerToken
  BY InitInv
<1>2. Typed /\ Held /\ Renewing /\ Minted /\ Quiet /\ Later /\ OneReauthPerToken /\ [Next]_vars
        => (Typed /\ Held /\ Renewing /\ Minted /\ Quiet /\ Later /\ OneReauthPerToken)'
  BY TypedStep, HeldStep, MintedStep, TokenStep
<1> QED
  BY <1>1, <1>2, PTL DEF Spec

\* guarded_store_refresh and do_reauthenticate only ever move the token forward:
\* the answer to a refresh that a re-authentication has overtaken is dropped.
THEOREM TokenNeverBackCorrect ==
  ASSUME "refresh" \notin Events PROVE Spec => TokenNeverBack
<1>1. Init => Typed /\ Held /\ Renewing /\ Minted /\ Quiet /\ Later /\ OneReauthPerToken
  BY InitInv
<1>2. Typed /\ Held /\ Renewing /\ Minted /\ Quiet /\ Later /\ OneReauthPerToken /\ [Next]_vars
        => (Typed /\ Held /\ Renewing /\ Minted /\ Quiet /\ Later /\ OneReauthPerToken)'
  BY TypedStep, HeldStep, MintedStep, TokenStep
<1>3. Typed /\ Held /\ Quiet /\ Later /\ OneReauthPerToken /\ [Next]_vars => [token' >= token]_vars
  BY TokenStep
<1> QED
  BY <1>1, <1>2, <1>3, PTL DEF Spec, TokenNeverBack

\* The tick takes only dead sessions out of the cache, whatever the connects, the
\* timer and the controller do between its snapshot, its probe and its purge.
THEOREM PurgeOnlyDeadCorrect == Spec => PurgeOnlyDead
<1>1. Init => Typed /\ Minted /\ Fresh /\ Known /\ NoResurrection /\ Purging
  BY InitInv DEF Init, Purging
<1>2. Typed /\ Minted /\ Fresh /\ Known /\ NoResurrection /\ Purging /\ [Next]_vars
        => (Typed /\ Minted /\ Fresh /\ Known /\ NoResurrection /\ Purging)'
  BY TypedStep, MintedStep, CacheStep, PurgeStep
<1>3. Typed /\ Known /\ Purging /\ [Next]_vars
        => [tick = "purge" /\ tick' = "sleep" /\ cache' # cache => cache \notin alive]_vars
  BY PurgeStep
<1> QED
  BY <1>1, <1>2, <1>3, PTL DEF Spec, PurgeOnlyDead

\* A legacy client, whose connect is alone, survives the expiry of its api session at
\* any point of the connect: with_reauth_retry, the second dial with a session of the
\* new token and the probe between them let it fail only if something else goes wrong
\* too.  As long as nobody calls refresh(), which may bring the old token back.
THEOREM ExpiryRecoveredCorrect ==
  ASSUME "refresh" \notin Events PROVE Spec => []ExpiryRecovered
<1> DEFINE Base == /\ Typed /\ Held /\ Renewing /\ Minted /\ Fresh /\ Known /\ NoResurrection
                   /\ Quiet /\ Later /\ OneReauthPerToken
<1>1. Init => Base
  BY InitInv
<1>2. Init => Recovering
  <2> SUFFICES ASSUME Init PROVE Recovering
    OBVIOUS
  <2>1. under \in {<<>>, <<1>>} /\ (under = <<1>> => alive = {1}) /\ (under = <<>> => alive = {})
    BY DEF Init
  <2>2. \A s \in 1..Len(under) : under[s] = 1 /\ s \in alive
    BY <2>1
  <2>3. Ahead
    BY <2>2, Names DEF Init, Ahead
  <2>4. Begun /\ Apart /\ Recovers
    BY Names DEF Init, Begun, Apart, Recovers
  <2>5. Turn
    BY <2>2, Names DEF Init, Turn
  <2> QED
    BY <2>3, <2>4, <2>5 DEF Recovering
<1>3. Base /\ [Next]_vars => Base' /\ token' >= token
  BY TypedStep, HeldStep, MintedStep, CacheStep, TokenStep
<1>4. Base /\ Recovering /\ [Next]_vars => Recovering'
  <2> SUFFICES ASSUME Base, Recovering, [Next]_vars PROVE Recovering'
    OBVIOUS
  <2>1. Base' /\ token' >= token
    BY <1>3
  <2>2. Keeps
    BY StepKeeps
  <2>3. (Sound' => Sound) /\ (OneExpired' => OneExpired)
    BY <2>2, Earlier
  <2>4. Ahead'
    BY <2>1, AheadStep DEF Recovering
  <2>5. Begun' /\ Apart'
    BY <2>2, ApartStep DEF Recovering
  <2>6. Sound' => Turn'
    BY <2>1, <2>3, TurnStep DEF Recovering
  <2>7. Sound' /\ OneExpired' => Recovers'
    BY <2>2, <2>3, RecoverStep DEF Recovering
  <2> QED
    BY <2>4, <2>5, <2>6, <2>7 DEF Recovering
<1>5. Base /\ Recovering => ExpiryRecovered
  <2> SUFFICES ASSUME Typed, Recovering, NEW f \in alone, pc[f] = "failed", errors = 0, kind = "legacy",
                      Cardinality((1..tokens) \ valid) <= 1, \A g \in Flows : pc[g] # "cancelled"
               PROVE  FALSE
    BY DEF ExpiryRecovered
  <2>1. OneExpired
    BY TwoExpired
  <2>2. Fine(f)
    BY <2>1 DEF Recovering, Recovers, Sound
  <2> QED
    BY <2>2 DEF Fine
<1> HIDE DEF Base
<1> QED
  BY <1>1, <1>2, <1>3, <1>4, <1>5, PTL DEF Spec
=============================================================================
