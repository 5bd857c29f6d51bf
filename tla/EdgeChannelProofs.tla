------------------------- MODULE EdgeChannelProofs -------------------------
(***************************************************************************)
(* The safety of EdgeChannel for any number of dials, binds and token      *)
(* pushes, any queue capacity and any bound on the router.  The invariants *)
(* of the runs are not inductive; what has to be added is how far a call   *)
(* has got (pc) against what it still has in the maps, stated below as     *)
(* Phase, StaysClear and Entries.                                          *)
(***************************************************************************)
EXTENDS EdgeChannel, SequenceTheorems, TLAPS

\* How the sets of calls, of awaiters and of stream owners contain each other.
LEMMA Populations ==
  /\ Dials \subseteq Calls /\ Binds \subseteq Calls /\ Pushes \subseteq Calls
  /\ Calls \subseteq Waiting /\ Streams \subseteq Calls
  /\ Dials \subseteq Streams /\ Binds \subseteq Streams
  /\ "probe" \in Waiting
BY DEF Calls, Waiting, Streams

\* A function on 1..n is a sequence: what ProbeArm rewrites of the frames in
\* flight is still a queue.
LEMMA FunctionIsSeq ==
  ASSUME NEW S, NEW n \in Nat, NEW t \in [1..n -> S]
  PROVE  t \in Seq(S)
BY SeqDef

\* No step of a task, of the owner or of the router breaks the types, nor makes
\* rx_loop dispatch a frame that it has not routed to a conn or a bind.
LEMMA TypeStep == TypeOK /\ [Next]_vars => TypeOK'
<1> SUFFICES ASSUME TypeOK, [Next]_vars PROVE TypeOK'
  OBVIOUS
<1> USE Populations, BoundsAssumption DEF TypeOK, CallPcs, AwaitPoints,
      chan, maps, streams, loop, out, router, Elsewhere, RxElsewhere, ProbeElsewhere, OwnerElsewhere,
      RouterElsewhere
<1>1. CASE NotifyWaiters
  BY <1>1 DEF NotifyWaiters
<1>2. CASE ClearWaiters
  BY <1>2 DEF ClearWaiters
<1>3. CASE ClearConns
  BY <1>3 DEF ClearConns
<1>4. CASE ClearBinds
  BY <1>4 DEF ClearBinds
<1>5. CASE RxReply
  BY <1>5 DEF RxReply, NoteRead, Frame
<1>6. CASE RxRoute
  <2> DEFINE f == Head(inbox)
  <2>1. f \in Frame /\ inbox' \in Seq(Frame)
    BY <1>6 DEF RxRoute
  <2>2. f.to \in RouteOf(f) => f.to \in Streams
    BY DEF RouteOf
  <2>3. rx' \in {"read", "dispatch"} /\ frame' \in Frame \cup {NoFrame}
    BY <1>6, <2>1 DEF RxRoute
  <2>4. rx' = "dispatch" => frame' \in Frame /\ frame'.to \in Streams
    BY <1>6, <2>1, <2>2 DEF RxRoute
  <2> QED
    BY <1>6, <2>1, <2>3, <2>4 DEF RxRoute, NoteRead
<1>7. CASE RxEnable
  BY <1>7 DEF RxEnable
<1>8. CASE RxCheck
  BY <1>8 DEF RxCheck, RxLeave
<1>9. CASE RxNotified
  BY <1>9 DEF RxNotified, RxLeave
<1>10. CASE RxSend
  BY <1>10 DEF RxSend, RxLeave
<1>11. CASE RxSendErr
  BY <1>11 DEF RxSendErr, RxLeave
<1>12. CASE RxReadErr
  BY <1>12 DEF RxReadErr, RxLeave
<1>13. CASE RxMarkClosed
  BY <1>13 DEF RxMarkClosed, CompareExchange
<1>14. CASE RxEnd
  BY <1>14 DEF RxEnd, RxLeave
<1>15. CASE RxAborted
  BY <1>15 DEF RxAborted, RxLeave
<1>16. CASE ProbeWake
  BY <1>16 DEF ProbeWake
<1>17. CASE ProbeArm
  <2>1. \A f \in Frame : Superseded(f) \in Frame
    BY DEF Superseded, Frame
  <2>2. inbox' \in [1..Len(inbox) -> Frame] /\ Len(inbox) \in Nat
    BY <1>17, <2>1 DEF ProbeArm
  <2>3. inbox' \in Seq(Frame)
    BY <2>2, FunctionIsSeq
  <2> QED
    BY <1>17, <2>3 DEF ProbeArm
<1>18. CASE ProbeLock
  BY <1>18 DEF ProbeLock
<1>19. CASE ProbeWriteOk
  BY <1>19 DEF ProbeWriteOk
<1>20. CASE ProbeWriteErr
  <2>1. torn' = torn \/ torn' = TRUE
    BY <1>20 DEF ProbeWriteErr
  <2>2. torn' \in BOOLEAN
    BY <2>1
  <2> QED
    BY <1>20, <2>2 DEF ProbeWriteErr
<1>21. CASE ProbeAlive
  BY <1>21 DEF ProbeAlive
<1>22. CASE ProbeClosed
  BY <1>22 DEF ProbeClosed
<1>23. CASE ProbeTimeout
  BY <1>23 DEF ProbeTimeout
<1>24. CASE ProbeJudge
  BY <1>24 DEF ProbeJudge
<1>25. CASE ProbeMarkClosed
  BY <1>25 DEF ProbeMarkClosed, CompareExchange
<1>26. CASE ProbeMarkedClosed
  BY <1>26 DEF ProbeMarkedClosed
<1>27. CASE ProbeShutdown
  BY <1>27 DEF ProbeShutdown
<1>28. CASE ProbeAborted
  <2>1. torn' = torn \/ torn' = TRUE
    BY <1>28 DEF ProbeAborted
  <2>2. torn' \in BOOLEAN
    BY <2>1
  <2> QED
    BY <1>28, <2>2 DEF ProbeAborted
<1>29. CASE OwnerShutdown
  BY <1>29 DEF OwnerShutdown, OwnerAbort
<1>30. CASE OwnerMarkClosed
  BY <1>30 DEF OwnerMarkClosed, CompareExchange
<1>31. CASE OwnerGone
  BY <1>31 DEF OwnerGone
<1>32. CASE RouterOther
  <2>1. [to |-> "probe", kind |-> "other", n |-> 0] \in Frame
    BY DEF Frame
  <2> QED
    BY <1>32, <2>1 DEF RouterOther, Deliver
<1>33. CASE RouterEof
  BY <1>33 DEF RouterEof
<1>34. CASE WireChange
  BY <1>34 DEF WireChange
<1>35. CASE OwnerClose
  BY <1>35 DEF OwnerClose
<1>36. CASE OwnerDrop
  BY <1>36 DEF OwnerDrop, OwnerAbort
<1>37. ASSUME NEW c \in Waiting, RouterReply(c) PROVE TypeOK'
  BY <1>37 DEF RouterReply, Deliver, Frame
<1>38. ASSUME NEW c \in Streams, RouterStream(c) PROVE TypeOK'
  <2> DEFINE m == routed[c] + 1
  <2>1. m \in 0..MaxFrames /\ c \in Waiting
    BY <1>38 DEF RouterStream
  <2>2. [to |-> c, kind |-> StreamKind(c, m), n |-> m] \in Frame
    BY <2>1 DEF StreamKind, Frame
  <2>3. inbox' \in Seq(Frame)
    BY <1>38, <2>2 DEF RouterStream, Deliver
  <2>4. routed' \in [Streams -> 0..MaxFrames]
    BY <1>38, <2>1 DEF RouterStream
  <2> QED
    BY <1>38, <2>3, <2>4 DEF RouterStream
<1>39. ASSUME NEW c \in Dials, DialStart(c) PROVE TypeOK'
  BY <1>39 DEF DialStart, Goto
<1>40. ASSUME NEW c \in Dials, RegisterConn(c) PROVE TypeOK'
  BY <1>40 DEF RegisterConn, Goto
<1>41. ASSUME NEW c \in Dials, CloseConn(c) PROVE TypeOK'
  BY <1>41 DEF CloseConn, Goto
<1>42. ASSUME NEW c \in Dials, DropConn(c) PROVE TypeOK'
  BY <1>42 DEF DropConn, Goto
<1>43. ASSUME NEW c \in Binds, BindStart(c) PROVE TypeOK'
  BY <1>43 DEF BindStart, Goto
<1>44. ASSUME NEW c \in Binds, RegisterBind(c) PROVE TypeOK'
  BY <1>44 DEF RegisterBind, Goto
<1>45. ASSUME NEW c \in Pushes, PushStart(c) PROVE TypeOK'
  BY <1>45 DEF PushStart, Goto
<1>46. ASSUME NEW c \in Pushes, PushTimeout(c) PROVE TypeOK'
  BY <1>46 DEF PushTimeout, Goto
<1>47. ASSUME NEW c \in Calls, InsertWaiter(c) PROVE TypeOK'
  BY <1>47 DEF InsertWaiter, Goto
<1>48. ASSUME NEW c \in Calls, LockWrite(c) PROVE TypeOK'
  BY <1>48 DEF LockWrite, Goto
<1>49. ASSUME NEW c \in Calls, WriteOk(c) PROVE TypeOK'
  <2>1. pc' \in [Calls -> CallPcs]
    BY <1>49 DEF WriteOk, Goto
  <2> QED
    BY <1>49, <2>1 DEF WriteOk
<1>50. ASSUME NEW c \in Calls, WriteErr(c) PROVE TypeOK'
  <2>1. pc' \in [Calls -> CallPcs]
    BY <1>50 DEF WriteErr, Goto
  <2> QED
    BY <1>50, <2>1 DEF WriteErr
<1>51. ASSUME NEW c \in Calls, CallMarkClosed(c) PROVE TypeOK'
  BY <1>51 DEF CallMarkClosed, CompareExchange
<1>52. ASSUME NEW c \in Calls, CallMarkedClosed(c) PROVE TypeOK'
  BY <1>52 DEF CallMarkedClosed, MarkClosedReturns, Goto
<1>53. ASSUME NEW c \in Calls, ReplyArrives(c) PROVE TypeOK'
  <2>1. pc' \in [Calls -> CallPcs]
    BY <1>53 DEF ReplyArrives, Goto
  <2> QED
    BY <1>53, <2>1 DEF ReplyArrives
<1>54. ASSUME NEW c \in Calls, ReplyDropped(c) PROVE TypeOK'
  BY <1>54 DEF ReplyDropped, Goto
<1>55. ASSUME NEW c \in Calls, RemoveWaiter(c) PROVE TypeOK'
  BY <1>55 DEF RemoveWaiter, Goto
<1>56. ASSUME NEW c \in Calls, Unregister(c) PROVE TypeOK'
  BY <1>56 DEF Unregister, Goto
<1>57. ASSUME NEW c \in Calls, Cancel(c) PROVE TypeOK'
  <2>1. pc' \in [Calls -> CallPcs]
    BY <1>57 DEF Cancel, Goto
  <2>2. torn' = torn \/ torn' = TRUE
    BY <1>57 DEF Cancel
  <2>3. torn' \in BOOLEAN
    BY <2>2
  <2> QED
    BY <1>57, <2>1, <2>3 DEF Cancel
<1>58. ASSUME NEW c \in Streams, Recv(c) PROVE TypeOK'
  BY <1>58 DEF Recv
<1>59. CASE UNCHANGED vars
  BY <1>59 DEF vars
<1> HIDE DEF TypeOK
<1> QED
  BY <1>1, <1>2, <1>3, <1>4, <1>5, <1>6, <1>7, <1>8, <1>9, <1>10, <1>11, <1>12, <1>13, <1>14, <1>15, <1>16, <1>17, <1>18, <1>19, <1>20, <1>21, <1>22, <1>23, <1>24, <1>25, <1>26, <1>27, <1>28, <1>29, <1>30, <1>31, <1>32, <1>33, <1>34, <1>35, <1>36, <1>37, <1>38, <1>39, <1>40, <1>41, <1>42, <1>43, <1>44, <1>45, <1>46, <1>47, <1>48, <1>49, <1>50, <1>51, <1>52, <1>53, <1>54, <1>55, <1>56, <1>57, <1>58, <1>59 DEF Next, Teardown, Rx, Prober, Owner, Environment, CallStep

----------------------------------------------------------------------------
\* mark_closed is under way or over exactly when `closed` is set.
Phase == closed <=> teardown # "idle"

\* What the teardown has cleared stays clear.
StaysClear ==
  /\ teardown \in {"binds", "done"} => conns = {}
  /\ teardown = "done" => binds = {}

\* mark_closed runs once, and after its clear of a map no register_conn or
\* register_bind puts an entry back, because each reads `closed` under the lock.
LEMMA CloseStep == TypeOK /\ Phase /\ StaysClear /\ [Next]_vars => Phase' /\ StaysClear'
<1> SUFFICES ASSUME TypeOK, Phase, StaysClear, [Next]_vars PROVE Phase' /\ StaysClear'
  OBVIOUS
<1> USE DEF TypeOK, Phase, StaysClear, chan, maps, Elsewhere, RxElsewhere, ProbeElsewhere,
      OwnerElsewhere, RouterElsewhere
<1>1. CASE NotifyWaiters
  BY <1>1 DEF NotifyWaiters
<1>2. CASE ClearWaiters
  BY <1>2 DEF ClearWaiters
<1>3. CASE ClearConns
  BY <1>3 DEF ClearConns
<1>4. CASE ClearBinds
  BY <1>4 DEF ClearBinds
<1>5. CASE RxReply
  BY <1>5 DEF RxReply
<1>6. CASE RxRoute
  BY <1>6 DEF RxRoute
<1>7. CASE RxEnable
  BY <1>7 DEF RxEnable
<1>8. CASE RxCheck
  BY <1>8 DEF RxCheck
<1>9. CASE RxNotified
  BY <1>9 DEF RxNotified
<1>10. CASE RxSend
  BY <1>10 DEF RxSend
<1>11. CASE RxSendErr
  BY <1>11 DEF RxSendErr
<1>12. CASE RxReadErr
  BY <1>12 DEF RxReadErr
<1>13. CASE RxMarkClosed
  BY <1>13 DEF RxMarkClosed, CompareExchange
<1>14. CASE RxEnd
  BY <1>14 DEF RxEnd
<1>15. CASE RxAborted
  BY <1>15 DEF RxAborted
<1>16. CASE ProbeWake
  BY <1>16 DEF ProbeWake
<1>17. CASE ProbeArm
  BY <1>17 DEF ProbeArm
<1>18. CASE ProbeLock
  BY <1>18 DEF ProbeLock
<1>19. CASE ProbeWriteOk
  BY <1>19 DEF ProbeWriteOk
<1>20. CASE ProbeWriteErr
  BY <1>20 DEF ProbeWriteErr
<1>21. CASE ProbeAlive
  BY <1>21 DEF ProbeAlive
<1>22. CASE ProbeClosed
  BY <1>22 DEF ProbeClosed
<1>23. CASE ProbeTimeout
  BY <1>23 DEF ProbeTimeout
<1>24. CASE ProbeJudge
  BY <1>24 DEF ProbeJudge
<1>25. CASE ProbeMarkClosed
  BY <1>25 DEF ProbeMarkClosed, CompareExchange
<1>26. CASE ProbeMarkedClosed
  BY <1>26 DEF ProbeMarkedClosed
<1>27. CASE ProbeShutdown
  BY <1>27 DEF ProbeShutdown
<1>28. CASE ProbeAborted
  BY <1>28 DEF ProbeAborted
<1>29. CASE OwnerShutdown
  BY <1>29 DEF OwnerShutdown
<1>30. CASE OwnerMarkClosed
  BY <1>30 DEF OwnerMarkClosed, CompareExchange
<1>31. CASE OwnerGone
  BY <1>31 DEF OwnerGone
<1>32. CASE RouterOther
  BY <1>32 DEF RouterOther
<1>33. CASE RouterEof
  BY <1>33 DEF RouterEof
<1>34. CASE WireChange
  BY <1>34 DEF WireChange
<1>35. CASE OwnerClose
  BY <1>35 DEF OwnerClose
<1>36. CASE OwnerDrop
  BY <1>36 DEF OwnerDrop
<1>37. ASSUME NEW c \in Waiting, RouterReply(c) PROVE Phase' /\ StaysClear'
  BY <1>37 DEF RouterReply
<1>38. ASSUME NEW c \in Streams, RouterStream(c) PROVE Phase' /\ StaysClear'
  BY <1>38 DEF RouterStream
<1>39. ASSUME NEW c \in Dials, DialStart(c) PROVE Phase' /\ StaysClear'
  BY <1>39 DEF DialStart
<1>40. ASSUME NEW c \in Dials, RegisterConn(c) PROVE Phase' /\ StaysClear'
  BY <1>40 DEF RegisterConn
<1>41. ASSUME NEW c \in Dials, CloseConn(c) PROVE Phase' /\ StaysClear'
  BY <1>41 DEF CloseConn
<1>42. ASSUME NEW c \in Dials, DropConn(c) PROVE Phase' /\ StaysClear'
  BY <1>42 DEF DropConn
<1>43. ASSUME NEW c \in Binds, BindStart(c) PROVE Phase' /\ StaysClear'
  BY <1>43 DEF BindStart
<1>44. ASSUME NEW c \in Binds, RegisterBind(c) PROVE Phase' /\ StaysClear'
  BY <1>44 DEF RegisterBind
<1>45. ASSUME NEW c \in Pushes, PushStart(c) PROVE Phase' /\ StaysClear'
  BY <1>45 DEF PushStart
<1>46. ASSUME NEW c \in Pushes, PushTimeout(c) PROVE Phase' /\ StaysClear'
  BY <1>46 DEF PushTimeout
<1>47. ASSUME NEW c \in Calls, InsertWaiter(c) PROVE Phase' /\ StaysClear'
  BY <1>47 DEF InsertWaiter
<1>48. ASSUME NEW c \in Calls, LockWrite(c) PROVE Phase' /\ StaysClear'
  BY <1>48 DEF LockWrite
<1>49. ASSUME NEW c \in Calls, WriteOk(c) PROVE Phase' /\ StaysClear'
  BY <1>49 DEF WriteOk
<1>50. ASSUME NEW c \in Calls, WriteErr(c) PROVE Phase' /\ StaysClear'
  BY <1>50 DEF WriteErr
<1>51. ASSUME NEW c \in Calls, CallMarkClosed(c) PROVE Phase' /\ StaysClear'
  BY <1>51 DEF CallMarkClosed, CompareExchange
<1>52. ASSUME NEW c \in Calls, CallMarkedClosed(c) PROVE Phase' /\ StaysClear'
  BY <1>52 DEF CallMarkedClosed
<1>53. ASSUME NEW c \in Calls, ReplyArrives(c) PROVE Phase' /\ StaysClear'
  BY <1>53 DEF ReplyArrives
<1>54. ASSUME NEW c \in Calls, ReplyDropped(c) PROVE Phase' /\ StaysClear'
  BY <1>54 DEF ReplyDropped
<1>55. ASSUME NEW c \in Calls, RemoveWaiter(c) PROVE Phase' /\ StaysClear'
  BY <1>55 DEF RemoveWaiter
<1>56. ASSUME NEW c \in Calls, Unregister(c) PROVE Phase' /\ StaysClear'
  BY <1>56 DEF Unregister
<1>57. ASSUME NEW c \in Calls, Cancel(c) PROVE Phase' /\ StaysClear'
  BY <1>57 DEF Cancel
<1>58. ASSUME NEW c \in Streams, Recv(c) PROVE Phase' /\ StaysClear'
  BY <1>58 DEF Recv
<1>59. CASE UNCHANGED vars
  BY <1>59 DEF vars
<1> HIDE DEF TypeOK, Phase, StaysClear
<1> QED
  BY <1>1, <1>2, <1>3, <1>4, <1>5, <1>6, <1>7, <1>8, <1>9, <1>10, <1>11, <1>12, <1>13, <1>14, <1>15, <1>16, <1>17, <1>18, <1>19, <1>20, <1>21, <1>22, <1>23, <1>24, <1>25, <1>26, <1>27, <1>28, <1>29, <1>30, <1>31, <1>32, <1>33, <1>34, <1>35, <1>36, <1>37, <1>38, <1>39, <1>40, <1>41, <1>42, <1>43, <1>44, <1>45, <1>46, <1>47, <1>48, <1>49, <1>50, <1>51, <1>52, <1>53, <1>54, <1>55, <1>56, <1>57, <1>58, <1>59 DEF Next, Teardown, Rx, Prober, Owner, Environment, CallStep

----------------------------------------------------------------------------
\* A call has neither a waiter nor a reply before it inserts its waiter.
Unarmed ==
  \A c \in Calls : pc[c] \in {"idle", "arm"} \/ (c \in Dials /\ pc[c] = "register")
                     => c \notin waiters /\ reply[c] = "none"

\* The reply takes the waiter out of the map, for good.
Answered == \A c \in Calls : reply[c] # "none" => c \notin waiters

\* Past its wait a call has no waiter.
Disarmed ==
  \A c \in Calls :
    ~closed /\ pc[c] \in {"unregister", "hdrlock", "hdrwrite", "open", "closelock",
                          "closewrite", "closeunreg", "closed", "dropped", "failed"}
      => c \notin waiters

\* From its registration until it closes or fails a dial or bind is in its map.
Registered ==
  \A c \in Streams :
    ~closed /\ (pc[c] \in {"lock", "write", "await", "hdrlock", "hdrwrite", "open"}
                  \/ (c \in Dials /\ pc[c] = "arm"))
      => c \in conns \cup binds

\* A failed call has left its map; a dial never takes its waiter back.
Gone ==
  /\ \A c \in Calls : ~closed /\ pc[c] = "failed" => c \notin conns \cup binds
  /\ \A d \in Dials : pc[d] # "unarm"

\* Only a failing transport makes EdgeConn::close leave its entry behind.
LeftBehind == \A c \in Calls : pc[c] = "closed" /\ c \in conns => wire = "down"

Entries == Unarmed /\ Answered /\ Disarmed /\ Registered /\ Gone /\ LeftBehind

\* Every step keeps what a call has in the maps in line with how far dial,
\* send_bind, update_token or EdgeConn::close has got.
LEMMA EntriesStep == TypeOK /\ Phase /\ Entries /\ [Next]_vars => Entries'
<1> SUFFICES ASSUME TypeOK, Phase, Entries, [Next]_vars PROVE Entries'
  OBVIOUS
<1> USE Populations, CallsAssumption DEF TypeOK, CallPcs, Entries, Unarmed, Answered, Disarmed, Registered, Gone, LeftBehind,
      chan, maps, out, Elsewhere, RxElsewhere, ProbeElsewhere, OwnerElsewhere, RouterElsewhere
<1>1. CASE NotifyWaiters
  BY <1>1 DEF NotifyWaiters
<1>2. CASE ClearWaiters
  BY <1>2 DEF ClearWaiters
<1>3. CASE ClearConns
  BY <1>3 DEF ClearConns, Phase
<1>4. CASE ClearBinds
  BY <1>4 DEF ClearBinds, Phase
<1>5. CASE RxReply
  BY <1>5 DEF RxReply
<1>6. CASE RxRoute
  BY <1>6 DEF RxRoute
<1>7. CASE RxEnable
  BY <1>7 DEF RxEnable
<1>8. CASE RxCheck
  BY <1>8 DEF RxCheck
<1>9. CASE RxNotified
  BY <1>9 DEF RxNotified
<1>10. CASE RxSend
  BY <1>10 DEF RxSend
<1>11. CASE RxSendErr
  BY <1>11 DEF RxSendErr
<1>12. CASE RxReadErr
  BY <1>12 DEF RxReadErr
<1>13. CASE RxMarkClosed
  BY <1>13 DEF RxMarkClosed, CompareExchange
<1>14. CASE RxEnd
  BY <1>14 DEF RxEnd
<1>15. CASE RxAborted
  BY <1>15 DEF RxAborted
<1>16. CASE ProbeWake
  BY <1>16 DEF ProbeWake
<1>17. CASE ProbeArm
  BY <1>17 DEF ProbeArm
<1>18. CASE ProbeLock
  BY <1>18 DEF ProbeLock
<1>19. CASE ProbeWriteOk
  BY <1>19 DEF ProbeWriteOk
<1>20. CASE ProbeWriteErr
  BY <1>20 DEF ProbeWriteErr
<1>21. CASE ProbeAlive
  BY <1>21 DEF ProbeAlive
<1>22. CASE ProbeClosed
  BY <1>22 DEF ProbeClosed
<1>23. CASE ProbeTimeout
  BY <1>23 DEF ProbeTimeout
<1>24. CASE ProbeJudge
  BY <1>24 DEF ProbeJudge
<1>25. CASE ProbeMarkClosed
  BY <1>25 DEF ProbeMarkClosed, CompareExchange
<1>26. CASE ProbeMarkedClosed
  BY <1>26 DEF ProbeMarkedClosed
<1>27. CASE ProbeShutdown
  BY <1>27 DEF ProbeShutdown
<1>28. CASE ProbeAborted
  BY <1>28 DEF ProbeAborted
<1>29. CASE OwnerShutdown
  BY <1>29 DEF OwnerShutdown
<1>30. CASE OwnerMarkClosed
  BY <1>30 DEF OwnerMarkClosed, CompareExchange
<1>31. CASE OwnerGone
  BY <1>31 DEF OwnerGone
<1>32. CASE RouterOther
  BY <1>32 DEF RouterOther
<1>33. CASE RouterEof
  BY <1>33 DEF RouterEof
<1>34. CASE WireChange
  BY <1>34 DEF WireChange
<1>35. CASE OwnerClose
  BY <1>35 DEF OwnerClose
<1>36. CASE OwnerDrop
  BY <1>36 DEF OwnerDrop
<1>37. ASSUME NEW x \in Waiting, RouterReply(x) PROVE Entries'
  BY <1>37 DEF RouterReply
<1>38. ASSUME NEW x \in Streams, RouterStream(x) PROVE Entries'
  BY <1>38 DEF RouterStream
<1>39. ASSUME NEW x \in Dials, DialStart(x) PROVE Entries'
  <2>1. CASE closed
    BY <1>39, <2>1 DEF DialStart, Goto
  <2>2. CASE ~closed
    BY <1>39, <2>2 DEF DialStart, Goto
  <2> QED
    BY <2>1, <2>2
<1>40. ASSUME NEW x \in Dials, RegisterConn(x) PROVE Entries'
  BY <1>40 DEF RegisterConn, Goto
<1>41. ASSUME NEW x \in Dials, CloseConn(x) PROVE Entries'
  BY <1>41 DEF CloseConn, Goto
<1>42. ASSUME NEW x \in Dials, DropConn(x) PROVE Entries'
  BY <1>42 DEF DropConn, Goto
<1>43. ASSUME NEW x \in Binds, BindStart(x) PROVE Entries'
  BY <1>43 DEF BindStart, Goto
<1>44. ASSUME NEW x \in Binds, RegisterBind(x) PROVE Entries'
  BY <1>44 DEF RegisterBind, Goto
<1>45. ASSUME NEW x \in Pushes, PushStart(x) PROVE Entries'
  BY <1>45 DEF PushStart, Goto
<1>46. ASSUME NEW x \in Pushes, PushTimeout(x) PROVE Entries'
  BY <1>46 DEF PushTimeout, Goto
<1>47. ASSUME NEW x \in Calls, InsertWaiter(x) PROVE Entries'
  BY <1>47 DEF InsertWaiter, Goto, Streams
<1>48. ASSUME NEW x \in Calls, LockWrite(x) PROVE Entries'
  BY <1>48 DEF LockWrite, Goto
<1>49. ASSUME NEW x \in Calls, WriteOk(x) PROVE Entries'
  BY <1>49 DEF WriteOk, Goto
<1>50. ASSUME NEW x \in Calls, WriteErr(x) PROVE Entries'
  BY <1>50 DEF WriteErr, Goto
<1>51. ASSUME NEW x \in Calls, CallMarkClosed(x) PROVE Entries'
  BY <1>51 DEF CallMarkClosed, CompareExchange
<1>52. ASSUME NEW x \in Calls, CallMarkedClosed(x) PROVE Entries'
  BY <1>52 DEF CallMarkedClosed, MarkClosedReturns, Goto
<1>53. ASSUME NEW x \in Calls, ReplyArrives(x) PROVE Entries'
  BY <1>53 DEF ReplyArrives, Goto
<1>54. ASSUME NEW x \in Calls, ReplyDropped(x) PROVE Entries'
  BY <1>54 DEF ReplyDropped, Goto
<1>55. ASSUME NEW x \in Calls, RemoveWaiter(x) PROVE Entries'
  BY <1>55 DEF RemoveWaiter, Goto
<1>56. ASSUME NEW x \in Calls, Unregister(x) PROVE Entries'
  BY <1>56 DEF Unregister, Goto
<1>57. ASSUME NEW x \in Calls, Cancel(x) PROVE Entries'
  BY <1>57 DEF Cancel, Goto, AwaitPoints
<1>58. ASSUME NEW x \in Streams, Recv(x) PROVE Entries'
  BY <1>58 DEF Recv
<1>59. CASE UNCHANGED vars
  BY <1>59 DEF vars
<1> HIDE DEF TypeOK, Entries
<1> QED
  BY <1>1, <1>2, <1>3, <1>4, <1>5, <1>6, <1>7, <1>8, <1>9, <1>10, <1>11, <1>12, <1>13, <1>14, <1>15, <1>16, <1>17, <1>18, <1>19, <1>20, <1>21, <1>22, <1>23, <1>24, <1>25, <1>26, <1>27, <1>28, <1>29, <1>30, <1>31, <1>32, <1>33, <1>34, <1>35, <1>36, <1>37, <1>38, <1>39, <1>40, <1>41, <1>42, <1>43, <1>44, <1>45, <1>46, <1>47, <1>48, <1>49, <1>50, <1>51, <1>52, <1>53, <1>54, <1>55, <1>56, <1>57, <1>58, <1>59 DEF Next, Teardown, Rx, Prober, Owner, Environment, CallStep

----------------------------------------------------------------------------
\* A channel as EdgeChannel::from_halves builds it satisfies the invariant.
LEMMA InitInv == Init => TypeOK /\ Phase /\ StaysClear /\ Entries
<1> SUFFICES ASSUME Init PROVE TypeOK /\ Phase /\ StaysClear /\ Entries
  OBVIOUS
<1> USE Populations, BoundsAssumption DEF Init
<1>1. TypeOK
  <2>1. /\ pc \in [Calls -> CallPcs]
        /\ reply \in [Waiting -> {"none", "ok", "rejected"}]
        /\ answered \in [Waiting -> {"none", "ok", "rejected"}]
        /\ routed \in [Streams -> 0..MaxFrames]
    BY DEF CallPcs
  <2>2. <<>> \in Seq(Frame)
    OBVIOUS
  <2>3. queue \in [Streams -> Seq(Frame)] /\ got \in [Streams -> Seq(Frame)] /\ inbox \in Seq(Frame)
    BY <2>2
  <2> QED
    BY <2>1, <2>3 DEF TypeOK
<1>2. Phase /\ StaysClear
  BY DEF Phase, StaysClear
<1>3. Entries
  BY DEF Entries, Unarmed, Answered, Disarmed, Registered, Gone, LeftBehind
<1> QED
  BY <1>1, <1>2, <1>3

\* The channel state is well typed in every reachable state, and the read loop
\* dispatches only frames it has routed to a conn or a bind.
THEOREM TypeCorrect == Spec => []TypeOK
<1>1. Init => TypeOK
  BY InitInv
<1>2. TypeOK /\ [Next]_vars => TypeOK'
  BY TypeStep
<1> QED
  BY <1>1, <1>2, PTL DEF Spec

\* The inductive invariant holds in every reachable state of the channel.
LEMMA Invariant == Spec => [](TypeOK /\ Phase /\ StaysClear /\ Entries)
<1>1. Init => TypeOK /\ Phase /\ StaysClear /\ Entries
  BY InitInv
<1>2. TypeOK /\ Phase /\ StaysClear /\ Entries /\ [Next]_vars
        => (TypeOK /\ Phase /\ StaysClear /\ Entries)'
  BY TypeStep, CloseStep, EntriesStep
<1> QED
  BY <1>1, <1>2, PTL DEF Spec

\* No registration of register_conn or register_bind survives mark_closed,
\* whichever of the racing dials, binds, read loop, probe and owner closes.
THEOREM NoZombiesCorrect == Spec => []NoZombies
<1>1. StaysClear => NoZombies
  BY DEF StaysClear, NoZombies
<1> QED
  BY <1>1, Invariant, PTL

\* On a live channel a reader is never told EOF: the sender of every dialed
\* conn and accepted bind stays in its map until its own call removes it.
THEOREM NoFalseEofCorrect == Spec => []NoFalseEof
<1>1. Entries => NoFalseEof
  BY DEF Entries, Registered, NoFalseEof, HasSender
<1> QED
  BY <1>1, Invariant, PTL

\* A call of dial, send_bind or update_token that fails on a live channel
\* leaves neither a waiter nor a map entry behind, however many calls share it.
THEOREM NoLeaksCorrect == Spec => []NoLeaks
<1>1. Entries => NoLeaks
  BY DEF Entries, Disarmed, Gone, LeftBehind, NoLeaks
<1> QED
  BY <1>1, Invariant, PTL

----------------------------------------------------------------------------
(* Replies and frames in flight.                                           *)

\* `closed` has a closer.  The read loop closes only after it has left its loop,
\* and is woken only by a close.
Closing ==
  /\ closed <=> closer # "none"
  /\ closer = "rx" => rx \in {"exit", "dead"}
  /\ notified = "woken" => closed

IsReply(c, f) == f.to = c /\ f.kind \in {"ok", "rejected"}

\* A reply is in flight; one at most, and it says what the router has answered.
ReplyComing(c) == \E i \in 1..Len(inbox) : IsReply(c, inbox[i])
OneReply(c) ==
  /\ \A i \in 1..Len(inbox) : IsReply(c, inbox[i]) => inbox[i].kind = answered[c]
  /\ \A i, j \in 1..Len(inbox) : IsReply(c, inbox[i]) /\ IsReply(c, inbox[j]) => i = j

\* The router answers a call that has reached it, once; its answer is in flight
\* or with the call, whose waiter stays armed until then.
Answers(c) ==
  /\ answered[c] # "none" => c \in sent
  /\ c \in sent => pc[c] \notin {"idle", "register", "arm", "lock", "write"}
  /\ reply[c] # "none" => reply[c] = answered[c] /\ ~ReplyComing(c)
  /\ OneReply(c)
  /\ pc[c] \in {"lock", "write", "await"} \/ (c \in Binds /\ pc[c] = "register")
       => closed \/ reply[c] # "none" \/ c \in waiters
  /\ pc[c] \in {"hdrlock", "hdrwrite", "open"} => reply[c] = "ok"
  /\ pc[c] = "await" /\ answered[c] # "none" /\ ~closed => reply[c] = answered[c] \/ ReplyComing(c)

\* Frames for a conn or a bind come in the order in which the router sent them,
\* and only if it has accepted the call.
Numbered(c) ==
  \A i \in 1..Len(inbox) :
    ForConn(c, inbox[i]) =>
      /\ inbox[i].n \in 1..routed[c]
      /\ inbox[i].kind \in IF c \in Binds THEN {"dial", "closed"} ELSE {"data", "closed"}
Ordered(c) ==
  \A i, j \in 1..Len(inbox) :
    ForConn(c, inbox[i]) /\ ForConn(c, inbox[j]) /\ i < j => inbox[i].n < inbox[j].n
Coherent(c) == (routed[c] > 0 => answered[c] = "ok") /\ Numbered(c) /\ Ordered(c)

\* Up to the end of NothingLost's condition on a call.
Whole(c) ==
  /\ pc[c] \in {"idle", "register", "arm", "lock", "write", "await", "hdrlock", "hdrwrite", "open"}
  /\ closer \in {"none", "rx"} /\ ~aborted

\* How many frames the read loop has taken for c.
Taken(c) == Len(got[c]) + Len(queue[c]) + (IF Dispatching(c) THEN 1 ELSE 0)

\* They are the first that the router sent, in order, and the rest is in flight.
First(c) ==
  /\ \A i \in 1..Len(got[c]) : got[c][i].n = i
  /\ \A i \in 1..Len(queue[c]) : queue[c][i].n = Len(got[c]) + i
  /\ Dispatching(c) => frame.n = Taken(c)
  /\ Taken(c) <= routed[c]
Rest(c) ==
  /\ \A i \in 1..Len(inbox) : ForConn(c, inbox[i]) => inbox[i].n > Taken(c)
  /\ \A m \in (Taken(c) + 1)..routed[c] :
       \E i \in 1..Len(inbox) : ForConn(c, inbox[i]) /\ inbox[i].n = m
Kept(c) == First(c) /\ Rest(c)

InFlightInv ==
  /\ Closing
  /\ \A c \in Calls : Answers(c)
  /\ \A c \in Streams : Coherent(c)
  /\ \A c \in Streams : Whole(c) => Kept(c)

\* Only a close wakes the read loop, and the read loop closes on its way out.
LEMMA ClosingStep == TypeOK /\ Phase /\ Closing /\ [Next]_vars => Closing'
<1> SUFFICES ASSUME TypeOK, Phase, Closing, [Next]_vars PROVE Closing'
  OBVIOUS
<1>0. /\ closed \in BOOLEAN /\ "none" \notin Calls /\ "rx" \notin Calls
      /\ teardown # "idle" => closed
  BY CallsAssumption DEF TypeOK, Phase
<1> USE <1>0 DEF Closing, chan, loop, Elsewhere, RxElsewhere, ProbeElsewhere, OwnerElsewhere, RouterElsewhere
<1>1. ASSUME NotifyWaiters PROVE Closing'
  BY <1>1 DEF NotifyWaiters
<1>2. ASSUME ClearWaiters PROVE Closing'
  BY <1>2 DEF ClearWaiters
<1>3. ASSUME ClearConns PROVE Closing'
  BY <1>3 DEF ClearConns
<1>4. ASSUME ClearBinds PROVE Closing'
  BY <1>4 DEF ClearBinds
<1>5. ASSUME RxReply PROVE Closing'
  BY <1>5 DEF RxReply
<1>6. ASSUME RxRoute PROVE Closing'
  BY <1>6 DEF RxRoute
<1>7. ASSUME RxEnable PROVE Closing'
  BY <1>7 DEF RxEnable
<1>8. ASSUME RxCheck PROVE Closing'
  BY <1>8 DEF RxCheck, RxLeave
<1>9. ASSUME RxNotified PROVE Closing'
  BY <1>9 DEF RxNotified, RxLeave
<1>10. ASSUME RxSend PROVE Closing'
  BY <1>10 DEF RxSend, RxLeave
<1>11. ASSUME RxSendErr PROVE Closing'
  BY <1>11 DEF RxSendErr, RxLeave
<1>12. ASSUME RxReadErr PROVE Closing'
  BY <1>12 DEF RxReadErr, RxLeave
<1>13. ASSUME RxMarkClosed PROVE Closing'
  BY <1>13 DEF RxMarkClosed, CompareExchange
<1>14. ASSUME RxEnd PROVE Closing'
  BY <1>14 DEF RxEnd, RxLeave, MarkClosedReturns
<1>15. ASSUME RxAborted PROVE Closing'
  BY <1>15 DEF RxAborted, RxLeave
<1>16. ASSUME ProbeWake PROVE Closing'
  BY <1>16 DEF ProbeWake
<1>17. ASSUME ProbeArm PROVE Closing'
  BY <1>17 DEF ProbeArm
<1>18. ASSUME ProbeLock PROVE Closing'
  BY <1>18 DEF ProbeLock
<1>19. ASSUME ProbeWriteOk PROVE Closing'
  BY <1>19 DEF ProbeWriteOk
<1>20. ASSUME ProbeWriteErr PROVE Closing'
  BY <1>20 DEF ProbeWriteErr
<1>21. ASSUME ProbeAlive PROVE Closing'
  BY <1>21 DEF ProbeAlive
<1>22. ASSUME ProbeClosed PROVE Closing'
  BY <1>22 DEF ProbeClosed
<1>23. ASSUME ProbeTimeout PROVE Closing'
  BY <1>23 DEF ProbeTimeout
<1>24. ASSUME ProbeJudge PROVE Closing'
  BY <1>24 DEF ProbeJudge
<1>25. ASSUME ProbeMarkClosed PROVE Closing'
  BY <1>25 DEF ProbeMarkClosed, CompareExchange
<1>26. ASSUME ProbeMarkedClosed PROVE Closing'
  BY <1>26 DEF ProbeMarkedClosed
<1>27. ASSUME ProbeShutdown PROVE Closing'
  BY <1>27 DEF ProbeShutdown
<1>28. ASSUME ProbeAborted PROVE Closing'
  BY <1>28 DEF ProbeAborted
<1>29. ASSUME OwnerShutdown PROVE Closing'
  BY <1>29 DEF OwnerShutdown, OwnerAbort
<1>30. ASSUME OwnerMarkClosed PROVE Closing'
  BY <1>30 DEF OwnerMarkClosed, CompareExchange
<1>31. ASSUME OwnerGone PROVE Closing'
  BY <1>31 DEF OwnerGone
<1>32. ASSUME RouterOther PROVE Closing'
  BY <1>32 DEF RouterOther
<1>33. ASSUME RouterEof PROVE Closing'
  BY <1>33 DEF RouterEof
<1>34. ASSUME WireChange PROVE Closing'
  BY <1>34 DEF WireChange
<1>35. ASSUME OwnerClose PROVE Closing'
  BY <1>35 DEF OwnerClose
<1>36. ASSUME OwnerDrop PROVE Closing'
  BY <1>36 DEF OwnerDrop, OwnerAbort
<1>37. ASSUME NEW x \in Waiting, RouterReply(x) PROVE Closing'
  BY <1>37 DEF RouterReply
<1>38. ASSUME NEW x \in Streams, RouterStream(x) PROVE Closing'
  BY <1>38 DEF RouterStream
<1>39. ASSUME NEW x \in Dials, DialStart(x) PROVE Closing'
  BY <1>39 DEF DialStart
<1>40. ASSUME NEW x \in Dials, RegisterConn(x) PROVE Closing'
  BY <1>40 DEF RegisterConn
<1>41. ASSUME NEW x \in Dials, CloseConn(x) PROVE Closing'
  BY <1>41 DEF CloseConn
<1>42. ASSUME NEW x \in Dials, DropConn(x) PROVE Closing'
  BY <1>42 DEF DropConn
<1>43. ASSUME NEW x \in Binds, BindStart(x) PROVE Closing'
  BY <1>43 DEF BindStart
<1>44. ASSUME NEW x \in Binds, RegisterBind(x) PROVE Closing'
  BY <1>44 DEF RegisterBind
<1>45. ASSUME NEW x \in Pushes, PushStart(x) PROVE Closing'
  BY <1>45 DEF PushStart
<1>46. ASSUME NEW x \in Pushes, PushTimeout(x) PROVE Closing'
  BY <1>46 DEF PushTimeout
<1>47. ASSUME NEW x \in Calls, InsertWaiter(x) PROVE Closing'
  BY <1>47 DEF InsertWaiter
<1>48. ASSUME NEW x \in Calls, LockWrite(x) PROVE Closing'
  BY <1>48 DEF LockWrite
<1>49. ASSUME NEW x \in Calls, WriteOk(x) PROVE Closing'
  BY <1>49 DEF WriteOk
<1>50. ASSUME NEW x \in Calls, WriteErr(x) PROVE Closing'
  BY <1>50 DEF WriteErr
<1>51. ASSUME NEW x \in Calls, CallMarkClosed(x) PROVE Closing'
  BY <1>51 DEF CallMarkClosed, CompareExchange
<1>52. ASSUME NEW x \in Calls, CallMarkedClosed(x) PROVE Closing'
  BY <1>52 DEF CallMarkedClosed
<1>53. ASSUME NEW x \in Calls, ReplyArrives(x) PROVE Closing'
  BY <1>53 DEF ReplyArrives
<1>54. ASSUME NEW x \in Calls, ReplyDropped(x) PROVE Closing'
  BY <1>54 DEF ReplyDropped
<1>55. ASSUME NEW x \in Calls, RemoveWaiter(x) PROVE Closing'
  BY <1>55 DEF RemoveWaiter
<1>56. ASSUME NEW x \in Calls, Unregister(x) PROVE Closing'
  BY <1>56 DEF Unregister
<1>57. ASSUME NEW x \in Calls, Cancel(x) PROVE Closing'
  BY <1>57 DEF Cancel
<1>58. ASSUME NEW x \in Streams, Recv(x) PROVE Closing'
  BY <1>58 DEF Recv
<1>59. ASSUME UNCHANGED vars PROVE Closing'
  BY <1>59 DEF vars
<1> QED
  BY <1>1, <1>2, <1>3, <1>4, <1>5, <1>6, <1>7, <1>8, <1>9, <1>10, <1>11, <1>12, <1>13, <1>14, <1>15, <1>16, <1>17, <1>18, <1>19, <1>20, <1>21, <1>22, <1>23, <1>24, <1>25, <1>26, <1>27, <1>28, <1>29, <1>30, <1>31, <1>32, <1>33, <1>34, <1>35, <1>36, <1>37, <1>38, <1>39, <1>40, <1>41, <1>42, <1>43, <1>44, <1>45, <1>46, <1>47, <1>48, <1>49, <1>50, <1>51, <1>52, <1>53, <1>54, <1>55, <1>56, <1>57, <1>58, <1>59 DEF Next, Teardown, Rx, Prober, Owner, Environment, CallStep

\* What is left of the frames in flight when the read loop takes the first.
LEMMA InboxTail ==
  ASSUME inbox \in Seq(Frame), inbox # <<>>
  PROVE  /\ Head(inbox) = inbox[1] /\ Head(inbox) \in Frame /\ 1 \in 1..Len(inbox) /\ Len(inbox) \in Nat
         /\ Len(Tail(inbox)) = Len(inbox) - 1
         /\ \A i \in 1..(Len(inbox) - 1) : i + 1 \in 1..Len(inbox) /\ Tail(inbox)[i] = inbox[i + 1]
         /\ \A i \in 1..Len(inbox) : i # 1 => i - 1 \in 1..(Len(inbox) - 1) /\ Tail(inbox)[i - 1] = inbox[i]
<1>1. Len(inbox) \in Nat /\ Len(inbox) # 0
  OBVIOUS
<1>2. /\ Head(inbox) = inbox[1] /\ Len(Tail(inbox)) = Len(inbox) - 1
      /\ \A i \in 1..(Len(inbox) - 1) : Tail(inbox)[i] = inbox[i + 1]
  OBVIOUS
<1>3. 1 \in 1..Len(inbox) /\ inbox[1] \in Frame
  BY <1>1
<1>4. ASSUME NEW i \in 1..Len(inbox), i # 1
      PROVE  i - 1 \in 1..(Len(inbox) - 1) /\ Tail(inbox)[i - 1] = inbox[i]
  <2>1. i - 1 \in 1..(Len(inbox) - 1) /\ (i - 1) + 1 = i
    BY <1>1, <1>4
  <2> QED
    BY <1>2, <2>1
<1> QED
  BY <1>1, <1>2, <1>3, <1>4

\* The frames in flight when the router has sent one more.
LEMMA InboxAppend ==
  ASSUME inbox \in Seq(Frame), NEW f \in Frame
  PROVE  /\ Len(Append(inbox, f)) = Len(inbox) + 1 /\ Len(inbox) \in Nat
         /\ Append(inbox, f)[Len(inbox) + 1] = f
         /\ \A i \in 1..Len(inbox) : Append(inbox, f)[i] = inbox[i]
OBVIOUS

\* What the read loop takes is the only reply to a call, or another frame.
LEMMA TailReplies ==
  ASSUME inbox \in Seq(Frame), inbox # <<>>, inbox' = Tail(inbox),
         NEW c, OneReply(c), answered'[c] = answered[c]
  PROVE  /\ OneReply(c)' /\ (ReplyComing(c)' => ReplyComing(c))
         /\ IsReply(c, inbox[1]) => ~ReplyComing(c)'
         /\ ~IsReply(c, inbox[1]) => (ReplyComing(c)' <=> ReplyComing(c))
<1>1. /\ Len(inbox') = Len(inbox) - 1 /\ Len(inbox) \in Nat /\ 1 \in 1..Len(inbox)
      /\ \A i \in 1..(Len(inbox) - 1) : i + 1 \in 1..Len(inbox) /\ inbox'[i] = inbox[i + 1]
      /\ \A i \in 1..Len(inbox) : i # 1 => i - 1 \in 1..(Len(inbox) - 1) /\ inbox'[i - 1] = inbox[i]
  BY InboxTail
<1>2. \A i \in 1..Len(inbox') : IsReply(c, inbox'[i]) => IsReply(c, inbox[i + 1]) /\ inbox'[i] = inbox[i + 1]
  BY <1>1
<1>3. OneReply(c)'
  <2>1. ASSUME NEW i \in 1..Len(inbox'), IsReply(c, inbox'[i]) PROVE inbox'[i].kind = answered'[c]
    BY <1>1, <2>1 DEF OneReply
  <2>2. ASSUME NEW i \in 1..Len(inbox'), NEW j \in 1..Len(inbox'),
               IsReply(c, inbox'[i]), IsReply(c, inbox'[j])
        PROVE  i = j
    <3>1. i + 1 \in 1..Len(inbox) /\ j + 1 \in 1..Len(inbox) /\ IsReply(c, inbox[i + 1]) /\ IsReply(c, inbox[j + 1])
      BY <1>1, <2>2
    <3>2. i + 1 = j + 1
      BY <3>1 DEF OneReply
    <3> QED
      BY <1>1, <3>2
  <2> QED
    BY <2>1, <2>2 DEF OneReply
<1>4. ReplyComing(c)' => ReplyComing(c)
  BY <1>1 DEF ReplyComing
<1>5. ASSUME IsReply(c, inbox[1]), ReplyComing(c)' PROVE FALSE
  <2>1. PICK i \in 1..Len(inbox') : IsReply(c, inbox'[i])
    BY <1>5 DEF ReplyComing
  <2>2. i + 1 \in 1..Len(inbox) /\ IsReply(c, inbox[i + 1])
    BY <1>1, <2>1
  <2>3. i + 1 = 1
    BY <1>1, <1>5, <2>2 DEF OneReply
  <2> QED
    BY <1>1, <2>3
<1>6. ASSUME ~IsReply(c, inbox[1]), ReplyComing(c) PROVE ReplyComing(c)'
  <2>1. PICK i \in 1..Len(inbox) : IsReply(c, inbox[i])
    BY <1>6 DEF ReplyComing
  <2>2. i # 1
    BY <1>6, <2>1
  <2>3. i - 1 \in 1..Len(inbox') /\ IsReply(c, inbox'[i - 1])
    BY <1>1, <2>1, <2>2
  <2> QED
    BY <2>3 DEF ReplyComing
<1> QED
  BY <1>3, <1>4, <1>5, <1>6

\* What the router sends besides changes nothing about a call's reply.
LEMMA AppendReplies ==
  ASSUME inbox \in Seq(Frame), NEW f \in Frame, inbox' = Append(inbox, f),
         NEW c, OneReply(c), answered'[c] = answered[c], ~IsReply(c, f)
  PROVE  OneReply(c)' /\ (ReplyComing(c)' <=> ReplyComing(c))
<1>1. /\ Len(inbox') = Len(inbox) + 1 /\ Len(inbox) \in Nat /\ inbox'[Len(inbox) + 1] = f
      /\ \A i \in 1..Len(inbox) : inbox'[i] = inbox[i]
  BY InboxAppend
<1>2. \A i \in 1..Len(inbox') : IsReply(c, inbox'[i]) => i \in 1..Len(inbox) /\ inbox'[i] = inbox[i]
  BY <1>1
<1>3. \A i \in 1..Len(inbox) : i \in 1..Len(inbox')
  BY <1>1
<1>4. ReplyComing(c)' <=> ReplyComing(c)
  BY <1>1, <1>2, <1>3 DEF ReplyComing
<1>5. OneReply(c)'
  BY <1>2 DEF OneReply
<1> QED
  BY <1>4, <1>5

\* No step of the calls sharing the maps, of the router or of the read loop parts
\* a call from its reply on a live channel.
LEMMA AnswersStep ==
  ASSUME TypeOK, Phase, Entries, \A c \in Calls : Answers(c), [Next]_vars, NEW c \in Calls
  PROVE  Answers(c)'
<1>0. /\ c # "probe" /\ c \in Waiting /\ pc \in [Calls -> CallPcs] /\ inbox \in Seq(Frame)
      /\ reply \in [Waiting -> {"none", "ok", "rejected"}]
      /\ answered \in [Waiting -> {"none", "ok", "rejected"}]
      /\ Answers(c)
  BY Populations, CallsAssumption DEF TypeOK
<1>f. ASSUME inbox' = inbox, answered' = answered
      PROVE  (ReplyComing(c)' <=> ReplyComing(c)) /\ (OneReply(c)' <=> OneReply(c))
  BY <1>f DEF ReplyComing, OneReply
<1> USE <1>0, CallsAssumption DEF Answers, Goto, chan, maps, router, Elsewhere, RxElsewhere,
      ProbeElsewhere, OwnerElsewhere, RouterElsewhere
<1>1. ASSUME NotifyWaiters PROVE Answers(c)'
  BY <1>1, <1>f DEF NotifyWaiters
<1>2. ASSUME ClearWaiters PROVE Answers(c)'
  BY <1>2, <1>f DEF ClearWaiters, Phase
<1>3. ASSUME ClearConns PROVE Answers(c)'
  BY <1>3, <1>f DEF ClearConns
<1>4. ASSUME ClearBinds PROVE Answers(c)'
  BY <1>4, <1>f DEF ClearBinds
<1>5. ASSUME RxReply PROVE Answers(c)'
  <2> DEFINE f == Head(inbox)
  <2>1. /\ f.kind \in {"ok", "rejected"} /\ f.to \in waiters /\ waiters' = waiters \ {f.to}
        /\ reply' = [reply EXCEPT ![f.to] = f.kind] /\ inbox # <<>> /\ inbox' = Tail(inbox)
        /\ UNCHANGED <<pc, closed, answered, sent>>
    BY <1>5 DEF RxReply
  <2>2. f = inbox[1] /\ 1 \in 1..Len(inbox)
    BY <1>0, <2>1, InboxTail
  <2>3. /\ OneReply(c)' /\ (IsReply(c, f) => ~ReplyComing(c)')
        /\ ~IsReply(c, f) => (ReplyComing(c)' <=> ReplyComing(c))
    BY <1>0, <2>1, <2>2, TailReplies DEF Answers
  <2>4. CASE f.to = c
    <3>1. f.kind = answered[c]
      BY <2>1, <2>2, <2>4 DEF Answers, OneReply, IsReply
    <3>2. reply'[c] = answered[c]
      BY <1>0, <2>1, <2>4, <3>1
    <3>3. ~ReplyComing(c)'
      BY <2>1, <2>3, <2>4 DEF IsReply
    <3>4. reply[c] = "none"
      BY <2>1, <2>4 DEF Entries, Answered
    <3> QED
      BY <2>1, <2>3, <3>1, <3>2, <3>3, <3>4 DEF Answers
  <2>5. CASE f.to # c
    <3>1. reply'[c] = reply[c] /\ (c \in waiters' <=> c \in waiters)
      BY <1>0, <2>1, <2>5
    <3>2. ReplyComing(c)' <=> ReplyComing(c)
      BY <2>3, <2>5 DEF IsReply
    <3> QED
      BY <2>1, <2>3, <3>1, <3>2 DEF Answers
  <2> QED
    BY <2>4, <2>5
<1>6. ASSUME RxRoute PROVE Answers(c)'
  <2> DEFINE f == Head(inbox)
  <2>1. /\ inbox # <<>> /\ inbox' = Tail(inbox) /\ ~(f.kind \in {"ok", "rejected"} /\ f.to \in waiters)
        /\ UNCHANGED <<pc, closed, answered, sent, reply, waiters>>
    BY <1>6 DEF RxRoute
  <2>2. f = inbox[1] /\ 1 \in 1..Len(inbox)
    BY <1>0, <2>1, InboxTail
  <2>3. /\ OneReply(c)' /\ (ReplyComing(c)' => ReplyComing(c))
        /\ ~IsReply(c, f) => (ReplyComing(c)' <=> ReplyComing(c))
    BY <1>0, <2>1, <2>2, TailReplies DEF Answers
  <2>4. CASE IsReply(c, f)
    <3>1. c \notin waiters /\ ReplyComing(c)
      BY <2>1, <2>2, <2>4 DEF IsReply, ReplyComing
    <3>2. reply[c] = "none"
      BY <3>1 DEF Answers
    <3>3. pc[c] = "await" => closed
      BY <3>1, <3>2 DEF Answers
    <3> QED
      BY <2>1, <2>3, <3>2, <3>3 DEF Answers
  <2>5. CASE ~IsReply(c, f)
    BY <2>1, <2>3, <2>5 DEF Answers
  <2> QED
    BY <2>4, <2>5
<1>7. ASSUME RxEnable PROVE Answers(c)'
  BY <1>7, <1>f DEF RxEnable
<1>8. ASSUME RxCheck PROVE Answers(c)'
  BY <1>8, <1>f DEF RxCheck
<1>9. ASSUME RxNotified PROVE Answers(c)'
  BY <1>9, <1>f DEF RxNotified
<1>10. ASSUME RxSend PROVE Answers(c)'
  BY <1>10, <1>f DEF RxSend
<1>11. ASSUME RxSendErr PROVE Answers(c)'
  BY <1>11, <1>f DEF RxSendErr
<1>12. ASSUME RxReadErr PROVE Answers(c)'
  BY <1>12, <1>f DEF RxReadErr
<1>13. ASSUME RxMarkClosed PROVE Answers(c)'
  BY <1>13, <1>f DEF RxMarkClosed, CompareExchange
<1>14. ASSUME RxEnd PROVE Answers(c)'
  BY <1>14, <1>f DEF RxEnd
<1>15. ASSUME RxAborted PROVE Answers(c)'
  BY <1>15, <1>f DEF RxAborted
<1>16. ASSUME ProbeWake PROVE Answers(c)'
  BY <1>16, <1>f DEF ProbeWake
<1>17. ASSUME ProbeArm PROVE Answers(c)'
  <2>1. /\ inbox' = [i \in DOMAIN inbox |-> Superseded(inbox[i])]
        /\ UNCHANGED <<pc, closed, reply>>
    BY <1>17 DEF ProbeArm
  <2>2. /\ answered'[c] = answered[c] /\ (c \in sent' <=> c \in sent) /\ (c \in waiters' <=> c \in waiters)
    BY <1>0, <1>17 DEF ProbeArm
  <2>3. Len(inbox') = Len(inbox) /\ \A i \in 1..Len(inbox) : inbox'[i] = Superseded(inbox[i])
    BY <1>0, <2>1
  <2>4. \A f \in Frame : /\ IsReply(c, Superseded(f)) <=> IsReply(c, f)
                         /\ IsReply(c, f) => Superseded(f) = f
    BY <1>0 DEF IsReply, Superseded
  <2>5. \A i \in 1..Len(inbox) : inbox[i] \in Frame
    BY <1>0
  <2>6. (ReplyComing(c)' <=> ReplyComing(c)) /\ (OneReply(c)' <=> OneReply(c))
    BY <2>2, <2>3, <2>4, <2>5 DEF ReplyComing, OneReply
  <2> QED
    BY <2>1, <2>2, <2>6 DEF Answers
<1>18. ASSUME ProbeLock PROVE Answers(c)'
  BY <1>18, <1>f DEF ProbeLock
<1>19. ASSUME ProbeWriteOk PROVE Answers(c)'
  BY <1>19, <1>f DEF ProbeWriteOk
<1>20. ASSUME ProbeWriteErr PROVE Answers(c)'
  BY <1>20, <1>f DEF ProbeWriteErr
<1>21. ASSUME ProbeAlive PROVE Answers(c)'
  BY <1>21, <1>f DEF ProbeAlive
<1>22. ASSUME ProbeClosed PROVE Answers(c)'
  BY <1>22, <1>f DEF ProbeClosed
<1>23. ASSUME ProbeTimeout PROVE Answers(c)'
  BY <1>23, <1>f DEF ProbeTimeout
<1>24. ASSUME ProbeJudge PROVE Answers(c)'
  BY <1>24, <1>f DEF ProbeJudge
<1>25. ASSUME ProbeMarkClosed PROVE Answers(c)'
  BY <1>25, <1>f DEF ProbeMarkClosed, CompareExchange
<1>26. ASSUME ProbeMarkedClosed PROVE Answers(c)'
  BY <1>26, <1>f DEF ProbeMarkedClosed
<1>27. ASSUME ProbeShutdown PROVE Answers(c)'
  BY <1>27, <1>f DEF ProbeShutdown
<1>28. ASSUME ProbeAborted PROVE Answers(c)'
  BY <1>28, <1>f DEF ProbeAborted
<1>29. ASSUME OwnerShutdown PROVE Answers(c)'
  BY <1>29, <1>f DEF OwnerShutdown
<1>30. ASSUME OwnerMarkClosed PROVE Answers(c)'
  BY <1>30, <1>f DEF OwnerMarkClosed, CompareExchange
<1>31. ASSUME OwnerGone PROVE Answers(c)'
  BY <1>31, <1>f DEF OwnerGone
<1>32. ASSUME RouterOther PROVE Answers(c)'
  <2> DEFINE f == [to |-> "probe", kind |-> "other", n |-> 0]
  <2>1. inbox' = Append(inbox, f) /\ UNCHANGED <<pc, closed, answered, sent, reply, waiters>>
    BY <1>32 DEF RouterOther, Deliver
  <2>2. f \in Frame /\ ~IsReply(c, f)
    BY <1>0, Populations DEF Frame, IsReply
  <2>3. (ReplyComing(c)' <=> ReplyComing(c)) /\ OneReply(c)'
    BY <1>0, <2>1, <2>2, AppendReplies DEF Answers
  <2> QED
    BY <2>1, <2>3 DEF Answers
<1>33. ASSUME RouterEof PROVE Answers(c)'
  BY <1>33, <1>f DEF RouterEof
<1>34. ASSUME WireChange PROVE Answers(c)'
  BY <1>34, <1>f DEF WireChange
<1>35. ASSUME OwnerClose PROVE Answers(c)'
  BY <1>35, <1>f DEF OwnerClose
<1>36. ASSUME OwnerDrop PROVE Answers(c)'
  BY <1>36, <1>f DEF OwnerDrop
<1>37. ASSUME NEW x \in Waiting, RouterReply(x) PROVE Answers(c)'
  <2>1. PICK v \in {"ok", "rejected"} :
           /\ inbox' = Append(inbox, [to |-> x, kind |-> v, n |-> 0])
           /\ answered' = [answered EXCEPT ![x] = v]
    BY <1>37 DEF RouterReply, Deliver
  <2>2. UNCHANGED <<pc, closed, sent, reply, waiters>> /\ x \in sent /\ answered[x] = "none"
    BY <1>37 DEF RouterReply
  <2> DEFINE f == [to |-> x, kind |-> v, n |-> 0]
  <2>3. f \in Frame /\ f.to = x /\ f.kind = v
    BY DEF Frame
  <2>4. CASE x # c
    <3>1. answered'[c] = answered[c] /\ ~IsReply(c, f)
      BY <1>0, <2>1, <2>3, <2>4 DEF IsReply
    <3>2. (ReplyComing(c)' <=> ReplyComing(c)) /\ OneReply(c)'
      BY <1>0, <2>1, <2>3, <3>1, AppendReplies DEF Answers
    <3> QED
      BY <2>2, <3>1, <3>2 DEF Answers
  <2>5. CASE x = c
    <3>1. answered'[c] = v /\ v # "none"
      BY <1>0, <2>1, <2>5
    <3>2. ~ReplyComing(c) /\ reply[c] = "none"
      BY <2>2, <2>5 DEF Answers, ReplyComing, OneReply, IsReply
    <3>3. /\ Len(inbox') = Len(inbox) + 1 /\ Len(inbox) \in Nat /\ inbox'[Len(inbox) + 1] = f
          /\ \A i \in 1..Len(inbox) : inbox'[i] = inbox[i]
      BY <1>0, <2>1, <2>3, InboxAppend
    <3>4. \A i \in 1..Len(inbox') : IsReply(c, inbox'[i]) <=> i = Len(inbox) + 1
      BY <2>3, <2>5, <3>2, <3>3 DEF IsReply, ReplyComing
    <3>5. ReplyComing(c)' /\ OneReply(c)'
      BY <2>3, <3>1, <3>3, <3>4 DEF ReplyComing, OneReply
    <3> QED
      BY <2>2, <2>5, <3>1, <3>2, <3>5 DEF Answers
  <2> QED
    BY <2>4, <2>5
<1>38. ASSUME NEW x \in Streams, RouterStream(x) PROVE Answers(c)'
  <2> DEFINE f == [to |-> x, kind |-> StreamKind(x, routed[x] + 1), n |-> routed[x] + 1]
  <2>1. inbox' = Append(inbox, f) /\ UNCHANGED <<pc, closed, answered, sent, reply, waiters>>
    BY <1>38 DEF RouterStream, Deliver
  <2>2. f \in Frame /\ ~IsReply(c, f)
    BY <1>0, Populations DEF Frame, IsReply, StreamKind, TypeOK
  <2>3. (ReplyComing(c)' <=> ReplyComing(c)) /\ OneReply(c)'
    BY <1>0, <2>1, <2>2, AppendReplies DEF Answers
  <2> QED
    BY <2>1, <2>3 DEF Answers
<1>39. ASSUME NEW x \in Dials, DialStart(x) PROVE Answers(c)'
  BY <1>39, <1>f DEF DialStart
<1>40. ASSUME NEW x \in Dials, RegisterConn(x) PROVE Answers(c)'
  BY <1>40, <1>f DEF RegisterConn
<1>41. ASSUME NEW x \in Dials, CloseConn(x) PROVE Answers(c)'
  BY <1>41, <1>f DEF CloseConn
<1>42. ASSUME NEW x \in Dials, DropConn(x) PROVE Answers(c)'
  BY <1>42, <1>f DEF DropConn
<1>43. ASSUME NEW x \in Binds, BindStart(x) PROVE Answers(c)'
  BY <1>43, <1>f DEF BindStart
<1>44. ASSUME NEW x \in Binds, RegisterBind(x) PROVE Answers(c)'
  BY <1>44, <1>f DEF RegisterBind
<1>45. ASSUME NEW x \in Pushes, PushStart(x) PROVE Answers(c)'
  BY <1>45, <1>f DEF PushStart
<1>46. ASSUME NEW x \in Pushes, PushTimeout(x) PROVE Answers(c)'
  BY <1>46, <1>f DEF PushTimeout
<1>47. ASSUME NEW x \in Calls, InsertWaiter(x) PROVE Answers(c)'
  BY <1>47, <1>f DEF InsertWaiter
<1>48. ASSUME NEW x \in Calls, LockWrite(x) PROVE Answers(c)'
  BY <1>48, <1>f DEF LockWrite
<1>49. ASSUME NEW x \in Calls, WriteOk(x) PROVE Answers(c)'
  BY <1>49, <1>f DEF WriteOk
<1>50. ASSUME NEW x \in Calls, WriteErr(x) PROVE Answers(c)'
  BY <1>50, <1>f DEF WriteErr
<1>51. ASSUME NEW x \in Calls, CallMarkClosed(x) PROVE Answers(c)'
  BY <1>51, <1>f DEF CallMarkClosed, CompareExchange
<1>52. ASSUME NEW x \in Calls, CallMarkedClosed(x) PROVE Answers(c)'
  BY <1>52, <1>f DEF CallMarkedClosed
<1>53. ASSUME NEW x \in Calls, ReplyArrives(x) PROVE Answers(c)'
  BY <1>53, <1>f DEF ReplyArrives
<1>54. ASSUME NEW x \in Calls, ReplyDropped(x) PROVE Answers(c)'
  BY <1>54, <1>f DEF ReplyDropped
<1>55. ASSUME NEW x \in Calls, RemoveWaiter(x) PROVE Answers(c)'
  BY <1>55, <1>f DEF RemoveWaiter
<1>56. ASSUME NEW x \in Calls, Unregister(x) PROVE Answers(c)'
  BY <1>56, <1>f DEF Unregister
<1>57. ASSUME NEW x \in Calls, Cancel(x) PROVE Answers(c)'
  BY <1>57, <1>f DEF Cancel, AwaitPoints
<1>58. ASSUME NEW x \in Streams, Recv(x) PROVE Answers(c)'
  BY <1>58, <1>f DEF Recv
<1>59. ASSUME UNCHANGED vars PROVE Answers(c)'
  BY <1>59, <1>f DEF vars
<1> QED
  BY <1>1, <1>2, <1>3, <1>4, <1>5, <1>6, <1>7, <1>8, <1>9, <1>10, <1>11, <1>12, <1>13, <1>14, <1>15, <1>16, <1>17, <1>18, <1>19, <1>20, <1>21, <1>22, <1>23, <1>24, <1>25, <1>26, <1>27, <1>28, <1>29, <1>30, <1>31, <1>32, <1>33, <1>34, <1>35, <1>36, <1>37, <1>38, <1>39, <1>40, <1>41, <1>42, <1>43, <1>44, <1>45, <1>46, <1>47, <1>48, <1>49, <1>50, <1>51, <1>52, <1>53, <1>54, <1>55, <1>56, <1>57, <1>58, <1>59 DEF Next, Teardown, Rx, Prober, Owner, Environment, CallStep

\* The read loop takes the frames in flight in order.
LEMMA TailCoherent ==
  ASSUME inbox \in Seq(Frame), inbox # <<>>, inbox' = Tail(inbox),
         NEW c, Numbered(c), Ordered(c), routed'[c] = routed[c]
  PROVE  Numbered(c)' /\ Ordered(c)'
<1>1. /\ Len(inbox') = Len(inbox) - 1 /\ Len(inbox) \in Nat
      /\ \A i \in 1..(Len(inbox) - 1) : i + 1 \in 1..Len(inbox) /\ inbox'[i] = inbox[i + 1]
  BY InboxTail
<1>2. Numbered(c)'
  BY <1>1 DEF Numbered
<1>3. Ordered(c)'
  <2> SUFFICES ASSUME NEW i \in 1..Len(inbox'), NEW j \in 1..Len(inbox'), i < j,
                      ForConn(c, inbox'[i]), ForConn(c, inbox'[j])
               PROVE  inbox'[i].n < inbox'[j].n
    BY DEF Ordered
  <2>1. i + 1 \in 1..Len(inbox) /\ j + 1 \in 1..Len(inbox) /\ i + 1 < j + 1
    BY <1>1
  <2> QED
    BY <1>1, <2>1 DEF Ordered
<1> QED
  BY <1>2, <1>3

\* A frame for somebody else leaves the order of the others alone.
LEMMA AppendCoherent ==
  ASSUME inbox \in Seq(Frame), NEW f \in Frame, inbox' = Append(inbox, f),
         NEW c, Numbered(c), Ordered(c), routed'[c] = routed[c], ~ForConn(c, f)
  PROVE  Numbered(c)' /\ Ordered(c)'
<1>1. /\ Len(inbox') = Len(inbox) + 1 /\ Len(inbox) \in Nat /\ inbox'[Len(inbox) + 1] = f
      /\ \A i \in 1..Len(inbox) : inbox'[i] = inbox[i]
  BY InboxAppend
<1>2. \A i \in 1..Len(inbox') : ForConn(c, inbox'[i]) => i \in 1..Len(inbox) /\ inbox'[i] = inbox[i]
  BY <1>1
<1> QED
  BY <1>2 DEF Numbered, Ordered

\* What a new probe supersedes is not a frame of a conn or a bind.
LEMMA SupersededOther ==
  ASSUME NEW c \in Streams, inbox \in Seq(Frame)
  PROVE  \A i \in 1..Len(inbox) : /\ ForConn(c, Superseded(inbox[i])) <=> ForConn(c, inbox[i])
                                  /\ ForConn(c, inbox[i]) => Superseded(inbox[i]) = inbox[i]
<1>1. c # "probe"
  BY Populations, CallsAssumption
<1>2. \A f \in Frame : /\ ForConn(c, Superseded(f)) <=> ForConn(c, f)
                       /\ ForConn(c, f) => Superseded(f) = f
  BY <1>1 DEF ForConn, Superseded
<1>3. \A i \in 1..Len(inbox) : inbox[i] \in Frame
  OBVIOUS
<1> QED
  BY <1>2, <1>3

\* The router numbers the frames of an accepted call in order, and they stay so.
LEMMA CoherentStep ==
  ASSUME TypeOK, NEW c \in Streams, Coherent(c), [Next]_vars
  PROVE  Coherent(c)'
<1>0. /\ c # "probe" /\ c \in Waiting /\ inbox \in Seq(Frame) /\ routed \in [Streams -> 0..MaxFrames]
      /\ answered \in [Waiting -> {"none", "ok", "rejected"}] /\ MaxFrames \in Nat
      /\ Coherent(c)
  BY Populations, CallsAssumption, BoundsAssumption DEF TypeOK
<1>f. ASSUME inbox' = inbox, answered' = answered, routed' = routed PROVE Coherent(c)'
  BY <1>0, <1>f DEF Coherent, Numbered, Ordered
<1> USE DEF router, Elsewhere, OwnerElsewhere
<1>1. ASSUME NotifyWaiters PROVE Coherent(c)'
  BY <1>1, <1>f DEF NotifyWaiters
<1>2. ASSUME ClearWaiters PROVE Coherent(c)'
  BY <1>2, <1>f DEF ClearWaiters
<1>3. ASSUME ClearConns PROVE Coherent(c)'
  BY <1>3, <1>f DEF ClearConns
<1>4. ASSUME ClearBinds PROVE Coherent(c)'
  BY <1>4, <1>f DEF ClearBinds
<1>5. ASSUME RxReply PROVE Coherent(c)'
  <2>1. inbox # <<>> /\ inbox' = Tail(inbox) /\ UNCHANGED <<answered, routed>>
    BY <1>5 DEF RxReply
  <2>2. Numbered(c)' /\ Ordered(c)'
    BY <1>0, <2>1, TailCoherent DEF Coherent
  <2> QED
    BY <1>0, <2>1, <2>2 DEF Coherent
<1>6. ASSUME RxRoute PROVE Coherent(c)'
  <2>1. inbox # <<>> /\ inbox' = Tail(inbox) /\ UNCHANGED <<answered, routed>>
    BY <1>6 DEF RxRoute
  <2>2. Numbered(c)' /\ Ordered(c)'
    BY <1>0, <2>1, TailCoherent DEF Coherent
  <2> QED
    BY <1>0, <2>1, <2>2 DEF Coherent
<1>7. ASSUME RxEnable PROVE Coherent(c)'
  BY <1>7, <1>f DEF RxEnable
<1>8. ASSUME RxCheck PROVE Coherent(c)'
  BY <1>8, <1>f DEF RxCheck
<1>9. ASSUME RxNotified PROVE Coherent(c)'
  BY <1>9, <1>f DEF RxNotified
<1>10. ASSUME RxSend PROVE Coherent(c)'
  BY <1>10, <1>f DEF RxSend
<1>11. ASSUME RxSendErr PROVE Coherent(c)'
  BY <1>11, <1>f DEF RxSendErr
<1>12. ASSUME RxReadErr PROVE Coherent(c)'
  BY <1>12, <1>f DEF RxReadErr
<1>13. ASSUME RxMarkClosed PROVE Coherent(c)'
  BY <1>13, <1>f DEF RxMarkClosed
<1>14. ASSUME RxEnd PROVE Coherent(c)'
  BY <1>14, <1>f DEF RxEnd
<1>15. ASSUME RxAborted PROVE Coherent(c)'
  BY <1>15, <1>f DEF RxAborted
<1>16. ASSUME ProbeWake PROVE Coherent(c)'
  BY <1>16, <1>f DEF ProbeWake
<1>17. ASSUME ProbeArm PROVE Coherent(c)'
  <2>1. answered'[c] = answered[c] /\ routed' = routed
    BY <1>0, <1>17 DEF ProbeArm
  <2>2. Len(inbox') = Len(inbox) /\ \A i \in 1..Len(inbox) : inbox'[i] = Superseded(inbox[i])
    BY <1>0, <1>17 DEF ProbeArm
  <2>3. \A i \in 1..Len(inbox) : /\ ForConn(c, inbox'[i]) <=> ForConn(c, inbox[i])
                                 /\ ForConn(c, inbox[i]) => inbox'[i] = inbox[i]
    BY <1>0, <2>2, SupersededOther
  <2>4. Numbered(c)' /\ Ordered(c)'
    BY <1>0, <2>1, <2>2, <2>3 DEF Coherent, Numbered, Ordered
  <2> QED
    BY <1>0, <2>1, <2>4 DEF Coherent
<1>18. ASSUME ProbeLock PROVE Coherent(c)'
  BY <1>18, <1>f DEF ProbeLock
<1>19. ASSUME ProbeWriteOk PROVE Coherent(c)'
  BY <1>19, <1>f DEF ProbeWriteOk
<1>20. ASSUME ProbeWriteErr PROVE Coherent(c)'
  BY <1>20, <1>f DEF ProbeWriteErr
<1>21. ASSUME ProbeAlive PROVE Coherent(c)'
  BY <1>21, <1>f DEF ProbeAlive
<1>22. ASSUME ProbeClosed PROVE Coherent(c)'
  BY <1>22, <1>f DEF ProbeClosed
<1>23. ASSUME ProbeTimeout PROVE Coherent(c)'
  BY <1>23, <1>f DEF ProbeTimeout
<1>24. ASSUME ProbeJudge PROVE Coherent(c)'
  BY <1>24, <1>f DEF ProbeJudge
<1>25. ASSUME ProbeMarkClosed PROVE Coherent(c)'
  BY <1>25, <1>f DEF ProbeMarkClosed
<1>26. ASSUME ProbeMarkedClosed PROVE Coherent(c)'
  BY <1>26, <1>f DEF ProbeMarkedClosed
<1>27. ASSUME ProbeShutdown PROVE Coherent(c)'
  BY <1>27, <1>f DEF ProbeShutdown
<1>28. ASSUME ProbeAborted PROVE Coherent(c)'
  BY <1>28, <1>f DEF ProbeAborted
<1>29. ASSUME OwnerShutdown PROVE Coherent(c)'
  BY <1>29, <1>f DEF OwnerShutdown
<1>30. ASSUME OwnerMarkClosed PROVE Coherent(c)'
  BY <1>30, <1>f DEF OwnerMarkClosed
<1>31. ASSUME OwnerGone PROVE Coherent(c)'
  BY <1>31, <1>f DEF OwnerGone
<1>32. ASSUME RouterOther PROVE Coherent(c)'
  <2> DEFINE f == [to |-> "probe", kind |-> "other", n |-> 0]
  <2>1. inbox' = Append(inbox, f) /\ UNCHANGED <<answered, routed>>
    BY <1>32 DEF RouterOther, Deliver
  <2>2. f \in Frame /\ ~ForConn(c, f)
    BY <1>0, Populations DEF Frame, ForConn
  <2>3. Numbered(c)' /\ Ordered(c)'
    BY <1>0, <2>1, <2>2, AppendCoherent DEF Coherent
  <2> QED
    BY <1>0, <2>1, <2>3 DEF Coherent
<1>33. ASSUME RouterEof PROVE Coherent(c)'
  BY <1>33, <1>f DEF RouterEof
<1>34. ASSUME WireChange PROVE Coherent(c)'
  BY <1>34, <1>f DEF WireChange
<1>35. ASSUME OwnerClose PROVE Coherent(c)'
  BY <1>35, <1>f DEF OwnerClose
<1>36. ASSUME OwnerDrop PROVE Coherent(c)'
  BY <1>36, <1>f DEF OwnerDrop
<1>37. ASSUME NEW x \in Waiting, RouterReply(x) PROVE Coherent(c)'
  <2>1. PICK v \in {"ok", "rejected"} :
           /\ inbox' = Append(inbox, [to |-> x, kind |-> v, n |-> 0])
           /\ answered' = [answered EXCEPT ![x] = v]
    BY <1>37 DEF RouterReply, Deliver
  <2> DEFINE f == [to |-> x, kind |-> v, n |-> 0]
  <2>2. f \in Frame /\ ~ForConn(c, f)
    BY DEF Frame, ForConn
  <2>3. routed' = routed /\ (answered[c] = "ok" => answered'[c] = "ok")
    BY <1>0, <1>37, <2>1 DEF RouterReply
  <2>4. Numbered(c)' /\ Ordered(c)'
    BY <1>0, <2>1, <2>2, <2>3, AppendCoherent DEF Coherent
  <2> QED
    BY <1>0, <2>3, <2>4 DEF Coherent
<1>38. ASSUME NEW x \in Streams, RouterStream(x) PROVE Coherent(c)'
  <2> DEFINE f == [to |-> x, kind |-> StreamKind(x, routed[x] + 1), n |-> routed[x] + 1]
  <2>1. /\ inbox' = Append(inbox, f) /\ routed' = [routed EXCEPT ![x] = routed[x] + 1]
        /\ answered' = answered /\ answered[x] = "ok"
    BY <1>38 DEF RouterStream, Deliver
  <2>2. f \in Frame /\ f.to = x /\ f.n = routed[x] + 1 /\ routed[x] \in Nat
    BY <1>0, Populations DEF Frame, StreamKind
  <2>3. CASE x # c
    <3>1. ~ForConn(c, f) /\ routed'[c] = routed[c]
      BY <1>0, <2>1, <2>2, <2>3 DEF ForConn
    <3>2. Numbered(c)' /\ Ordered(c)'
      BY <1>0, <2>1, <2>2, <3>1, AppendCoherent DEF Coherent
    <3> QED
      BY <1>0, <2>1, <3>1, <3>2 DEF Coherent
  <2>4. CASE x = c
    <3>1. routed'[c] = routed[c] + 1 /\ routed[c] \in Nat
      BY <1>0, <2>1, <2>2, <2>4
    <3>2. /\ Len(inbox') = Len(inbox) + 1 /\ Len(inbox) \in Nat /\ inbox'[Len(inbox) + 1] = f
          /\ \A i \in 1..Len(inbox) : inbox'[i] = inbox[i]
      BY <1>0, <2>1, <2>2, InboxAppend
    <3>3. f.kind \in IF c \in Binds THEN {"dial", "closed"} ELSE {"data", "closed"}
      BY <2>4 DEF StreamKind
    <3>4. f.n \in 1..routed'[c] /\ f.n = routed[c] + 1
      BY <2>2, <2>4, <3>1
    <3>5. Numbered(c)'
      <4> SUFFICES ASSUME NEW i \in 1..Len(inbox'), ForConn(c, inbox'[i])
                   PROVE  /\ inbox'[i].n \in 1..routed'[c]
                          /\ inbox'[i].kind \in IF c \in Binds THEN {"dial", "closed"} ELSE {"data", "closed"}
        BY DEF Numbered
      <4>1. CASE i = Len(inbox) + 1
        BY <3>2, <3>3, <3>4, <4>1
      <4>2. CASE i \in 1..Len(inbox)
        BY <1>0, <3>1, <3>2, <4>2 DEF Coherent, Numbered
      <4> QED
        BY <3>2, <4>1, <4>2
    <3>6. Ordered(c)'
      <4> SUFFICES ASSUME NEW i \in 1..Len(inbox'), NEW j \in 1..Len(inbox'), i < j,
                          ForConn(c, inbox'[i]), ForConn(c, inbox'[j])
                   PROVE  inbox'[i].n < inbox'[j].n
        BY DEF Ordered
      <4>1. i \in 1..Len(inbox) /\ inbox'[i] = inbox[i] /\ inbox[i].n \in 1..routed[c]
        BY <1>0, <3>2 DEF Coherent, Numbered
      <4>2. CASE j = Len(inbox) + 1
        BY <3>1, <3>2, <3>4, <4>1, <4>2
      <4>3. CASE j \in 1..Len(inbox)
        BY <1>0, <3>2, <4>1, <4>3 DEF Coherent, Ordered
      <4> QED
        BY <3>2, <4>2, <4>3
    <3> QED
      BY <2>1, <2>4, <3>5, <3>6 DEF Coherent
  <2> QED
    BY <2>3, <2>4
<1>39. ASSUME NEW x \in Dials, DialStart(x) PROVE Coherent(c)'
  BY <1>39, <1>f DEF DialStart
<1>40. ASSUME NEW x \in Dials, RegisterConn(x) PROVE Coherent(c)'
  BY <1>40, <1>f DEF RegisterConn
<1>41. ASSUME NEW x \in Dials, CloseConn(x) PROVE Coherent(c)'
  BY <1>41, <1>f DEF CloseConn
<1>42. ASSUME NEW x \in Dials, DropConn(x) PROVE Coherent(c)'
  BY <1>42, <1>f DEF DropConn
<1>43. ASSUME NEW x \in Binds, BindStart(x) PROVE Coherent(c)'
  BY <1>43, <1>f DEF BindStart
<1>44. ASSUME NEW x \in Binds, RegisterBind(x) PROVE Coherent(c)'
  BY <1>44, <1>f DEF RegisterBind
<1>45. ASSUME NEW x \in Pushes, PushStart(x) PROVE Coherent(c)'
  BY <1>45, <1>f DEF PushStart
<1>46. ASSUME NEW x \in Pushes, PushTimeout(x) PROVE Coherent(c)'
  BY <1>46, <1>f DEF PushTimeout
<1>47. ASSUME NEW x \in Calls, InsertWaiter(x) PROVE Coherent(c)'
  BY <1>47, <1>f DEF InsertWaiter
<1>48. ASSUME NEW x \in Calls, LockWrite(x) PROVE Coherent(c)'
  BY <1>48, <1>f DEF LockWrite
<1>49. ASSUME NEW x \in Calls, WriteOk(x) PROVE Coherent(c)'
  BY <1>49, <1>f DEF WriteOk
<1>50. ASSUME NEW x \in Calls, WriteErr(x) PROVE Coherent(c)'
  BY <1>50, <1>f DEF WriteErr
<1>51. ASSUME NEW x \in Calls, CallMarkClosed(x) PROVE Coherent(c)'
  BY <1>51, <1>f DEF CallMarkClosed
<1>52. ASSUME NEW x \in Calls, CallMarkedClosed(x) PROVE Coherent(c)'
  BY <1>52, <1>f DEF CallMarkedClosed
<1>53. ASSUME NEW x \in Calls, ReplyArrives(x) PROVE Coherent(c)'
  BY <1>53, <1>f DEF ReplyArrives
<1>54. ASSUME NEW x \in Calls, ReplyDropped(x) PROVE Coherent(c)'
  BY <1>54, <1>f DEF ReplyDropped
<1>55. ASSUME NEW x \in Calls, RemoveWaiter(x) PROVE Coherent(c)'
  BY <1>55, <1>f DEF RemoveWaiter
<1>56. ASSUME NEW x \in Calls, Unregister(x) PROVE Coherent(c)'
  BY <1>56, <1>f DEF Unregister
<1>57. ASSUME NEW x \in Calls, Cancel(x) PROVE Coherent(c)'
  BY <1>57, <1>f DEF Cancel
<1>58. ASSUME NEW x \in Streams, Recv(x) PROVE Coherent(c)'
  BY <1>58, <1>f DEF Recv
<1>59. ASSUME UNCHANGED vars PROVE Coherent(c)'
  BY <1>59, <1>f DEF vars
<1> QED
  BY <1>1, <1>2, <1>3, <1>4, <1>5, <1>6, <1>7, <1>8, <1>9, <1>10, <1>11, <1>12, <1>13, <1>14, <1>15, <1>16, <1>17, <1>18, <1>19, <1>20, <1>21, <1>22, <1>23, <1>24, <1>25, <1>26, <1>27, <1>28, <1>29, <1>30, <1>31, <1>32, <1>33, <1>34, <1>35, <1>36, <1>37, <1>38, <1>39, <1>40, <1>41, <1>42, <1>43, <1>44, <1>45, <1>46, <1>47, <1>48, <1>49, <1>50, <1>51, <1>52, <1>53, <1>54, <1>55, <1>56, <1>57, <1>58, <1>59 DEF Next, Teardown, Rx, Prober, Owner, Environment, CallStep

\* NothingLost's condition on a call, once false, stays false: the channel is not
\* reopened, no abort is undone, and a call that ended does not begin again.
LEMMA WholeBefore ==
  ASSUME TypeOK, Phase, Closing, NEW c \in Streams, [Next]_vars, Whole(c)'
  PROVE  Whole(c)
<1>0. /\ c \in Calls /\ pc \in [Calls -> CallPcs]
      /\ closed \in BOOLEAN /\ (closed <=> closer # "none")
  BY Populations DEF TypeOK, Closing
<1> USE DEF Whole, chan, loop, Elsewhere, RxElsewhere, ProbeElsewhere, OwnerElsewhere, RouterElsewhere, Goto
<1>c. ASSUME pc' = pc, chan' = chan, aborted' = aborted PROVE Whole(c)
  BY <1>c
<1>1. ASSUME NotifyWaiters PROVE Whole(c)
  BY <1>0, <1>1 DEF NotifyWaiters
<1>2. ASSUME ClearWaiters PROVE Whole(c)
  BY <1>0, <1>2 DEF ClearWaiters
<1>3. ASSUME ClearConns PROVE Whole(c)
  BY <1>0, <1>3 DEF ClearConns
<1>4. ASSUME ClearBinds PROVE Whole(c)
  BY <1>0, <1>4 DEF ClearBinds
<1>5. ASSUME RxReply PROVE Whole(c)
  BY <1>0, <1>5 DEF RxReply
<1>6. ASSUME RxRoute PROVE Whole(c)
  BY <1>0, <1>6 DEF RxRoute
<1>7. ASSUME RxEnable PROVE Whole(c)
  BY <1>0, <1>7 DEF RxEnable
<1>8. ASSUME RxCheck PROVE Whole(c)
  BY <1>0, <1>8 DEF RxCheck, RxLeave
<1>9. ASSUME RxNotified PROVE Whole(c)
  BY <1>0, <1>9 DEF RxNotified, RxLeave
<1>10. ASSUME RxSend PROVE Whole(c)
  BY <1>0, <1>10 DEF RxSend, RxLeave
<1>11. ASSUME RxSendErr PROVE Whole(c)
  BY <1>0, <1>11 DEF RxSendErr, RxLeave
<1>12. ASSUME RxReadErr PROVE Whole(c)
  BY <1>0, <1>12 DEF RxReadErr, RxLeave
<1>13. ASSUME RxMarkClosed PROVE Whole(c)
  BY <1>0, <1>13 DEF RxMarkClosed, CompareExchange
<1>14. ASSUME RxEnd PROVE Whole(c)
  BY <1>0, <1>14 DEF RxEnd, RxLeave
<1>15. ASSUME RxAborted PROVE Whole(c)
  BY <1>0, <1>15 DEF RxAborted, RxLeave
<1>16. ASSUME ProbeWake PROVE Whole(c)
  BY <1>0, <1>16 DEF ProbeWake
<1>17. ASSUME ProbeArm PROVE Whole(c)
  BY <1>0, <1>17 DEF ProbeArm
<1>18. ASSUME ProbeLock PROVE Whole(c)
  BY <1>0, <1>18 DEF ProbeLock
<1>19. ASSUME ProbeWriteOk PROVE Whole(c)
  BY <1>0, <1>19 DEF ProbeWriteOk
<1>20. ASSUME ProbeWriteErr PROVE Whole(c)
  BY <1>0, <1>20 DEF ProbeWriteErr
<1>21. ASSUME ProbeAlive PROVE Whole(c)
  BY <1>0, <1>21 DEF ProbeAlive
<1>22. ASSUME ProbeClosed PROVE Whole(c)
  BY <1>0, <1>22 DEF ProbeClosed
<1>23. ASSUME ProbeTimeout PROVE Whole(c)
  BY <1>0, <1>23 DEF ProbeTimeout
<1>24. ASSUME ProbeJudge PROVE Whole(c)
  BY <1>0, <1>24 DEF ProbeJudge
<1>25. ASSUME ProbeMarkClosed PROVE Whole(c)
  BY <1>0, <1>25 DEF ProbeMarkClosed, CompareExchange
<1>26. ASSUME ProbeMarkedClosed PROVE Whole(c)
  BY <1>0, <1>26 DEF ProbeMarkedClosed
<1>27. ASSUME ProbeShutdown PROVE Whole(c)
  BY <1>0, <1>27 DEF ProbeShutdown
<1>28. ASSUME ProbeAborted PROVE Whole(c)
  BY <1>0, <1>28 DEF ProbeAborted
<1>29. ASSUME OwnerShutdown PROVE Whole(c)
  BY <1>0, <1>29 DEF OwnerShutdown, OwnerAbort
<1>30. ASSUME OwnerMarkClosed PROVE Whole(c)
  BY <1>0, <1>30 DEF OwnerMarkClosed, CompareExchange
<1>31. ASSUME OwnerGone PROVE Whole(c)
  BY <1>0, <1>31 DEF OwnerGone
<1>32. ASSUME RouterOther PROVE Whole(c)
  BY <1>0, <1>32 DEF RouterOther
<1>33. ASSUME RouterEof PROVE Whole(c)
  BY <1>0, <1>33 DEF RouterEof
<1>34. ASSUME WireChange PROVE Whole(c)
  BY <1>0, <1>34 DEF WireChange
<1>35. ASSUME OwnerClose PROVE Whole(c)
  BY <1>0, <1>35 DEF OwnerClose
<1>36. ASSUME OwnerDrop PROVE Whole(c)
  BY <1>0, <1>36 DEF OwnerDrop, OwnerAbort
<1>37. ASSUME NEW x \in Waiting, RouterReply(x) PROVE Whole(c)
  BY <1>0, <1>37 DEF RouterReply
<1>38. ASSUME NEW x \in Streams, RouterStream(x) PROVE Whole(c)
  BY <1>0, <1>38 DEF RouterStream
<1>39. ASSUME NEW x \in Dials, DialStart(x) PROVE Whole(c)
  BY <1>0, <1>39 DEF DialStart
<1>40. ASSUME NEW x \in Dials, RegisterConn(x) PROVE Whole(c)
  BY <1>0, <1>40 DEF RegisterConn
<1>41. ASSUME NEW x \in Dials, CloseConn(x) PROVE Whole(c)
  BY <1>0, <1>41 DEF CloseConn
<1>42. ASSUME NEW x \in Dials, DropConn(x) PROVE Whole(c)
  BY <1>0, <1>42 DEF DropConn
<1>43. ASSUME NEW x \in Binds, BindStart(x) PROVE Whole(c)
  BY <1>0, <1>43 DEF BindStart
<1>44. ASSUME NEW x \in Binds, RegisterBind(x) PROVE Whole(c)
  BY <1>0, <1>44 DEF RegisterBind
<1>45. ASSUME NEW x \in Pushes, PushStart(x) PROVE Whole(c)
  BY <1>0, <1>45 DEF PushStart
<1>46. ASSUME NEW x \in Pushes, PushTimeout(x) PROVE Whole(c)
  BY <1>0, <1>46 DEF PushTimeout
<1>47. ASSUME NEW x \in Calls, InsertWaiter(x) PROVE Whole(c)
  BY <1>0, <1>47 DEF InsertWaiter
<1>48. ASSUME NEW x \in Calls, LockWrite(x) PROVE Whole(c)
  BY <1>0, <1>48 DEF LockWrite
<1>49. ASSUME NEW x \in Calls, WriteOk(x) PROVE Whole(c)
  BY <1>0, <1>49 DEF WriteOk
<1>50. ASSUME NEW x \in Calls, WriteErr(x) PROVE Whole(c)
  BY <1>0, <1>50 DEF WriteErr
<1>51. ASSUME NEW x \in Calls, CallMarkClosed(x) PROVE Whole(c)
  BY <1>0, <1>51 DEF CallMarkClosed, CompareExchange
<1>52. ASSUME NEW x \in Calls, CallMarkedClosed(x) PROVE Whole(c)
  BY <1>0, <1>52 DEF CallMarkedClosed
<1>53. ASSUME NEW x \in Calls, ReplyArrives(x) PROVE Whole(c)
  BY <1>0, <1>53 DEF ReplyArrives
<1>54. ASSUME NEW x \in Calls, ReplyDropped(x) PROVE Whole(c)
  BY <1>0, <1>54 DEF ReplyDropped
<1>55. ASSUME NEW x \in Calls, RemoveWaiter(x) PROVE Whole(c)
  BY <1>0, <1>55 DEF RemoveWaiter
<1>56. ASSUME NEW x \in Calls, Unregister(x) PROVE Whole(c)
  BY <1>0, <1>56 DEF Unregister
<1>57. ASSUME NEW x \in Calls, Cancel(x) PROVE Whole(c)
  BY <1>0, <1>57 DEF Cancel, AwaitPoints
<1>58. ASSUME NEW x \in Streams, Recv(x) PROVE Whole(c)
  BY <1>0, <1>58 DEF Recv
<1>59. ASSUME UNCHANGED vars PROVE Whole(c)
  BY <1>59 DEF vars
<1> QED
  BY <1>1, <1>2, <1>3, <1>4, <1>5, <1>6, <1>7, <1>8, <1>9, <1>10, <1>11, <1>12, <1>13, <1>14, <1>15, <1>16, <1>17, <1>18, <1>19, <1>20, <1>21, <1>22, <1>23, <1>24, <1>25, <1>26, <1>27, <1>28, <1>29, <1>30, <1>31, <1>32, <1>33, <1>34, <1>35, <1>36, <1>37, <1>38, <1>39, <1>40, <1>41, <1>42, <1>43, <1>44, <1>45, <1>46, <1>47, <1>48, <1>49, <1>50, <1>51, <1>52, <1>53, <1>54, <1>55, <1>56, <1>57, <1>58, <1>59 DEF Next, Teardown, Rx, Prober, Owner, Environment, CallStep

\* How far c's frames have got is a number.
LEMMA TakenNat ==
  ASSUME TypeOK, NEW c \in Streams
  PROVE  /\ \E g, q \in Nat : Len(got[c]) = g /\ Len(queue[c]) = q
         /\ Taken(c) \in Nat /\ routed[c] \in Nat
         /\ got[c] \in Seq(Frame) /\ queue[c] \in Seq(Frame)
<1>1. got[c] \in Seq(Frame) /\ queue[c] \in Seq(Frame) /\ routed[c] \in Nat
  BY BoundsAssumption DEF TypeOK
<1>2. PICK g, q \in Nat : Len(got[c]) = g /\ Len(queue[c]) = q
  BY <1>1
<1>3. Taken(c) \in Nat
  BY <1>2 DEF Taken
<1> QED
  BY <1>1, <1>2, <1>3

\* The read loop takes a frame that is not c's: c's are still in flight.
LEMMA RestTail ==
  ASSUME inbox \in Seq(Frame), inbox # <<>>, inbox' = Tail(inbox), NEW c,
         ~ForConn(c, inbox[1]), Rest(c), Taken(c)' = Taken(c), routed'[c] = routed[c]
  PROVE  Rest(c)'
<1>1. /\ Len(inbox') = Len(inbox) - 1 /\ Len(inbox) \in Nat
      /\ \A i \in 1..(Len(inbox) - 1) : i + 1 \in 1..Len(inbox) /\ inbox'[i] = inbox[i + 1]
      /\ \A i \in 1..Len(inbox) : i # 1 => i - 1 \in 1..(Len(inbox) - 1) /\ inbox'[i - 1] = inbox[i]
  BY InboxTail
<1>2. \A i \in 1..Len(inbox') : ForConn(c, inbox'[i]) => inbox'[i].n > Taken(c)'
  BY <1>1 DEF Rest
<1>3. ASSUME NEW m \in (Taken(c)' + 1)..routed'[c]
      PROVE  \E i \in 1..Len(inbox') : ForConn(c, inbox'[i]) /\ inbox'[i].n = m
  <2>1. PICK i \in 1..Len(inbox) : ForConn(c, inbox[i]) /\ inbox[i].n = m
    BY DEF Rest
  <2>2. i # 1
    BY <2>1
  <2>3. i - 1 \in 1..Len(inbox') /\ inbox'[i - 1] = inbox[i]
    BY <1>1, <2>2
  <2> QED
    BY <2>1, <2>3
<1> QED
  BY <1>2, <1>3 DEF Rest

\* The router sends a frame that is not c's: c's are still in flight.
LEMMA RestAppend ==
  ASSUME inbox \in Seq(Frame), NEW f \in Frame, inbox' = Append(inbox, f), NEW c,
         ~ForConn(c, f), Rest(c), Taken(c)' = Taken(c), routed'[c] = routed[c]
  PROVE  Rest(c)'
<1>1. /\ Len(inbox') = Len(inbox) + 1 /\ Len(inbox) \in Nat /\ inbox'[Len(inbox) + 1] = f
      /\ \A i \in 1..Len(inbox) : inbox'[i] = inbox[i]
  BY InboxAppend
<1>2. \A i \in 1..Len(inbox') : ForConn(c, inbox'[i]) => i \in 1..Len(inbox) /\ inbox'[i] = inbox[i]
  BY <1>1
<1>3. \A i \in 1..Len(inbox) : i \in 1..Len(inbox')
  BY <1>1
<1>4. \A i \in 1..Len(inbox') : ForConn(c, inbox'[i]) => inbox'[i].n > Taken(c)'
  BY <1>2 DEF Rest
<1>5. \A m \in (Taken(c)' + 1)..routed'[c] :
        \E i \in 1..Len(inbox') : ForConn(c, inbox'[i]) /\ inbox'[i].n = m
  BY <1>1, <1>3 DEF Rest
<1> QED
  BY <1>4, <1>5 DEF Rest

\* While nobody but the read loop closes the channel, no step of the calls that
\* share it, of the router or of the loop loses, repeats or reorders a frame.
LEMMA KeptStep ==
  ASSUME TypeOK, TypeOK', Phase, Entries, Closing, NEW c \in Streams, Answers(c), Coherent(c),
         Whole(c) => Kept(c), [Next]_vars, Whole(c)'
  PROVE  Kept(c)'
<1>0. /\ c \in Calls /\ c # "none" /\ c # "probe" /\ pc \in [Calls -> CallPcs] /\ inbox \in Seq(Frame)
      /\ queue \in [Streams -> Seq(Frame)] /\ got \in [Streams -> Seq(Frame)]
      /\ routed \in [Streams -> 0..MaxFrames]
  BY Populations, CallsAssumption DEF TypeOK
<1>1k. Whole(c) /\ First(c) /\ Rest(c)
  BY WholeBefore DEF Kept
<1>p. PICK g, q \in Nat : Len(got[c]) = g /\ Len(queue[c]) = q
  BY TakenNat
<1>2k. /\ Taken(c) \in Nat /\ routed[c] \in Nat
       /\ got[c] \in Seq(Frame) /\ queue[c] \in Seq(Frame)
       /\ Taken(c) = IF Dispatching(c) THEN g + q + 1 ELSE g + q
  <2>1. Taken(c) = IF Dispatching(c) THEN g + q + 1 ELSE g + q
    BY <1>p DEF Taken
  <2> QED
    BY <2>1, TakenNat
<1>3k. \A a, b \in Nat : Len(got'[c]) = a /\ Len(queue'[c]) = b
                           => Taken(c)' = IF Dispatching(c)' THEN a + b + 1 ELSE a + b
  BY DEF Taken
<1>4k. rx \notin {"exit", "dead"} => ~closed
  BY <1>1k DEF Closing, Whole
<1>5k. ASSUME routed[c] > 0 PROVE answered[c] = "ok" /\ pc[c] \in {"await", "hdrlock", "hdrwrite", "open"}
  BY <1>1k, <1>5k DEF Coherent, Answers, Whole
<1>g. ASSUME got'[c] = got[c], queue'[c] = queue[c], routed'[c] = routed[c], Dispatching(c)' <=> Dispatching(c),
             Dispatching(c) => frame' = frame
      PROVE  Taken(c)' = Taken(c) /\ First(c)'
  <2>1. Taken(c)' = Taken(c)
    BY <1>g, <1>p, <1>2k, <1>3k
  <2> QED
    BY <1>1k, <1>g, <2>1 DEF First
<1>f. ASSUME got' = got, queue' = queue, routed' = routed, inbox' = inbox, Dispatching(c)' <=> Dispatching(c),
             Dispatching(c) => frame' = frame
      PROVE  Kept(c)'
  <2>1. Taken(c)' = Taken(c) /\ First(c)'
    BY <1>f, <1>g
  <2> QED
    BY <1>1k, <1>f, <2>1 DEF Kept, Rest
<1>u. ASSUME streams' = streams, routed' = routed, inbox' = inbox, rx' = rx, frame' = frame
      PROVE  Kept(c)'
  BY <1>f, <1>u DEF streams, Dispatching
<1> USE DEF streams, loop, router, Elsewhere, RxElsewhere, ProbeElsewhere, OwnerElsewhere, RouterElsewhere
<1>1. ASSUME NotifyWaiters PROVE Kept(c)'
  BY <1>1, <1>u DEF NotifyWaiters
<1>2. ASSUME ClearWaiters PROVE Kept(c)'
  BY <1>2, <1>u DEF ClearWaiters
<1>3. ASSUME ClearConns PROVE Kept(c)'
  BY <1>3, <1>u DEF ClearConns
<1>4. ASSUME ClearBinds PROVE Kept(c)'
  BY <1>4, <1>u DEF ClearBinds
<1>5. ASSUME RxReply PROVE Kept(c)'
  <2>1. /\ inbox # <<>> /\ inbox' = Tail(inbox) /\ ~ForConn(c, Head(inbox))
        /\ UNCHANGED <<got, queue, routed, rx, frame>>
    BY <1>5 DEF RxReply, ForConn
  <2>2. Taken(c)' = Taken(c) /\ First(c)'
    BY <1>g, <2>1 DEF Dispatching
  <2>3. Head(inbox) = inbox[1]
    BY <1>0, <2>1, InboxTail
  <2>4. Rest(c)'
    BY <1>0, <1>1k, <2>1, <2>2, <2>3, RestTail
  <2> QED
    BY <2>2, <2>4 DEF Kept
<1>6. ASSUME RxRoute PROVE Kept(c)'
  <2> DEFINE h == inbox[1]
  <2>1. /\ rx = "read" /\ inbox # <<>> /\ inbox' = Tail(inbox)
        /\ UNCHANGED <<got, queue, routed>>
    BY <1>6 DEF RxRoute
  <2>2. /\ Head(inbox) = h /\ h \in Frame /\ 1 \in 1..Len(inbox) /\ Len(inbox) \in Nat
        /\ Len(inbox') = Len(inbox) - 1
        /\ \A i \in 1..(Len(inbox) - 1) : i + 1 \in 1..Len(inbox) /\ inbox'[i] = inbox[i + 1]
        /\ \A i \in 1..Len(inbox) : i # 1 => i - 1 \in 1..(Len(inbox) - 1) /\ inbox'[i - 1] = inbox[i]
    BY <1>0, <2>1, InboxTail
  <2>3. /\ ~(h.kind \in {"ok", "rejected"} /\ h.to \in waiters)
        /\ rx' = (IF h.to \in RouteOf(h) THEN "dispatch" ELSE "read")
        /\ frame' = (IF h.to \in RouteOf(h) THEN h ELSE NoFrame)
    BY <1>6, <2>2 DEF RxRoute
  <2>4. ~closed /\ ~Dispatching(c)
    BY <1>4k, <2>1 DEF Dispatching
  <2>5. CASE ForConn(c, h)
    <3>1. h.to = c /\ h.n \in 1..routed[c] /\ h.n > Taken(c)
      BY <1>1k, <2>2, <2>5 DEF ForConn, Coherent, Numbered, Rest
    <3>2. pc[c] \in {"await", "hdrlock", "hdrwrite", "open"}
      BY <1>2k, <1>5k, <3>1
    <3>3. c \in conns \cup binds
      BY <2>4, <3>2 DEF Entries, Registered
    <3>4. h.kind \in IF c \in Binds THEN {"dial", "closed"} ELSE {"data", "closed"}
      BY <2>2, <2>5 DEF Coherent, Numbered
    <3>5. h.to \in RouteOf(h)
      BY <3>1, <3>3, <3>4, CallsAssumption DEF RouteOf, TypeOK
    <3>6. rx' = "dispatch" /\ frame' = h /\ Dispatching(c)'
      BY <2>3, <3>1, <3>5 DEF Dispatching
    <3>7. Taken(c)' = Taken(c) + 1
      BY <1>p, <1>2k, <1>3k, <2>1, <2>4, <3>6
    <3>8. PICK k \in 1..Len(inbox) : ForConn(c, inbox[k]) /\ inbox[k].n = Taken(c) + 1
      <4>1. Taken(c) + 1 \in (Taken(c) + 1)..routed[c]
        BY <1>2k, <3>1
      <4> QED
        BY <1>1k, <4>1 DEF Rest
    <3>9. h.n = Taken(c) + 1
      <4>1. CASE k = 1
        BY <3>8, <4>1
      <4>2. CASE k # 1
        <5>1. 1 < k
          BY <2>2, <4>2
        <5>2. h.n < inbox[k].n
          BY <2>2, <2>5, <3>8, <5>1 DEF Coherent, Ordered
        <5> QED
          BY <1>2k, <3>1, <3>8, <5>2
      <4> QED
        BY <4>1, <4>2
    <3>10. First(c)'
      <4>1. Taken(c)' <= routed'[c] /\ frame'.n = Taken(c)'
        BY <1>2k, <2>1, <3>1, <3>6, <3>7, <3>9
      <4> QED
        BY <1>1k, <2>1, <4>1 DEF First
    <3>11. ASSUME NEW i \in 1..Len(inbox'), ForConn(c, inbox'[i]) PROVE inbox'[i].n > Taken(c)'
      <4>1. i + 1 \in 1..Len(inbox) /\ inbox'[i] = inbox[i + 1] /\ 1 < i + 1
        BY <2>2
      <4>2. h.n < inbox[i + 1].n /\ inbox[i + 1].n \in 1..routed[c]
        BY <2>2, <2>5, <3>11, <4>1 DEF Coherent, Ordered, Numbered
      <4> QED
        BY <1>2k, <3>7, <3>9, <4>1, <4>2
    <3>12. ASSUME NEW m \in (Taken(c)' + 1)..routed'[c]
           PROVE  \E i \in 1..Len(inbox') : ForConn(c, inbox'[i]) /\ inbox'[i].n = m
      <4>1. m \in (Taken(c) + 1)..routed[c] /\ m # Taken(c) + 1
        BY <1>2k, <2>1, <3>7
      <4>2. PICK i \in 1..Len(inbox) : ForConn(c, inbox[i]) /\ inbox[i].n = m
        BY <1>1k, <4>1 DEF Rest
      <4>3. i # 1
        BY <3>9, <4>1, <4>2
      <4>4. i - 1 \in 1..Len(inbox') /\ inbox'[i - 1] = inbox[i]
        BY <2>2, <4>3
      <4> QED
        BY <4>2, <4>4
    <3> QED
      BY <3>10, <3>11, <3>12 DEF Kept, Rest
  <2>6. CASE ~ForConn(c, h)
    <3>1. h.to = c => h.to \notin RouteOf(h)
      <4> SUFFICES ASSUME h.to = c, h.to \in RouteOf(h) PROVE FALSE
        OBVIOUS
      <4>1. h.kind = "rejected"
        BY <2>2, <2>6 DEF RouteOf, ForConn, Frame
      <4>2. IsReply(c, h) /\ c \notin waiters
        BY <2>3, <4>1 DEF IsReply
      <4>3. answered[c] = "rejected" /\ ReplyComing(c)
        BY <2>2, <4>1, <4>2 DEF Answers, OneReply, ReplyComing
      <4>4. reply[c] = "none"
        BY <4>3 DEF Answers
      <4>5. pc[c] = "await"
        BY <1>1k, <4>3, <4>4 DEF Answers, Whole
      <4> QED
        BY <2>4, <4>2, <4>4, <4>5 DEF Answers
    <3>2. ~Dispatching(c)'
      BY <2>3, <3>1 DEF Dispatching
    <3>3. Taken(c)' = Taken(c) /\ First(c)'
      BY <1>g, <2>1, <2>4, <3>2
    <3>4. Rest(c)'
      BY <1>0, <1>1k, <2>1, <2>6, <3>3, RestTail
    <3> QED
      BY <3>3, <3>4 DEF Kept
  <2> QED
    BY <2>5, <2>6
<1>7. ASSUME RxEnable PROVE Kept(c)'
  BY <1>7, <1>f DEF RxEnable, Dispatching
<1>8. ASSUME RxCheck PROVE Kept(c)'
  <2>1. ~closed
    BY <1>8, <1>4k DEF RxCheck
  <2> QED
    BY <1>8, <1>f, <2>1 DEF RxCheck, Dispatching
<1>9. ASSUME RxNotified PROVE Kept(c)'
  <2>1. FALSE
    BY <1>9, <1>4k DEF RxNotified, Closing
  <2> QED
    BY <2>1
<1>10. ASSUME RxSend PROVE Kept(c)'
  <2>1. /\ rx = "send" /\ rx' = "read" /\ UNCHANGED <<got, routed, inbox>>
        /\ queue' = [queue EXCEPT ![frame.to] = Append(queue[frame.to], frame)]
    BY <1>10 DEF RxSend, RxLeave
  <2>2. frame \in Frame /\ frame.to \in Streams /\ ~Dispatching(c)'
    BY <2>1 DEF TypeOK, Dispatching
  <2>3. CASE frame.to # c
    <3>1. queue'[c] = queue[c] /\ ~Dispatching(c)
      BY <1>0, <2>1, <2>2, <2>3 DEF Dispatching
    <3>2. Taken(c)' = Taken(c) /\ First(c)'
      BY <1>g, <2>1, <2>2, <3>1
    <3> QED
      BY <1>1k, <2>1, <3>2 DEF Kept, Rest
  <2>4. CASE frame.to = c
    <3>1. queue'[c] = Append(queue[c], frame) /\ Dispatching(c)
      BY <1>0, <2>1, <2>2, <2>4 DEF Dispatching
    <3>2. /\ Len(queue'[c]) = q + 1 /\ queue'[c][q + 1] = frame /\ Len(got'[c]) = g
          /\ \A i \in 1..q : queue'[c][i] = queue[c][i]
      BY <1>p, <1>2k, <2>1, <2>2, <3>1
    <3>3. Taken(c) = g + q + 1 /\ Taken(c)' = Taken(c)
      BY <1>2k, <1>3k, <2>2, <3>1, <3>2
    <3>4. ASSUME NEW i \in 1..Len(queue'[c]) PROVE queue'[c][i].n = Len(got'[c]) + i
      <4>1. CASE i \in 1..q
        BY <1>1k, <1>p, <2>1, <3>2, <4>1 DEF First
      <4>2. CASE i = q + 1
        <5>1. frame.n = g + q + 1
          BY <1>1k, <3>1, <3>3 DEF First
        <5> QED
          BY <3>2, <4>2, <5>1
      <4> QED
        BY <3>2, <4>1, <4>2
    <3>5. First(c)'
      BY <1>1k, <2>1, <2>2, <3>3, <3>4 DEF First
    <3> QED
      BY <1>1k, <2>1, <3>3, <3>5 DEF Kept, Rest
  <2> QED
    BY <2>3, <2>4
<1>11. ASSUME RxSendErr PROVE Kept(c)'
  <2>1. /\ rx = "send" /\ rx' = "read" /\ UNCHANGED <<got, queue, routed, inbox>>
        /\ pc[frame.to] \notin Receiving
    BY <1>11 DEF RxSendErr, RxLeave
  <2>2. frame.to # c
    <3> SUFFICES ASSUME frame.to = c PROVE FALSE
      OBVIOUS
    <3>1. Dispatching(c)
      BY <2>1 DEF Dispatching
    <3>2. Taken(c) > 0 /\ Taken(c) <= routed[c]
      BY <1>1k, <1>2k, <3>1 DEF First
    <3>3. routed[c] > 0
      BY <1>2k, <3>2
    <3> QED
      BY <1>5k, <2>1, <3>3 DEF Receiving, InFlight, AwaitPoints
  <2>3. ~Dispatching(c) /\ ~Dispatching(c)'
    BY <2>1, <2>2 DEF Dispatching
  <2> QED
    BY <1>f, <2>1, <2>3
<1>12. ASSUME RxReadErr PROVE Kept(c)'
  BY <1>12, <1>f DEF RxReadErr, RxLeave, Dispatching
<1>13. ASSUME RxMarkClosed PROVE Kept(c)'
  BY <1>13, <1>u DEF RxMarkClosed
<1>14. ASSUME RxEnd PROVE Kept(c)'
  BY <1>14, <1>f DEF RxEnd, RxLeave, Dispatching
<1>15. ASSUME RxAborted PROVE Kept(c)'
  BY <1>15, <1>1k DEF RxAborted, Whole
<1>16. ASSUME ProbeWake PROVE Kept(c)'
  BY <1>16, <1>u DEF ProbeWake
<1>17. ASSUME ProbeArm PROVE Kept(c)'
  <2>1. UNCHANGED <<got, queue, routed, rx, frame>>
    BY <1>17 DEF ProbeArm
  <2>2. Len(inbox') = Len(inbox) /\ \A i \in 1..Len(inbox) : inbox'[i] = Superseded(inbox[i])
    BY <1>0, <1>17 DEF ProbeArm
  <2>3. \A i \in 1..Len(inbox) : /\ ForConn(c, inbox'[i]) <=> ForConn(c, inbox[i])
                                 /\ ForConn(c, inbox[i]) => inbox'[i] = inbox[i]
    BY <1>0, <2>2, SupersededOther
  <2>4. Taken(c)' = Taken(c) /\ First(c)'
    BY <1>g, <2>1 DEF Dispatching
  <2>5. Rest(c)'
    BY <1>1k, <2>1, <2>2, <2>3, <2>4 DEF Rest
  <2> QED
    BY <2>4, <2>5 DEF Kept
<1>18. ASSUME ProbeLock PROVE Kept(c)'
  BY <1>18, <1>u DEF ProbeLock
<1>19. ASSUME ProbeWriteOk PROVE Kept(c)'
  BY <1>19, <1>u DEF ProbeWriteOk
<1>20. ASSUME ProbeWriteErr PROVE Kept(c)'
  BY <1>20, <1>u DEF ProbeWriteErr
<1>21. ASSUME ProbeAlive PROVE Kept(c)'
  BY <1>21, <1>u DEF ProbeAlive
<1>22. ASSUME ProbeClosed PROVE Kept(c)'
  BY <1>22, <1>u DEF ProbeClosed
<1>23. ASSUME ProbeTimeout PROVE Kept(c)'
  BY <1>23, <1>u DEF ProbeTimeout
<1>24. ASSUME ProbeJudge PROVE Kept(c)'
  BY <1>24, <1>u DEF ProbeJudge
<1>25. ASSUME ProbeMarkClosed PROVE Kept(c)'
  BY <1>25, <1>u DEF ProbeMarkClosed
<1>26. ASSUME ProbeMarkedClosed PROVE Kept(c)'
  BY <1>26, <1>u DEF ProbeMarkedClosed
<1>27. ASSUME ProbeShutdown PROVE Kept(c)'
  BY <1>27, <1>u DEF ProbeShutdown
<1>28. ASSUME ProbeAborted PROVE Kept(c)'
  BY <1>28, <1>u DEF ProbeAborted
<1>29. ASSUME OwnerShutdown PROVE Kept(c)'
  BY <1>29, <1>u DEF OwnerShutdown, OwnerAbort
<1>30. ASSUME OwnerMarkClosed PROVE Kept(c)'
  BY <1>30, <1>u DEF OwnerMarkClosed
<1>31. ASSUME OwnerGone PROVE Kept(c)'
  BY <1>31, <1>u DEF OwnerGone
<1>32. ASSUME RouterOther PROVE Kept(c)'
  <2> DEFINE f == [to |-> "probe", kind |-> "other", n |-> 0]
  <2>1. inbox' = Append(inbox, f) /\ UNCHANGED <<got, queue, routed, rx, frame>>
    BY <1>32 DEF RouterOther, Deliver
  <2>2. f \in Frame /\ ~ForConn(c, f)
    BY <1>0, Populations DEF Frame, ForConn
  <2>3. Taken(c)' = Taken(c) /\ First(c)'
    BY <1>g, <2>1 DEF Dispatching
  <2>4. Rest(c)'
    BY <1>0, <1>1k, <2>1, <2>2, <2>3, RestAppend
  <2> QED
    BY <2>3, <2>4 DEF Kept
<1>33. ASSUME RouterEof PROVE Kept(c)'
  BY <1>33, <1>u DEF RouterEof
<1>34. ASSUME WireChange PROVE Kept(c)'
  BY <1>34, <1>u DEF WireChange
<1>35. ASSUME OwnerClose PROVE Kept(c)'
  BY <1>35, <1>u DEF OwnerClose
<1>36. ASSUME OwnerDrop PROVE Kept(c)'
  BY <1>36, <1>u DEF OwnerDrop, OwnerAbort
<1>37. ASSUME NEW x \in Waiting, RouterReply(x) PROVE Kept(c)'
  <2>0. PICK v \in {"ok", "rejected"} : inbox' = Append(inbox, [to |-> x, kind |-> v, n |-> 0])
    BY <1>37 DEF RouterReply, Deliver
  <2> DEFINE f == [to |-> x, kind |-> v, n |-> 0]
  <2>1. inbox' = Append(inbox, f) /\ UNCHANGED <<got, queue, routed, rx, frame>>
    BY <1>37, <2>0 DEF RouterReply
  <2>2. f \in Frame /\ ~ForConn(c, f)
    BY DEF Frame, ForConn
  <2>3. Taken(c)' = Taken(c) /\ First(c)'
    BY <1>g, <2>1 DEF Dispatching
  <2>4. Rest(c)'
    BY <1>0, <1>1k, <2>1, <2>2, <2>3, RestAppend
  <2> QED
    BY <2>3, <2>4 DEF Kept
<1>38. ASSUME NEW x \in Streams, RouterStream(x) PROVE Kept(c)'
  <2> DEFINE f == [to |-> x, kind |-> StreamKind(x, routed[x] + 1), n |-> routed[x] + 1]
  <2>0. /\ inbox' = Append(inbox, f) /\ UNCHANGED <<got, queue, rx, frame>>
        /\ routed' = [routed EXCEPT ![x] = routed[x] + 1]
    BY <1>38 DEF RouterStream, Deliver
  <2>1. f \in Frame /\ f.to = x /\ f.n = routed[x] + 1 /\ routed[x] \in Nat
    BY <1>0, Populations, BoundsAssumption DEF Frame, StreamKind
  <2>2. CASE x # c
    <3>1. ~ForConn(c, f) /\ routed'[c] = routed[c]
      BY <1>0, <2>0, <2>1, <2>2 DEF ForConn
    <3>2. Taken(c)' = Taken(c) /\ First(c)'
      BY <1>g, <2>0, <3>1 DEF Dispatching
    <3>3. Rest(c)'
      BY <1>0, <1>1k, <2>0, <2>1, <3>1, <3>2, RestAppend
    <3> QED
      BY <3>2, <3>3 DEF Kept
  <2>3. CASE x = c
    <3>1. routed'[c] = routed[c] + 1
      BY <1>0, <2>0, <2>3
    <3>2. Taken(c)' = Taken(c) /\ (Dispatching(c)' <=> Dispatching(c))
      <4>1. Dispatching(c)' <=> Dispatching(c)
        BY <2>0 DEF Dispatching
      <4> QED
        BY <1>p, <1>2k, <1>3k, <2>0, <4>1
    <3>3. First(c)'
      <4>1. Taken(c)' <= routed'[c]
        BY <1>1k, <1>2k, <3>1, <3>2 DEF First
      <4> QED
        BY <1>1k, <2>0, <3>2, <4>1 DEF First
    <3>4. /\ Len(inbox') = Len(inbox) + 1 /\ Len(inbox) \in Nat /\ inbox'[Len(inbox) + 1] = f
          /\ \A i \in 1..Len(inbox) : inbox'[i] = inbox[i]
      BY <1>0, <2>0, <2>1, InboxAppend
    <3>5. ForConn(c, f) /\ f.n = routed[c] + 1 /\ f.n > Taken(c)
      <4>1. f.kind \in {"data", "closed", "dial"}
        BY DEF StreamKind
      <4>2. f.n > Taken(c)
        BY <1>1k, <1>2k, <2>1, <2>3 DEF First
      <4> QED
        BY <2>1, <2>3, <4>1, <4>2 DEF ForConn
    <3>6. ASSUME NEW i \in 1..Len(inbox'), ForConn(c, inbox'[i]) PROVE inbox'[i].n > Taken(c)'
      <4>1. CASE i \in 1..Len(inbox)
        BY <1>1k, <3>2, <3>4, <3>6, <4>1 DEF Rest
      <4>2. CASE i = Len(inbox) + 1
        BY <3>2, <3>4, <3>5, <4>2
      <4> QED
        BY <3>4, <4>1, <4>2
    <3>7. ASSUME NEW m \in (Taken(c)' + 1)..routed'[c]
          PROVE  \E i \in 1..Len(inbox') : ForConn(c, inbox'[i]) /\ inbox'[i].n = m
      <4>1. CASE m = routed[c] + 1
        <5>1. Len(inbox) + 1 \in 1..Len(inbox')
          BY <3>4
        <5> QED
          BY <3>4, <3>5, <4>1, <5>1
      <4>2. CASE m \in (Taken(c) + 1)..routed[c]
        <5>1. PICK i \in 1..Len(inbox) : ForConn(c, inbox[i]) /\ inbox[i].n = m
          BY <1>1k, <4>2 DEF Rest
        <5>2. i \in 1..Len(inbox')
          BY <3>4
        <5> QED
          BY <3>4, <5>1, <5>2
      <4> QED
        BY <1>2k, <3>1, <3>2, <4>1, <4>2
    <3> QED
      BY <3>3, <3>6, <3>7 DEF Kept, Rest
  <2> QED
    BY <2>2, <2>3
<1>39. ASSUME NEW x \in Dials, DialStart(x) PROVE Kept(c)'
  BY <1>39, <1>u DEF DialStart
<1>40. ASSUME NEW x \in Dials, RegisterConn(x) PROVE Kept(c)'
  BY <1>40, <1>u DEF RegisterConn
<1>41. ASSUME NEW x \in Dials, CloseConn(x) PROVE Kept(c)'
  BY <1>41, <1>u DEF CloseConn
<1>42. ASSUME NEW x \in Dials, DropConn(x) PROVE Kept(c)'
  BY <1>42, <1>u DEF DropConn
<1>43. ASSUME NEW x \in Binds, BindStart(x) PROVE Kept(c)'
  BY <1>43, <1>u DEF BindStart
<1>44. ASSUME NEW x \in Binds, RegisterBind(x) PROVE Kept(c)'
  BY <1>44, <1>u DEF RegisterBind
<1>45. ASSUME NEW x \in Pushes, PushStart(x) PROVE Kept(c)'
  BY <1>45, <1>u DEF PushStart
<1>46. ASSUME NEW x \in Pushes, PushTimeout(x) PROVE Kept(c)'
  BY <1>46, <1>u DEF PushTimeout
<1>47. ASSUME NEW x \in Calls, InsertWaiter(x) PROVE Kept(c)'
  BY <1>47, <1>u DEF InsertWaiter
<1>48. ASSUME NEW x \in Calls, LockWrite(x) PROVE Kept(c)'
  BY <1>48, <1>u DEF LockWrite
<1>49. ASSUME NEW x \in Calls, WriteOk(x) PROVE Kept(c)'
  BY <1>49, <1>u DEF WriteOk
<1>50. ASSUME NEW x \in Calls, WriteErr(x) PROVE Kept(c)'
  BY <1>50, <1>u DEF WriteErr
<1>51. ASSUME NEW x \in Calls, CallMarkClosed(x) PROVE Kept(c)'
  BY <1>51, <1>u DEF CallMarkClosed
<1>52. ASSUME NEW x \in Calls, CallMarkedClosed(x) PROVE Kept(c)'
  BY <1>52, <1>u DEF CallMarkedClosed
<1>53. ASSUME NEW x \in Calls, ReplyArrives(x) PROVE Kept(c)'
  BY <1>53, <1>u DEF ReplyArrives
<1>54. ASSUME NEW x \in Calls, ReplyDropped(x) PROVE Kept(c)'
  BY <1>54, <1>u DEF ReplyDropped
<1>55. ASSUME NEW x \in Calls, RemoveWaiter(x) PROVE Kept(c)'
  BY <1>55, <1>u DEF RemoveWaiter
<1>56. ASSUME NEW x \in Calls, Unregister(x) PROVE Kept(c)'
  BY <1>56, <1>u DEF Unregister
<1>57. ASSUME NEW x \in Calls, Cancel(x) PROVE Kept(c)'
  BY <1>57, <1>u DEF Cancel
<1>58. ASSUME NEW x \in Streams, Recv(x) PROVE Kept(c)'
  <2>1. /\ queue[x] # <<>> /\ UNCHANGED <<rx, frame, routed, inbox>>
        /\ got' = [got EXCEPT ![x] = Append(got[x], Head(queue[x]))]
        /\ queue' = [queue EXCEPT ![x] = Tail(queue[x])]
    BY <1>58 DEF Recv
  <2>2. CASE x # c
    <3>1. got'[c] = got[c] /\ queue'[c] = queue[c]
      BY <1>0, <2>1, <2>2
    <3>2. Taken(c)' = Taken(c) /\ First(c)'
      BY <1>g, <2>1, <3>1 DEF Dispatching
    <3> QED
      BY <1>1k, <2>1, <3>2 DEF Kept, Rest
  <2>3. CASE x = c
    <3>1. got'[c] = Append(got[c], Head(queue[c])) /\ queue'[c] = Tail(queue[c]) /\ queue[c] # <<>>
      BY <1>0, <2>1, <2>3
    <3>2. /\ Head(queue[c]) = queue[c][1] /\ Head(queue[c]) \in Frame /\ q > 0
          /\ Len(queue'[c]) = q - 1 /\ q - 1 \in Nat
          /\ \A i \in 1..(q - 1) : queue'[c][i] = queue[c][i + 1]
      BY <1>p, <1>2k, <3>1
    <3>3. /\ Len(got'[c]) = g + 1 /\ got'[c][g + 1] = Head(queue[c])
          /\ \A i \in 1..g : got'[c][i] = got[c][i]
      BY <1>p, <1>2k, <3>1, <3>2
    <3>4. Taken(c)' = Taken(c) /\ (Dispatching(c)' <=> Dispatching(c))
      <4>1. Dispatching(c)' <=> Dispatching(c)
        BY <2>1 DEF Dispatching
      <4>2. Taken(c)' = IF Dispatching(c)' THEN (g + 1) + (q - 1) + 1 ELSE (g + 1) + (q - 1)
        BY <1>3k, <3>2, <3>3
      <4> QED
        BY <1>2k, <3>2, <4>1, <4>2
    <3>5. ASSUME NEW i \in 1..Len(got'[c]) PROVE got'[c][i].n = i
      <4>1. CASE i \in 1..g
        BY <1>1k, <1>p, <3>3, <4>1 DEF First
      <4>2. CASE i = g + 1
        <5>1. queue[c][1].n = g + 1
          BY <1>1k, <1>p, <3>2 DEF First
        <5> QED
          BY <3>2, <3>3, <4>2, <5>1
      <4> QED
        BY <3>3, <4>1, <4>2
    <3>6. ASSUME NEW i \in 1..Len(queue'[c]) PROVE queue'[c][i].n = Len(got'[c]) + i
      <4>1. i \in Nat /\ i + 1 \in 1..q /\ queue'[c][i] = queue[c][i + 1]
        BY <3>2
      <4>2. queue[c][i + 1].n = g + (i + 1)
        BY <1>1k, <1>p, <4>1 DEF First
      <4> QED
        BY <3>3, <4>1, <4>2
    <3>7. First(c)'
      BY <1>1k, <2>1, <3>4, <3>5, <3>6 DEF First
    <3> QED
      BY <1>1k, <2>1, <3>4, <3>7 DEF Kept, Rest
  <2> QED
    BY <2>2, <2>3
<1>59. ASSUME UNCHANGED vars PROVE Kept(c)'
  BY <1>59, <1>u DEF vars
<1> QED
  BY <1>1, <1>2, <1>3, <1>4, <1>5, <1>6, <1>7, <1>8, <1>9, <1>10, <1>11, <1>12, <1>13, <1>14, <1>15, <1>16, <1>17, <1>18, <1>19, <1>20, <1>21, <1>22, <1>23, <1>24, <1>25, <1>26, <1>27, <1>28, <1>29, <1>30, <1>31, <1>32, <1>33, <1>34, <1>35, <1>36, <1>37, <1>38, <1>39, <1>40, <1>41, <1>42, <1>43, <1>44, <1>45, <1>46, <1>47, <1>48, <1>49, <1>50, <1>51, <1>52, <1>53, <1>54, <1>55, <1>56, <1>57, <1>58, <1>59 DEF Next, Teardown, Rx, Prober, Owner, Environment, CallStep

\* A channel starts with nothing in flight.
LEMMA InFlightInit == Init => InFlightInv
<1> SUFFICES ASSUME Init PROVE InFlightInv
  OBVIOUS
<1>1. Closing
  BY DEF Init, Closing
<1>2. inbox = <<>> /\ Len(inbox) = 0
  BY DEF Init
<1>3. ASSUME NEW c \in Calls PROVE Answers(c)
  <2>1. pc[c] = "idle" /\ reply[c] = "none" /\ answered[c] = "none" /\ sent = {}
    BY Populations DEF Init
  <2>2. OneReply(c) /\ ~ReplyComing(c)
    BY <1>2 DEF OneReply, ReplyComing
  <2> QED
    BY <2>1, <2>2 DEF Answers
<1>4. ASSUME NEW c \in Streams PROVE Coherent(c) /\ Kept(c)
  <2>1. routed[c] = 0 /\ Len(got[c]) = 0 /\ Len(queue[c]) = 0 /\ ~Dispatching(c)
    BY DEF Init, Dispatching
  <2>2. Taken(c) = 0
    BY <2>1 DEF Taken
  <2>3. First(c)
    BY <2>1, <2>2 DEF First
  <2>4. Rest(c)
    BY <1>2, <2>1, <2>2 DEF Rest
  <2>5. Coherent(c)
    BY <1>2, <2>1 DEF Coherent, Numbered, Ordered
  <2> QED
    BY <2>3, <2>4, <2>5 DEF Kept
<1> QED
  BY <1>1, <1>3, <1>4 DEF InFlightInv

\* What is in flight and who waits for it stay in line in every reachable state.
LEMMA InFlightInvariant == Spec => []InFlightInv
<1>1. TypeOK /\ Phase /\ Entries /\ InFlightInv /\ [Next]_vars => InFlightInv'
  <2> SUFFICES ASSUME TypeOK, Phase, Entries, InFlightInv, [Next]_vars PROVE InFlightInv'
    OBVIOUS
  <2>1. Closing /\ Closing' /\ TypeOK'
    BY ClosingStep, TypeStep DEF InFlightInv
  <2>2. ASSUME NEW c \in Calls PROVE Answers(c)'
    BY AnswersStep DEF InFlightInv
  <2>3. ASSUME NEW c \in Streams PROVE Coherent(c)'
    BY CoherentStep DEF InFlightInv
  <2>4. ASSUME NEW c \in Streams, Whole(c)' PROVE Kept(c)'
    <3>1. Answers(c) /\ Coherent(c) /\ (Whole(c) => Kept(c))
      BY Populations DEF InFlightInv
    <3> QED
      BY <2>1, <2>4, <3>1, KeptStep
  <2> QED
    BY <2>1, <2>2, <2>3, <2>4 DEF InFlightInv
<1> QED
  BY <1>1, InFlightInit, Invariant, PTL DEF Spec

\* However many calls share the channel, a reply the router sent to one that
\* still awaits it on a live channel is with it, or on its way to its waiter.
THEOREM RepliesDeliveredCorrect == Spec => []RepliesDelivered
<1>1. TypeOK /\ InFlightInv => RepliesDelivered
  <2> SUFFICES ASSUME TypeOK, InFlightInv, NEW c \in Calls,
                      pc[c] = "await", answered[c] # "none", ~closed, reply[c] # answered[c]
               PROVE  c \in waiters /\ \E i \in DOMAIN inbox : inbox[i].to = c /\ inbox[i].kind = answered[c]
    BY DEF RepliesDelivered
  <2>1. Answers(c) /\ inbox \in Seq(Frame)
    BY DEF InFlightInv, TypeOK
  <2>2. c \in waiters
    BY <2>1 DEF Answers
  <2>3. PICK i \in 1..Len(inbox) : IsReply(c, inbox[i])
    BY <2>1 DEF Answers, ReplyComing
  <2>4. inbox[i].to = c /\ inbox[i].kind = answered[c] /\ i \in DOMAIN inbox
    BY <2>1, <2>3 DEF Answers, OneReply, IsReply
  <2> QED
    BY <2>2, <2>4
<1> QED
  BY <1>1, InFlightInvariant, Invariant, PTL

\* What has reached the read loop, the queue and the reader, put together.
LEMMA PassedFrames ==
  ASSUME TypeOK, NEW c \in Streams, First(c)
  PROVE  Len(Passed(c)) = Taken(c) /\ \A i \in DOMAIN Passed(c) : Passed(c)[i].n = i
<1>1. got[c] \in Seq(Frame) /\ queue[c] \in Seq(Frame)
  BY TakenNat
<1>2. PICK g, q \in Nat : Len(got[c]) = g /\ Len(queue[c]) = q
  BY TakenNat
<1>3. PICK a \in Seq(Frame) :
        /\ a = got[c] \o queue[c] /\ Len(a) = g + q /\ DOMAIN a = 1..(g + q)
        /\ \A i \in 1..(g + q) : a[i] = IF i <= g THEN got[c][i] ELSE queue[c][i - g]
  <2>1. /\ got[c] \o queue[c] \in Seq(Frame) /\ Len(got[c] \o queue[c]) = g + q
        /\ \A i \in 1..(g + q) : (got[c] \o queue[c])[i] = IF i <= g THEN got[c][i] ELSE queue[c][i - g]
    BY <1>1, <1>2, ConcatProperties
  <2>2. DOMAIN (got[c] \o queue[c]) = 1..(g + q)
    BY <2>1, LenProperties
  <2> QED
    BY <2>1, <2>2
<1>4. ASSUME NEW i \in 1..(g + q) PROVE a[i].n = i
  <2>1. CASE i <= g
    <3>1. i \in 1..g
      BY <2>1
    <3>2. a[i] = got[c][i]
      BY <1>3, <2>1
    <3>3. got[c][i].n = i
      BY <1>2, <3>1 DEF First
    <3> QED
      BY <3>2, <3>3
  <2>2. CASE ~(i <= g)
    <3>1. i - g \in 1..q /\ g + (i - g) = i
      BY <2>2
    <3>2. queue[c][i - g].n = g + (i - g)
      BY <1>2, <3>1 DEF First
    <3> QED
      BY <1>3, <2>2, <3>1, <3>2
  <2> QED
    BY <2>1, <2>2
<1>5. CASE ~Dispatching(c)
  <2>1. Passed(c) = a \o <<>>
    BY <1>3, <1>5 DEF Passed
  <2>2. Passed(c) = a
    BY <1>3, <2>1
  <2>3. Taken(c) = g + q
    BY <1>2, <1>5 DEF Taken
  <2> QED
    BY <1>3, <1>4, <2>2, <2>3
<1>6. CASE Dispatching(c)
  <2>1. frame \in Frame
    BY <1>6 DEF Dispatching, TypeOK
  <2>2. Passed(c) = a \o <<frame>>
    BY <1>3, <1>6 DEF Passed
  <2>3. Taken(c) = g + q + 1 /\ frame.n = g + q + 1
    BY <1>2, <1>6 DEF Taken, First
  <2>4. <<frame>> \in Seq(Frame) /\ Len(<<frame>>) = 1 /\ <<frame>>[1] = frame
    BY <2>1
  <2>5. /\ a \o <<frame>> \in Seq(Frame) /\ Len(a \o <<frame>>) = g + q + 1
        /\ \A i \in 1..(g + q + 1) : (a \o <<frame>>)[i] = IF i <= g + q THEN a[i] ELSE <<frame>>[i - (g + q)]
    <3>1. /\ a \o <<frame>> \in Seq(Frame) /\ Len(a \o <<frame>>) = Len(a) + Len(<<frame>>)
          /\ \A i \in 1..(Len(a) + Len(<<frame>>)) :
               (a \o <<frame>>)[i] = IF i <= Len(a) THEN a[i] ELSE <<frame>>[i - Len(a)]
      BY <2>4, ConcatProperties
    <3>2. Len(a) = g + q /\ Len(a) + Len(<<frame>>) = g + q + 1
      BY <1>3, <2>4
    <3> QED
      BY <3>1, <3>2
  <2>6. DOMAIN (a \o <<frame>>) = 1..(g + q + 1)
    BY <2>5, LenProperties
  <2>7. ASSUME NEW i \in 1..(g + q + 1) PROVE (a \o <<frame>>)[i].n = i
    <3>1. CASE i <= g + q
      BY <1>4, <2>5, <3>1
    <3>2. CASE ~(i <= g + q)
      <4>1. i = g + q + 1 /\ i - (g + q) = 1
        BY <3>2
      <4>2. (a \o <<frame>>)[i] = frame
        BY <2>4, <2>5, <3>2, <4>1
      <4> QED
        BY <2>3, <4>1, <4>2
    <3> QED
      BY <3>1, <3>2
  <2> QED
    BY <2>2, <2>3, <2>5, <2>6, <2>7
<1> QED
  BY <1>5, <1>6

\* However many dials and binds share the channel, and whatever the queue
\* capacity: while nobody but the read loop closes it and no abort stops the
\* loop, each frame the router sends to an accepted call is with its reader, in
\* its queue, in the loop's hand or in flight, once and in order.
THEOREM NothingLostCorrect == Spec => []NothingLost
<1>1. TypeOK /\ InFlightInv => NothingLost
  <2> SUFFICES ASSUME TypeOK, InFlightInv, NEW c \in Streams,
                      pc[c] \in {"await", "hdrlock", "hdrwrite", "open"},
                      closer \in {"none", "rx"}, ~aborted
               PROVE  /\ \A i \in DOMAIN Passed(c) : Passed(c)[i].n = i
                      /\ {inbox[i].n : i \in Coming(c)} = (Len(Passed(c)) + 1)..routed[c]
                      /\ \A i, j \in Coming(c) : i < j => inbox[i].n < inbox[j].n
    BY DEF NothingLost
  <2>1. First(c) /\ Rest(c) /\ Coherent(c)
    BY DEF InFlightInv, Whole, Kept
  <2>2. Len(Passed(c)) = Taken(c) /\ \A i \in DOMAIN Passed(c) : Passed(c)[i].n = i
    BY <2>1, PassedFrames
  <2>3. Taken(c) \in Nat /\ routed[c] \in Nat /\ inbox \in Seq(Frame)
    BY TakenNat DEF TypeOK
  <2>4. \A i : i \in Coming(c) <=> i \in 1..Len(inbox) /\ ForConn(c, inbox[i])
    BY <2>3 DEF Coming
  <2>5. \A i, j \in Coming(c) : i < j => inbox[i].n < inbox[j].n
    BY <2>1, <2>4 DEF Coherent, Ordered
  <2>6. ASSUME NEW i \in Coming(c) PROVE inbox[i].n \in (Taken(c) + 1)..routed[c]
    <3>1. inbox[i].n \in 1..routed[c] /\ inbox[i].n > Taken(c)
      BY <2>1, <2>4 DEF Coherent, Numbered, Rest
    <3> QED
      BY <2>3, <3>1
  <2>7. ASSUME NEW m \in (Taken(c) + 1)..routed[c] PROVE \E i \in Coming(c) : inbox[i].n = m
    BY <2>1, <2>4 DEF Rest
  <2>8. {inbox[i].n : i \in Coming(c)} = (Taken(c) + 1)..routed[c]
    BY <2>6, <2>7
  <2> QED
    BY <2>2, <2>5, <2>8
<1> QED
  BY <1>1, InFlightInvariant, Invariant, PTL
=============================================================================
