---------------------------- MODULE SpliceProofs ----------------------------
(***************************************************************************)
(* A splice is a Pipe, for any number of chunks and whichever ends may be  *)
(* killed, fail, get stuck, stall or lack their header.  In order and FIN  *)
(* after everything are not inductive: what has to be added is where a     *)
(* frame stands in its sender's log (LogInv), how much of what was taken   *)
(* from the socket is in the log (WriterInv), and how much of the peer's   *)
(* log the reader has passed on (ReaderInv).                               *)
(***************************************************************************)
EXTENDS Splice, TLAPS

\* An end has one peer, whose peer it is.
LEMMA Peers == \A e \in Ends : Peer(e) \in Ends /\ Peer(e) # e /\ Peer(Peer(e)) = e
BY DEF Ends, Peer

\* The frames keep their kind, and a data frame has the number of its chunk.
LEMMA FrameKinds ==
  /\ Header \in Frames /\ Fin \in Frames /\ StateClosed \in Frames
  /\ \A n \in 1..MaxChunks : Data(n) \in Frames /\ Data(n).kind = "data" /\ Data(n).n = n
  /\ Header.kind = "header" /\ Fin.kind = "fin" /\ StateClosed.kind = "closed"
  /\ \A f \in Frames : /\ f.kind \in {"header", "data", "fin", "closed"}
                       /\ f.kind = "data" => f.n \in 1..MaxChunks
<1>1. \A n \in 1..MaxChunks : Data(n) \in Frames /\ Data(n).kind = "data" /\ Data(n).n = n
  BY DEF Frames, Data
<1>2. /\ Header \in Frames /\ Fin \in Frames /\ StateClosed \in Frames
      /\ Header.kind = "header" /\ Fin.kind = "fin" /\ StateClosed.kind = "closed"
  BY DEF Frames, Header, Fin, StateClosed
<1>3. ASSUME NEW f \in Frames
      PROVE  /\ f.kind \in {"header", "data", "fin", "closed"}
             /\ f.kind = "data" => f.n \in 1..MaxChunks
  <2>1. CASE f \in {Header, Fin, StateClosed}
    BY <2>1, <1>2
  <2>2. CASE \E n \in 1..MaxChunks : f = Data(n)
    BY <2>2, <1>1
  <2> QED
    BY <2>1, <2>2 DEF Frames
<1> QED
  BY <1>1, <1>2, <1>3

\* What stands in a queue after an Append.
LEMMA Appended ==
  ASSUME NEW S, NEW s \in Seq(S), NEW x \in S
  PROVE  /\ Append(s, x) \in Seq(S) /\ Len(Append(s, x)) = Len(s) + 1
         /\ \A i \in 1..Len(s) : Append(s, x)[i] = s[i]
         /\ Append(s, x)[Len(s) + 1] = x
OBVIOUS

\* A write puts one frame at the end of one log.
LEMMA LogGrows ==
  ASSUME TypeOK, NEW e \in Ends, NEW f \in Frames, log' = [log EXCEPT ![e] = Append(@, f)]
  PROVE  /\ log' \in [Ends -> Seq(Frames)]
         /\ Len(log'[e]) = Len(log[e]) + 1
         /\ \A i \in 1..Len(log[e]) : log'[e][i] = log[e][i]
         /\ log'[e][Len(log[e]) + 1] = f
         /\ \A d \in Ends : d # e => log'[d] = log[d]
         /\ \A d \in Ends : Len(log[d]) \in Nat /\ Len(log'[d]) \in Nat /\ Len(log'[d]) >= Len(log[d])
<1>1. log \in [Ends -> Seq(Frames)]
  BY DEF TypeOK
<1>2. log[e] \in Seq(Frames) /\ log'[e] = Append(log[e], f)
  BY <1>1
<1>3. \A d \in Ends : d # e => log'[d] = log[d]
  BY <1>1
<1>4. \A d \in Ends : log'[d] \in Seq(Frames)
  BY <1>1, <1>2, <1>3, Appended
<1>5. log' \in [Ends -> Seq(Frames)]
  BY <1>1, <1>4
<1> QED
  BY <1>1, <1>2, <1>3, <1>5, Appended

----------------------------------------------------------------------------
(* The inductive invariant.                                                *)

\* The stream headers at the head of an end's log: one or none.
Headers(e) == IF Len(log[e]) > 0 /\ log[e][1].kind = "header" THEN 1 ELSE 0

\* Data stands in the log by the number of its chunk, right after the header; a
\* FIN stands after every chunk that was taken from the socket, and a
\* StateClosed last.
LogInv(e) ==
  \A i \in 1..Len(log[e]) :
    /\ log[e][i].kind = "header" => i = 1
    /\ log[e][i].kind = "data" => log[e][i].n = i - Headers(e) /\ log[e][i].n <= taken[e]
    /\ log[e][i].kind = "fin" => s2z[e] = "done" /\ i - Headers(e) = taken[e] + 1
    /\ log[e][i].kind = "closed" => ending[e] = "closed" /\ i = Len(log[e])

\* Until the write side is closed the log holds what was taken from the socket,
\* but for the chunk that is being written.  A chunk is lost only if no FIN
\* can follow it: the write side is closed already, or the channel is dead.
WriterInv(e) ==
  /\ s2z[e] = "read" => Len(log[e]) - Headers(e) = taken[e]
  /\ s2z[e] = "lock" => Len(log[e]) - Headers(e) = taken[e] - 1
  /\ s2z[e] = "closewrite" => Len(log[e]) - Headers(e) = taken[e] \/ sentFin[e] \/ ~up
  /\ s2z[e] = "finlock" => Len(log[e]) - Headers(e) = taken[e] \/ ~up
  /\ ending[e] # "join" => s2z[e] = "done"

\* The frames of the peer that an end has read, without the header.
Consumed(e) == IF next[e] = 0 THEN 0 ELSE next[e] - Headers(Peer(e))

\* While the reader goes on, what it has written to its socket is what it has
\* read, and it stopped at a FIN only with everything written.
ReaderInv(e) ==
  /\ readEnd[e] # "none" => z2s[e] \in {"shutdown", "done"}
  /\ \A i \in 1..Len(got[e]) : got[e][i] = i
  /\ Len(got[e]) <= taken[Peer(e)] /\ hand[e] <= taken[Peer(e)]
  /\ z2s[e] = "read" => Len(got[e]) = Consumed(e)
  /\ z2s[e] = "write" => hand[e] = Len(got[e]) + 1 /\ hand[e] = Consumed(e)
  /\ readEnd[e] = "fin" => s2z[Peer(e)] = "done" /\ Len(got[e]) = taken[Peer(e)]

Inv == TypeOK /\ \A e \in Ends : LogInv(e) /\ WriterInv(e) /\ ReaderInv(e)

\* A step is a step of one end, the loss of the channel, or a stutter.
LEMMA Steps ==
  ASSUME [Next]_vars
  PROVE  \/ \E e \in Ends :
              \/ ReadSocket(e) \/ SocketEnds(e) \/ WriteData(e)
              \/ CloseWrite(e) \/ WriteFin(e) \/ KillSocketToZiti(e)
              \/ Read(e) \/ ReadEof(e) \/ ShutdownSocket(e)
              \/ KillZitiToSocket(e) \/ WriteSocket(e) \/ WriteSocketErr(e)
              \/ Close(e) \/ WriteStateClosed(e) \/ Kill(e) \/ Stall(e)
         \/ ChannelDies
         \/ UNCHANGED vars
BY DEF Next, SocketToZiti, ZitiToSocket, FullClose

\* No step breaks the types, nor leaves a chunk in the hand of a pump that is
\* not writing it.
LEMMA TypeStep == Inv /\ [Next]_vars => TypeOK'
<1> SUFFICES ASSUME Inv, [Next]_vars PROVE TypeOK'
  OBVIOUS
<1> USE Peers, SpliceAssumption
<1>0. TypeOK
  BY DEF Inv
<1>1. ASSUME NEW e \in Ends, ReadSocket(e) PROVE TypeOK'
  <2>1. taken[e] + 1 \in 0..MaxChunks
    BY <1>0, <1>1 DEF ReadSocket, TypeOK
  <2> QED
    BY <1>0, <1>1, <2>1 DEF ReadSocket, TypeOK
<1>2. ASSUME NEW e \in Ends, SocketEnds(e) PROVE TypeOK'
  BY <1>0, <1>2 DEF SocketEnds, TypeOK
<1>3. ASSUME NEW e \in Ends, WriteData(e) PROVE TypeOK'
  <2>1. Data(taken[e]) \in Frames
    <3>1. Len(log[e]) \in Nat /\ Headers(e) \in {0, 1} /\ Headers(e) <= Len(log[e])
      BY <1>0 DEF TypeOK, Headers
    <3>2. taken[e] \in 0..MaxChunks /\ Len(log[e]) - Headers(e) = taken[e] - 1
      BY <1>0, <1>3 DEF TypeOK, WriteData, Inv, WriterInv
    <3>3. taken[e] \in 1..MaxChunks
      BY <3>1, <3>2
    <3> QED
      BY <3>3, FrameKinds
  <2>2. /\ log' \in [Ends -> Seq(Frames)]
        /\ \A d \in Ends : next[d] <= Len(log'[Peer(d)])
    <3>0. \A d \in Ends : next[d] \in Nat /\ Len(log[d]) \in Nat /\ next[d] <= Len(log[Peer(d)])
      BY <1>0 DEF TypeOK
    <3>1. CASE up
      <4>1. log' = [log EXCEPT ![e] = Append(@, Data(taken[e]))]
        BY <1>3, <3>1 DEF WriteData
      <4>2. /\ log' \in [Ends -> Seq(Frames)]
            /\ \A d \in Ends : Len(log'[d]) \in Nat /\ Len(log'[d]) >= Len(log[d])
        BY <1>0, <2>1, <4>1, LogGrows
      <4>3. ASSUME NEW d \in Ends PROVE next[d] <= Len(log'[Peer(d)])
        <5>1. /\ next[d] \in Nat /\ Len(log[Peer(d)]) \in Nat /\ next[d] <= Len(log[Peer(d)])
              /\ Len(log'[Peer(d)]) \in Nat /\ Len(log'[Peer(d)]) >= Len(log[Peer(d)])
          BY <3>0, <4>2
        <5> QED
          BY <5>1
      <4> QED
        BY <4>2, <4>3
    <3>2. CASE ~up
      BY <1>0, <1>3, <3>2 DEF WriteData, TypeOK
    <3> QED
      BY <3>1, <3>2
  <2> QED
    BY <1>0, <1>3, <2>2 DEF WriteData, TypeOK
<1>4. ASSUME NEW e \in Ends, CloseWrite(e) PROVE TypeOK'
  BY <1>0, <1>4 DEF CloseWrite, TypeOK
<1>5. ASSUME NEW e \in Ends, WriteFin(e) PROVE TypeOK'
  <2>1. Fin \in Frames
    BY FrameKinds
  <2>2. /\ log' \in [Ends -> Seq(Frames)]
        /\ \A d \in Ends : next[d] <= Len(log'[Peer(d)])
    <3>0. \A d \in Ends : next[d] \in Nat /\ Len(log[d]) \in Nat /\ next[d] <= Len(log[Peer(d)])
      BY <1>0 DEF TypeOK
    <3>1. CASE up
      <4>1. log' = [log EXCEPT ![e] = Append(@, Fin)]
        BY <1>5, <3>1 DEF WriteFin
      <4>2. /\ log' \in [Ends -> Seq(Frames)]
            /\ \A d \in Ends : Len(log'[d]) \in Nat /\ Len(log'[d]) >= Len(log[d])
        BY <1>0, <2>1, <4>1, LogGrows
      <4>3. ASSUME NEW d \in Ends PROVE next[d] <= Len(log'[Peer(d)])
        <5>1. /\ next[d] \in Nat /\ Len(log[Peer(d)]) \in Nat /\ next[d] <= Len(log[Peer(d)])
              /\ Len(log'[Peer(d)]) \in Nat /\ Len(log'[Peer(d)]) >= Len(log[Peer(d)])
          BY <3>0, <4>2
        <5> QED
          BY <5>1
      <4> QED
        BY <4>2, <4>3
    <3>2. CASE ~up
      BY <1>0, <1>5, <3>2 DEF WriteFin, TypeOK
    <3> QED
      BY <3>1, <3>2
  <2> QED
    BY <1>0, <1>5, <2>2 DEF WriteFin, TypeOK
<1>6. ASSUME NEW e \in Ends, KillSocketToZiti(e) PROVE TypeOK'
  BY <1>0, <1>6 DEF KillSocketToZiti, TypeOK
<1>7. ASSUME NEW e \in Ends, Read(e) PROVE TypeOK'
  <2> DEFINE f == log[Peer(e)][next[e] + 1]
  <2>0. next[e] \in Nat /\ log[Peer(e)] \in Seq(Frames)
    BY <1>0 DEF TypeOK
  <2>1. f \in Frames /\ next[e] + 1 <= Len(log[Peer(e)])
    BY <1>7, <2>0 DEF Read, Inbound
  <2>2. f.kind = "data" => f.n \in 1..MaxChunks
    BY <2>1, FrameKinds
  <2>3. next' \in [Ends -> Nat] /\ \A d \in Ends : next'[d] <= Len(log'[Peer(d)])
    <3>1. next' = [next EXCEPT ![e] = @ + 1] /\ log' = log
      BY <1>7 DEF Read
    <3>2. next \in [Ends -> Nat] /\ \A d \in Ends : next[d] <= Len(log[Peer(d)])
      BY <1>0 DEF TypeOK
    <3> QED
      BY <2>0, <2>1, <3>1, <3>2
  <2>4. sentFin' \in [Ends -> BOOLEAN]
    BY <1>0, <1>7 DEF Read, TypeOK
  <2>5. /\ z2s' \in [Ends -> {"read", "write", "shutdown", "done"}]
        /\ rxKey' \in [Ends -> BOOLEAN]
        /\ hand' \in [Ends -> 0..MaxChunks]
        /\ readEnd' \in [Ends -> {"none", "fin", "closed", "eof", "crypto"}]
        /\ \A d \in Ends : z2s'[d] = "write" <=> hand'[d] # 0
    <3>1. CASE StopReading(e, "closed") /\ UNCHANGED <<rxKey, hand>>
      BY <1>0, <1>7, <3>1 DEF Read, TypeOK, StopReading
    <3>2. CASE rxKey' = [rxKey EXCEPT ![e] = FALSE] /\ UNCHANGED <<z2s, hand, readEnd>>
      BY <1>0, <1>7, <3>2 DEF Read, TypeOK
    <3>3. CASE StopReading(e, "crypto") /\ UNCHANGED <<rxKey, hand>>
      BY <1>0, <1>7, <3>3 DEF Read, TypeOK, StopReading
    <3>4. CASE StopReading(e, "fin") /\ UNCHANGED <<rxKey, hand>>
      BY <1>0, <1>7, <3>4 DEF Read, TypeOK, StopReading
    <3>5. CASE /\ f.kind = "data" /\ hand' = [hand EXCEPT ![e] = f.n]
               /\ z2s' = [z2s EXCEPT ![e] = "write"] /\ UNCHANGED <<rxKey, readEnd>>
      BY <1>0, <2>2, <3>5 DEF TypeOK
    <3> QED
      BY <1>7, <3>1, <3>2, <3>3, <3>4, <3>5 DEF Read
  <2> QED
    BY <1>0, <1>7, <2>3, <2>4, <2>5 DEF Read, TypeOK
<1>8. ASSUME NEW e \in Ends, ReadEof(e) PROVE TypeOK'
  BY <1>0, <1>8 DEF ReadEof, StopReading, TypeOK
<1>9. ASSUME NEW e \in Ends, ShutdownSocket(e) PROVE TypeOK'
  BY <1>0, <1>9 DEF ShutdownSocket, TypeOK
<1>10. ASSUME NEW e \in Ends, KillZitiToSocket(e) PROVE TypeOK'
  BY <1>0, <1>10 DEF KillZitiToSocket, TypeOK
<1>11. ASSUME NEW e \in Ends, WriteSocket(e) PROVE TypeOK'
  <2>1. hand[e] \in 1..MaxChunks
    BY <1>0, <1>11 DEF WriteSocket, TypeOK
  <2>2. got' \in [Ends -> Seq(1..MaxChunks)]
    BY <1>0, <1>11, <2>1, Appended DEF WriteSocket, TypeOK
  <2> QED
    BY <1>0, <1>11, <2>2 DEF WriteSocket, TypeOK
<1>12. ASSUME NEW e \in Ends, WriteSocketErr(e) PROVE TypeOK'
  BY <1>0, <1>12 DEF WriteSocketErr, TypeOK
<1>13. ASSUME NEW e \in Ends, Close(e) PROVE TypeOK'
  BY <1>0, <1>13 DEF Close, TypeOK
<1>14. ASSUME NEW e \in Ends, WriteStateClosed(e) PROVE TypeOK'
  <2>1. StateClosed \in Frames
    BY FrameKinds
  <2>2. /\ log' \in [Ends -> Seq(Frames)]
        /\ \A d \in Ends : next[d] <= Len(log'[Peer(d)])
    <3>0. \A d \in Ends : next[d] \in Nat /\ Len(log[d]) \in Nat /\ next[d] <= Len(log[Peer(d)])
      BY <1>0 DEF TypeOK
    <3>1. CASE up
      <4>1. log' = [log EXCEPT ![e] = Append(@, StateClosed)]
        BY <1>14, <3>1 DEF WriteStateClosed
      <4>2. /\ log' \in [Ends -> Seq(Frames)]
            /\ \A d \in Ends : Len(log'[d]) \in Nat /\ Len(log'[d]) >= Len(log[d])
        BY <1>0, <2>1, <4>1, LogGrows
      <4>3. ASSUME NEW d \in Ends PROVE next[d] <= Len(log'[Peer(d)])
        <5>1. /\ next[d] \in Nat /\ Len(log[Peer(d)]) \in Nat /\ next[d] <= Len(log[Peer(d)])
              /\ Len(log'[Peer(d)]) \in Nat /\ Len(log'[Peer(d)]) >= Len(log[Peer(d)])
          BY <3>0, <4>2
        <5> QED
          BY <5>1
      <4> QED
        BY <4>2, <4>3
    <3>2. CASE ~up
      BY <1>0, <1>14, <3>2 DEF WriteStateClosed, TypeOK
    <3> QED
      BY <3>1, <3>2
  <2> QED
    BY <1>0, <1>14, <2>2 DEF WriteStateClosed, TypeOK
<1>15. ASSUME NEW e \in Ends, Kill(e) PROVE TypeOK'
  BY <1>0, <1>15 DEF Kill, TypeOK, pumps
<1>16. CASE ChannelDies
  BY <1>0, <1>16 DEF ChannelDies, TypeOK, pumps
<1>17. CASE UNCHANGED vars
  BY <1>0, <1>17 DEF vars, pumps, TypeOK
<1>18. ASSUME NEW e \in Ends, Stall(e) PROVE TypeOK'
  BY <1>0, <1>18 DEF Stall, TypeOK, pumps
<1> QED
  BY <1>1, <1>2, <1>3, <1>4, <1>5, <1>6, <1>7, <1>8, <1>9, <1>10, <1>11, <1>12, <1>13, <1>14, <1>15, <1>16, <1>17, <1>18, Steps

\* The header of a log is written before anything else, or never.
LEMMA HeadersKept ==
  ASSUME TypeOK, NEW e \in Ends, NEW f \in Frames, f.kind # "header",
         log' = [log EXCEPT ![e] = Append(@, f)]
  PROVE  \A d \in Ends : Headers(d)' = Headers(d)
<1>1. \A d \in Ends : d # e => Headers(d)' = Headers(d)
  BY LogGrows DEF Headers
<1>2. Headers(e)' = Headers(e)
  <2>1. CASE Len(log[e]) = 0
    BY <2>1, LogGrows DEF Headers
  <2>2. CASE Len(log[e]) > 0
    BY <2>2, LogGrows DEF Headers
  <2> QED
    BY <2>1, <2>2, LogGrows
<1> QED
  BY <1>1, <1>2

\* The numbers that the invariant speaks of.
LEMMA Numbers ==
  TypeOK => \A e \in Ends :
    /\ Len(log[e]) \in Nat /\ Len(got[e]) \in Nat /\ next[e] \in Nat
    /\ taken[e] \in Nat /\ hand[e] \in Nat
    /\ Headers(e) \in {0, 1} /\ Headers(e) <= Len(log[e])
    /\ \A i \in 1..Len(log[e]) : log[e][i] \in Frames
    /\ next[e] <= Len(log[Peer(e)])
BY Peers, SpliceAssumption DEF TypeOK, Headers

\* An end goes one way: it takes nothing from its socket once its pump is done,
\* and it stays closed.
Onward(e) ==
  /\ taken'[e] \in Nat /\ taken'[e] >= taken[e]
  /\ s2z[e] = "done" => s2z'[e] = "done" /\ taken'[e] = taken[e]
  /\ ending[e] = "closed" => ending'[e] = "closed"

\* Every step of a pump, the channel or the kill goes that way.
LEMMA OnwardStep == TypeOK /\ [Next]_vars => \A d \in Ends : Onward(d)
<1> SUFFICES ASSUME TypeOK, [Next]_vars, NEW d \in Ends PROVE Onward(d)
  OBVIOUS
<1>a. taken[d] \in Nat
  BY SpliceAssumption DEF TypeOK
<1>1. ASSUME NEW e \in Ends, ReadSocket(e) PROVE Onward(d)
  BY <1>a, <1>1 DEF ReadSocket, TypeOK, Onward
<1>2. ASSUME NEW e \in Ends, SocketEnds(e) PROVE Onward(d)
  BY <1>a, <1>2 DEF SocketEnds, TypeOK, Onward
<1>3. ASSUME NEW e \in Ends, WriteData(e) PROVE Onward(d)
  BY <1>a, <1>3 DEF WriteData, TypeOK, Onward
<1>4. ASSUME NEW e \in Ends, CloseWrite(e) PROVE Onward(d)
  BY <1>a, <1>4 DEF CloseWrite, TypeOK, Onward
<1>5. ASSUME NEW e \in Ends, WriteFin(e) PROVE Onward(d)
  BY <1>a, <1>5 DEF WriteFin, TypeOK, Onward
<1>6. ASSUME NEW e \in Ends, KillSocketToZiti(e) PROVE Onward(d)
  BY <1>a, <1>6 DEF KillSocketToZiti, TypeOK, Onward
<1>7. ASSUME NEW e \in Ends, Read(e) PROVE Onward(d)
  BY <1>a, <1>7 DEF Read, TypeOK, Onward, StopReading
<1>8. ASSUME NEW e \in Ends, ReadEof(e) PROVE Onward(d)
  BY <1>a, <1>8 DEF ReadEof, TypeOK, Onward, StopReading
<1>9. ASSUME NEW e \in Ends, ShutdownSocket(e) PROVE Onward(d)
  BY <1>a, <1>9 DEF ShutdownSocket, TypeOK, Onward
<1>10. ASSUME NEW e \in Ends, KillZitiToSocket(e) PROVE Onward(d)
  BY <1>a, <1>10 DEF KillZitiToSocket, TypeOK, Onward
<1>11. ASSUME NEW e \in Ends, WriteSocket(e) PROVE Onward(d)
  BY <1>a, <1>11 DEF WriteSocket, TypeOK, Onward
<1>12. ASSUME NEW e \in Ends, WriteSocketErr(e) PROVE Onward(d)
  BY <1>a, <1>12 DEF WriteSocketErr, TypeOK, Onward
<1>13. ASSUME NEW e \in Ends, Close(e) PROVE Onward(d)
  BY <1>a, <1>13 DEF Close, TypeOK, Onward
<1>14. ASSUME NEW e \in Ends, WriteStateClosed(e) PROVE Onward(d)
  BY <1>a, <1>14 DEF WriteStateClosed, TypeOK, Onward
<1>15. ASSUME NEW e \in Ends, Kill(e) PROVE Onward(d)
  BY <1>a, <1>15 DEF Kill, TypeOK, Onward, pumps
<1>16. CASE ChannelDies
  BY <1>a, <1>16 DEF ChannelDies, pumps, Onward
<1>17. CASE UNCHANGED vars
  BY <1>a, <1>17 DEF vars, pumps, Onward
<1>18. ASSUME NEW e \in Ends, Stall(e) PROVE Onward(d)
  BY <1>a, <1>18 DEF Stall, TypeOK, Onward, pumps
<1> QED
  BY <1>1, <1>2, <1>3, <1>4, <1>5, <1>6, <1>7, <1>8, <1>9, <1>10, <1>11, <1>12, <1>13, <1>14, <1>15, <1>16, <1>17, <1>18, Steps

\* A log that is not written to stays as LogInv says, if its sender takes
\* nothing more from the socket once it is done, and stays closed.
LEMMA LogFrame ==
  ASSUME TypeOK, NEW d \in Ends, LogInv(d), log'[d] = log[d],
         Onward(d)
  PROVE  LogInv(d)'
<1>1. Headers(d)' = Headers(d)
  BY DEF Headers
<1>2. taken[d] \in Nat /\ Headers(d) \in {0, 1}
  BY Numbers
<1> SUFFICES ASSUME NEW i \in 1..Len(log[d])
             PROVE  /\ log[d][i].kind = "header" => i = 1
                    /\ log[d][i].kind = "data" => log[d][i].n = i - Headers(d) /\ log[d][i].n <= taken'[d]
                    /\ log[d][i].kind = "fin" => s2z'[d] = "done" /\ i - Headers(d) = taken'[d] + 1
                    /\ log[d][i].kind = "closed" => ending'[d] = "closed" /\ i = Len(log[d])
  BY <1>1 DEF LogInv
<1> QED
  BY <1>2 DEF LogInv, Onward

\* A reader that does not move stays as ReaderInv says, if its peer's header
\* stays and the peer takes nothing more from its socket once it is done.
LEMMA ReaderFrame ==
  ASSUME TypeOK, NEW d \in Ends, ReaderInv(d),
         z2s'[d] = z2s[d], hand'[d] = hand[d], got'[d] = got[d],
         readEnd'[d] = readEnd[d], next'[d] = next[d],
         Headers(Peer(d))' = Headers(Peer(d)), Onward(Peer(d))
  PROVE  ReaderInv(d)'
<1>1. taken[Peer(d)] \in Nat /\ Len(got[d]) \in Nat /\ hand[d] \in Nat
  BY Numbers, Peers
<1>2. Consumed(d)' = Consumed(d)
  BY DEF Consumed
<1> QED
  BY <1>1, <1>2 DEF ReaderInv, Onward

\* A reader may stop at any time, but for the promise that comes with a FIN.
LEMMA ReaderStops ==
  ASSUME TypeOK, NEW d \in Ends, ReaderInv(d),
         z2s'[d] \in {"shutdown", "done"}, hand'[d] \in {0, hand[d]}, got'[d] = got[d],
         taken' = taken, s2z' = s2z,
         readEnd'[d] = "fin" => /\ s2z[Peer(d)] = "done"
                                /\ Len(got[d]) = taken[Peer(d)]
  PROVE  ReaderInv(d)'
<1>1. taken[Peer(d)] \in Nat /\ Len(got[d]) \in Nat /\ hand[d] \in Nat
  BY Numbers, Peers
<1> QED
  BY <1>1 DEF ReaderInv

\* The invariant is kept by every step.
LEMMA InvStep == Inv /\ [Next]_vars => Inv'
<1> SUFFICES ASSUME Inv, [Next]_vars PROVE \A e \in Ends : LogInv(e)' /\ WriterInv(e)' /\ ReaderInv(e)'
  BY TypeStep DEF Inv
<1> USE Peers
<1>0. TypeOK /\ \A e \in Ends : LogInv(e) /\ WriterInv(e) /\ ReaderInv(e)
  BY DEF Inv
<1>a. \A e \in Ends : /\ Len(log[e]) \in Nat /\ Len(got[e]) \in Nat /\ next[e] \in Nat
                      /\ taken[e] \in Nat /\ hand[e] \in Nat
                      /\ Headers(e) \in {0, 1} /\ Headers(e) <= Len(log[e])
                      /\ \A i \in 1..Len(log[e]) : log[e][i] \in Frames
                      /\ next[e] <= Len(log[Peer(e)])
  BY <1>0, Numbers
<1>b. \A e \in Ends : Onward(e)
  BY <1>0, OnwardStep
<1>1. ASSUME NEW e \in Ends, ReadSocket(e), NEW d \in Ends
      PROVE  LogInv(d)' /\ WriterInv(d)' /\ ReaderInv(d)'
  <2>1. log' = log /\ \A c \in Ends : Headers(c)' = Headers(c)
    BY <1>1 DEF ReadSocket, Headers
  <2>2. LogInv(d)'
    BY <1>0, <1>b, <2>1, LogFrame
  <2>3. WriterInv(d)'
    <3>1. CASE d # e
      BY <1>0, <1>1, <2>1, <3>1 DEF ReadSocket, TypeOK, WriterInv
    <3>2. CASE d = e
      <4>1. /\ Len(log[e]) - Headers(e) = taken[e] /\ ending'[e] = "join" /\ taken'[e] = taken[e] + 1
            /\ s2z'[e] = IF sentFin[e] THEN "closewrite" ELSE "lock"
            /\ sentFin' = sentFin
        BY <1>0, <1>1 DEF ReadSocket, TypeOK, WriterInv
      <4>2. Len(log[e]) - Headers(e) = taken'[e] - 1
        BY <1>a, <4>1
      <4> QED
        BY <2>1, <3>2, <4>1, <4>2 DEF WriterInv
    <3> QED
      BY <3>1, <3>2
  <2>4. /\ z2s'[d] = z2s[d] /\ hand'[d] = hand[d] /\ got'[d] = got[d]
        /\ readEnd'[d] = readEnd[d] /\ next'[d] = next[d]
    BY <1>1 DEF ReadSocket
  <2> QED
    BY <1>0, <1>b, <2>1, <2>2, <2>3, <2>4, ReaderFrame
<1>2. ASSUME NEW e \in Ends, SocketEnds(e), NEW d \in Ends
      PROVE  LogInv(d)' /\ WriterInv(d)' /\ ReaderInv(d)'
  <2>1. log' = log /\ \A c \in Ends : Headers(c)' = Headers(c)
    BY <1>2 DEF SocketEnds, Headers
  <2>2. LogInv(d)'
    BY <1>0, <1>b, <2>1, LogFrame
  <2>3. WriterInv(d)'
    BY <1>0, <1>a, <1>2, <2>1 DEF SocketEnds, TypeOK, WriterInv
  <2>4. /\ z2s'[d] = z2s[d] /\ hand'[d] = hand[d] /\ got'[d] = got[d]
        /\ readEnd'[d] = readEnd[d] /\ next'[d] = next[d]
    BY <1>2 DEF SocketEnds
  <2> QED
    BY <1>0, <1>b, <2>1, <2>2, <2>3, <2>4, ReaderFrame
<1>3. ASSUME NEW e \in Ends, WriteData(e), NEW d \in Ends
      PROVE  LogInv(d)' /\ WriterInv(d)' /\ ReaderInv(d)'
  <2>1. CASE ~up
    <3>1. log' = log /\ \A c \in Ends : Headers(c)' = Headers(c)
      BY <1>3, <2>1 DEF WriteData, Headers
    <3>2. LogInv(d)'
      BY <1>0, <1>b, <3>1, LogFrame
    <3>3. WriterInv(d)'
      BY <1>0, <1>a, <1>3, <2>1, <3>1 DEF WriteData, TypeOK, WriterInv
    <3>4. /\ z2s'[d] = z2s[d] /\ hand'[d] = hand[d] /\ got'[d] = got[d]
          /\ readEnd'[d] = readEnd[d] /\ next'[d] = next[d]
      BY <1>3 DEF WriteData
    <3> QED
      BY <1>0, <1>b, <3>1, <3>2, <3>3, <3>4, ReaderFrame
  <2>2. CASE up
    <3> DEFINE f == Data(taken[e])
    <3>0. Len(log[e]) - Headers(e) = taken[e] - 1 /\ taken[e] \in 1..MaxChunks
      <4>1. Len(log[e]) - Headers(e) = taken[e] - 1
        BY <1>0, <1>3 DEF WriteData, WriterInv
      <4>2. taken[e] \in 0..MaxChunks
        BY <1>0 DEF TypeOK
      <4> QED
        BY <1>a, <4>1, <4>2
    <3>1. f \in Frames /\ f.kind = "data" /\ f.n = taken[e]
      BY <3>0, FrameKinds
    <3>2. log' = [log EXCEPT ![e] = Append(@, f)]
      BY <1>3, <2>2 DEF WriteData
    <3>3. \A c \in Ends : Headers(c)' = Headers(c)
      BY <1>0, <3>1, <3>2, HeadersKept
    <3>4. /\ Len(log'[e]) = Len(log[e]) + 1
          /\ \A i \in 1..Len(log[e]) : log'[e][i] = log[e][i]
          /\ log'[e][Len(log[e]) + 1] = f
          /\ \A c \in Ends : c # e => log'[c] = log[c]
      BY <1>0, <3>1, <3>2, LogGrows
    <3>5. WriterInv(d)'
      <4>1. CASE d # e
        BY <1>0, <1>3, <3>3, <3>4, <4>1 DEF WriteData, TypeOK, WriterInv
      <4>2. CASE d = e
        <5>1. s2z'[e] = "read" /\ taken'[e] = taken[e] /\ ending'[e] = ending[e] /\ ending[e] = "join"
          BY <1>0, <1>3, <2>2 DEF WriteData, TypeOK, WriterInv
        <5>2. Len(log'[e]) - Headers(e) = taken[e]
          BY <1>a, <3>0, <3>4
        <5> QED
          BY <3>3, <4>2, <5>1, <5>2 DEF WriterInv
      <4> QED
        BY <4>1, <4>2
    <3>6. LogInv(d)'
      <4>1. CASE d # e
        BY <1>0, <1>b, <3>4, <4>1, LogFrame
      <4>2. CASE d = e
        <5>1. /\ Len(log[e]) + 1 - Headers(e) = taken[e] /\ taken' = taken
              /\ s2z[e] # "done" /\ ending' = ending /\ ending[e] # "closed"
          <6>1. taken' = taken /\ s2z[e] # "done" /\ ending' = ending /\ ending[e] # "closed"
            BY <1>0, <1>3 DEF WriteData, WriterInv
          <6> QED
            BY <1>a, <3>0, <6>1
        <5>2. ASSUME NEW i \in 1..Len(log'[e])
              PROVE  /\ log'[e][i].kind = "header" => i = 1
                     /\ log'[e][i].kind = "data" => log'[e][i].n = i - Headers(e) /\ log'[e][i].n <= taken'[e]
                     /\ log'[e][i].kind = "fin" => s2z'[e] = "done" /\ i - Headers(e) = taken'[e] + 1
                     /\ log'[e][i].kind = "closed" => ending'[e] = "closed" /\ i = Len(log'[e])
          <6>1. CASE i = Len(log[e]) + 1
            <7>1. log'[e][i] = f /\ i = Len(log'[e])
              BY <3>4, <6>1
            <7>2. taken[e] \in Nat /\ Len(log[e]) \in Nat /\ Headers(e) \in {0, 1}
              BY <1>a
            <7>3. i - Headers(e) = Len(log[e]) + 1 - Headers(e)
              BY <6>1, <7>2
            <7> QED
              BY <3>1, <5>1, <7>1, <7>2, <7>3
          <6>2. CASE i \in 1..Len(log[e])
            <7>1. log'[e][i] = log[e][i]
              BY <3>4, <6>2
            <7>2. /\ log[e][i].kind = "header" => i = 1
                  /\ log[e][i].kind = "data" => log[e][i].n = i - Headers(e) /\ log[e][i].n <= taken[e]
                  /\ log[e][i].kind = "fin" => s2z[e] = "done" /\ i - Headers(e) = taken[e] + 1
                  /\ log[e][i].kind = "closed" => ending[e] = "closed"
              BY <1>0, <6>2 DEF LogInv
            <7> QED
              BY <5>1, <7>1, <7>2
          <6> QED
            BY <1>a, <3>4, <6>1, <6>2
        <5> QED
          BY <3>3, <4>2, <5>2 DEF LogInv
      <4> QED
        BY <4>1, <4>2
    <3>7. /\ z2s'[d] = z2s[d] /\ hand'[d] = hand[d] /\ got'[d] = got[d]
          /\ readEnd'[d] = readEnd[d] /\ next'[d] = next[d]
      BY <1>3 DEF WriteData
    <3>8. ReaderInv(d)'
      BY <1>0, <1>b, <3>3, <3>7, ReaderFrame
    <3> QED
      BY <3>5, <3>6, <3>8
  <2> QED
    BY <2>1, <2>2
<1>4. ASSUME NEW e \in Ends, CloseWrite(e), NEW d \in Ends
      PROVE  LogInv(d)' /\ WriterInv(d)' /\ ReaderInv(d)'
  <2>1. log' = log /\ \A c \in Ends : Headers(c)' = Headers(c)
    BY <1>4 DEF CloseWrite, Headers
  <2>2. LogInv(d)'
    BY <1>0, <1>b, <2>1, LogFrame
  <2>3. WriterInv(d)'
    BY <1>0, <1>a, <1>4, <2>1 DEF CloseWrite, TypeOK, WriterInv
  <2>4. /\ z2s'[d] = z2s[d] /\ hand'[d] = hand[d] /\ got'[d] = got[d]
        /\ readEnd'[d] = readEnd[d] /\ next'[d] = next[d]
    BY <1>4 DEF CloseWrite
  <2> QED
    BY <1>0, <1>b, <2>1, <2>2, <2>3, <2>4, ReaderFrame
<1>5. ASSUME NEW e \in Ends, WriteFin(e), NEW d \in Ends
      PROVE  LogInv(d)' /\ WriterInv(d)' /\ ReaderInv(d)'
  <2>1. CASE ~up
    <3>1. log' = log /\ \A c \in Ends : Headers(c)' = Headers(c)
      BY <1>5, <2>1 DEF WriteFin, Headers
    <3>2. LogInv(d)'
      BY <1>0, <1>b, <3>1, LogFrame
    <3>3. WriterInv(d)'
      BY <1>0, <1>a, <1>5, <2>1, <3>1 DEF WriteFin, TypeOK, WriterInv
    <3>4. /\ z2s'[d] = z2s[d] /\ hand'[d] = hand[d] /\ got'[d] = got[d]
          /\ readEnd'[d] = readEnd[d] /\ next'[d] = next[d]
      BY <1>5 DEF WriteFin
    <3> QED
      BY <1>0, <1>b, <3>1, <3>2, <3>3, <3>4, ReaderFrame
  <2>2. CASE up
    <3> DEFINE f == Fin
    <3>1. f \in Frames /\ f.kind = "fin"
      BY FrameKinds
    <3>2. log' = [log EXCEPT ![e] = Append(@, f)]
      BY <1>5, <2>2 DEF WriteFin
    <3>3. \A c \in Ends : Headers(c)' = Headers(c)
      BY <1>0, <3>1, <3>2, HeadersKept
    <3>4. /\ Len(log'[e]) = Len(log[e]) + 1
          /\ \A i \in 1..Len(log[e]) : log'[e][i] = log[e][i]
          /\ log'[e][Len(log[e]) + 1] = f
          /\ \A c \in Ends : c # e => log'[c] = log[c]
      BY <1>0, <3>1, <3>2, LogGrows
    <3>5. WriterInv(d)'
      <4>1. CASE d # e
        BY <1>0, <1>5, <3>3, <3>4, <4>1 DEF WriteFin, TypeOK, WriterInv
      <4>2. CASE d = e
        BY <1>0, <1>5, <2>2, <4>2 DEF WriteFin, TypeOK, WriterInv
      <4> QED
        BY <4>1, <4>2
    <3>6. LogInv(d)'
      <4>1. CASE d # e
        BY <1>0, <1>b, <3>4, <4>1, LogFrame
      <4>2. CASE d = e
        <5>1. /\ Len(log[e]) + 1 - Headers(e) = taken[e] + 1 /\ taken' = taken
              /\ s2z'[e] = "done" /\ ending' = ending /\ ending[e] # "closed"
          <6>1. /\ Len(log[e]) - Headers(e) = taken[e] /\ taken' = taken
                /\ s2z'[e] = "done" /\ ending' = ending /\ ending[e] # "closed"
            BY <1>0, <1>5, <2>2 DEF WriteFin, WriterInv, TypeOK
          <6> QED
            BY <1>a, <6>1
        <5>2. ASSUME NEW i \in 1..Len(log'[e])
              PROVE  /\ log'[e][i].kind = "header" => i = 1
                     /\ log'[e][i].kind = "data" => log'[e][i].n = i - Headers(e) /\ log'[e][i].n <= taken'[e]
                     /\ log'[e][i].kind = "fin" => s2z'[e] = "done" /\ i - Headers(e) = taken'[e] + 1
                     /\ log'[e][i].kind = "closed" => ending'[e] = "closed" /\ i = Len(log'[e])
          <6>1. CASE i = Len(log[e]) + 1
            <7>1. log'[e][i] = f /\ i = Len(log'[e])
              BY <3>4, <6>1
            <7>2. taken[e] \in Nat /\ Len(log[e]) \in Nat /\ Headers(e) \in {0, 1}
              BY <1>a
            <7>3. i - Headers(e) = Len(log[e]) + 1 - Headers(e)
              BY <6>1, <7>2
            <7> QED
              BY <3>1, <5>1, <7>1, <7>2, <7>3
          <6>2. CASE i \in 1..Len(log[e])
            <7>1. log'[e][i] = log[e][i]
              BY <3>4, <6>2
            <7>2. /\ log[e][i].kind = "header" => i = 1
                  /\ log[e][i].kind = "data" => log[e][i].n = i - Headers(e) /\ log[e][i].n <= taken[e]
                  /\ log[e][i].kind = "fin" => s2z[e] = "done" /\ i - Headers(e) = taken[e] + 1
                  /\ log[e][i].kind = "closed" => ending[e] = "closed"
              BY <1>0, <6>2 DEF LogInv
            <7> QED
              BY <5>1, <7>1, <7>2
          <6> QED
            BY <1>a, <3>4, <6>1, <6>2
        <5> QED
          BY <3>3, <4>2, <5>2 DEF LogInv
      <4> QED
        BY <4>1, <4>2
    <3>7. /\ z2s'[d] = z2s[d] /\ hand'[d] = hand[d] /\ got'[d] = got[d]
          /\ readEnd'[d] = readEnd[d] /\ next'[d] = next[d]
      BY <1>5 DEF WriteFin
    <3>8. ReaderInv(d)'
      BY <1>0, <1>b, <3>3, <3>7, ReaderFrame
    <3> QED
      BY <3>5, <3>6, <3>8
  <2> QED
    BY <2>1, <2>2
<1>6. ASSUME NEW e \in Ends, KillSocketToZiti(e), NEW d \in Ends
      PROVE  LogInv(d)' /\ WriterInv(d)' /\ ReaderInv(d)'
  <2>1. log' = log /\ \A c \in Ends : Headers(c)' = Headers(c)
    BY <1>6 DEF KillSocketToZiti, Headers
  <2>2. LogInv(d)'
    BY <1>0, <1>b, <2>1, LogFrame
  <2>3. WriterInv(d)'
    BY <1>0, <1>a, <1>6, <2>1 DEF KillSocketToZiti, TypeOK, WriterInv
  <2>4. /\ z2s'[d] = z2s[d] /\ hand'[d] = hand[d] /\ got'[d] = got[d]
        /\ readEnd'[d] = readEnd[d] /\ next'[d] = next[d]
    BY <1>6 DEF KillSocketToZiti
  <2> QED
    BY <1>0, <1>b, <2>1, <2>2, <2>3, <2>4, ReaderFrame
<1>7. ASSUME NEW e \in Ends, Read(e), NEW d \in Ends
      PROVE  LogInv(d)' /\ WriterInv(d)' /\ ReaderInv(d)'
  <2>1. log' = log /\ \A c \in Ends : Headers(c)' = Headers(c)
    BY <1>7 DEF Read, Headers
  <2>2. LogInv(d)'
    BY <1>0, <1>b, <2>1, LogFrame
  <2>3. WriterInv(d)'
    BY <1>0, <1>7, <2>1 DEF Read, TypeOK, WriterInv
  <2>4. CASE d # e
    <3>1. got' = got /\ next'[d] = next[d]
      BY <1>0, <1>7, <2>4 DEF Read, TypeOK
    <3>2. z2s'[d] = z2s[d] /\ hand'[d] = hand[d] /\ readEnd'[d] = readEnd[d]
      BY <1>0, <1>7, <2>4 DEF Read, StopReading, TypeOK
    <3> QED
      BY <1>0, <1>b, <2>1, <2>2, <2>3, <3>1, <3>2, ReaderFrame
  <2>5. CASE d = e
    <3> DEFINE p == Peer(e)  i == next[e] + 1  f == log[p][i]
    <3>1. /\ got' = got /\ taken' = taken /\ s2z' = s2z /\ next'[e] = i
          /\ z2s[e] = "read" /\ i \in 1..Len(log[p])
      <4>1. /\ got' = got /\ taken' = taken /\ s2z' = s2z /\ next' = [next EXCEPT ![e] = @ + 1]
            /\ z2s[e] = "read" /\ next[e] < Len(log[p])
        BY <1>7 DEF Read, Inbound
      <4>2. next[e] \in Nat /\ next \in [Ends -> Nat] /\ Len(log[p]) \in Nat
        BY <1>0, <1>a DEF TypeOK
      <4> QED
        BY <4>1, <4>2
    <3>2. /\ f.kind = "header" => i = 1
          /\ f.kind = "data" => f.n = i - Headers(p) /\ f.n <= taken[p]
          /\ f.kind = "fin" => s2z[p] = "done" /\ i - Headers(p) = taken[p] + 1
      BY <1>0, <3>1 DEF LogInv
    <3>3. Len(got[e]) = IF next[e] = 0 THEN 0 ELSE next[e] - Headers(p)
      BY <1>0, <3>1 DEF ReaderInv, Consumed
    <3>4. next[e] = 0 => Headers(p) = IF f.kind = "header" THEN 1 ELSE 0
      BY <1>a, <3>1 DEF Headers
    <3>5. Consumed(e)' = i - Headers(p)
      BY <1>a, <2>1, <3>1 DEF Consumed
    <3>6. f.kind \in {"data", "fin"} => Len(got[e]) = i - 1 - Headers(p)
      BY <1>a, <3>3, <3>4
    <3>7. CASE \E why \in {"closed", "crypto"} : StopReading(e, why) /\ UNCHANGED <<rxKey, hand>>
      <4>1. z2s'[e] = "shutdown" /\ hand' = hand /\ readEnd'[e] # "fin"
        BY <1>0, <3>7 DEF StopReading, TypeOK
      <4> QED
        BY <1>0, <2>2, <2>3, <2>5, <3>1, <4>1, ReaderStops
    <3>8. CASE f.kind = "fin" /\ StopReading(e, "fin") /\ UNCHANGED <<rxKey, hand>>
      <4>1. z2s'[e] = "shutdown" /\ hand' = hand
        BY <1>0, <3>8 DEF StopReading, TypeOK
      <4>2. s2z[p] = "done" /\ Len(got[e]) = taken[p]
        BY <1>a, <3>2, <3>6, <3>8
      <4> QED
        BY <1>0, <2>2, <2>3, <2>5, <3>1, <4>1, <4>2, ReaderStops
    <3>9. CASE f.kind = "header" /\ UNCHANGED <<z2s, hand, readEnd>>
      <4>1. Consumed(e)' = 0 /\ Len(got[e]) = 0
        BY <1>a, <3>2, <3>3, <3>4, <3>5, <3>9
      <4> QED
        BY <1>0, <2>2, <2>3, <2>5, <3>1, <3>9, <4>1 DEF ReaderInv
    <3>10. CASE /\ f.kind = "data" /\ hand' = [hand EXCEPT ![e] = f.n]
                /\ z2s' = [z2s EXCEPT ![e] = "write"] /\ UNCHANGED <<rxKey, readEnd>>
      <4>1. hand'[e] = f.n /\ z2s'[e] = "write"
        BY <1>0, <3>10 DEF TypeOK
      <4>2. hand'[e] = Len(got[e]) + 1 /\ hand'[e] = Consumed(e)' /\ hand'[e] <= taken[p]
        <5>1. next[e] \in Nat /\ Len(got[e]) \in Nat /\ Headers(p) \in {0, 1}
          BY <1>a
        <5> QED
          BY <3>2, <3>5, <3>6, <3>10, <4>1, <5>1
      <4> QED
        BY <1>0, <2>2, <2>3, <2>5, <3>1, <3>10, <4>1, <4>2 DEF ReaderInv
    <3> QED
      BY <1>7, <3>7, <3>8, <3>9, <3>10 DEF Read
  <2> QED
    BY <2>4, <2>5
<1>8. ASSUME NEW e \in Ends, ReadEof(e), NEW d \in Ends
      PROVE  LogInv(d)' /\ WriterInv(d)' /\ ReaderInv(d)'
  <2>1. log' = log /\ \A c \in Ends : Headers(c)' = Headers(c)
    BY <1>8 DEF ReadEof, StopReading, Headers
  <2>2. LogInv(d)'
    BY <1>0, <1>b, <2>1, LogFrame
  <2>3. WriterInv(d)'
    BY <1>0, <1>a, <1>8, <2>1 DEF ReadEof, StopReading, TypeOK, WriterInv
  <2>4. CASE d = e
    <3>1. /\ z2s'[d] \in {"shutdown", "done"} /\ hand'[d] \in {0, hand[d]} /\ got' = got
          /\ taken' = taken /\ s2z' = s2z
          /\ readEnd'[d] = "eof"
      BY <1>0, <1>8, <2>4 DEF ReadEof, StopReading, TypeOK
    <3> QED
      BY <1>0, <2>2, <2>3, <3>1, ReaderStops DEF ReaderInv
  <2>5. CASE d # e
    <3>1. /\ z2s'[d] = z2s[d] /\ hand'[d] = hand[d] /\ got'[d] = got[d]
          /\ readEnd'[d] = readEnd[d] /\ next'[d] = next[d]
      BY <1>0, <1>8, <2>5 DEF ReadEof, StopReading, TypeOK
    <3> QED
      BY <1>0, <1>b, <2>1, <2>2, <2>3, <3>1, ReaderFrame
  <2> QED
    BY <2>4, <2>5
<1>9. ASSUME NEW e \in Ends, ShutdownSocket(e), NEW d \in Ends
      PROVE  LogInv(d)' /\ WriterInv(d)' /\ ReaderInv(d)'
  <2>1. log' = log /\ \A c \in Ends : Headers(c)' = Headers(c)
    BY <1>9 DEF ShutdownSocket, Headers
  <2>2. LogInv(d)'
    BY <1>0, <1>b, <2>1, LogFrame
  <2>3. WriterInv(d)'
    BY <1>0, <1>a, <1>9, <2>1 DEF ShutdownSocket, TypeOK, WriterInv
  <2>4. CASE d = e
    <3>1. /\ z2s'[d] \in {"shutdown", "done"} /\ hand'[d] \in {0, hand[d]} /\ got' = got
          /\ taken' = taken /\ s2z' = s2z
          /\ readEnd'[d] = readEnd[d]
      BY <1>0, <1>9, <2>4 DEF ShutdownSocket, TypeOK
    <3> QED
      BY <1>0, <2>2, <2>3, <3>1, ReaderStops DEF ReaderInv
  <2>5. CASE d # e
    <3>1. /\ z2s'[d] = z2s[d] /\ hand'[d] = hand[d] /\ got'[d] = got[d]
          /\ readEnd'[d] = readEnd[d] /\ next'[d] = next[d]
      BY <1>0, <1>9, <2>5 DEF ShutdownSocket, TypeOK
    <3> QED
      BY <1>0, <1>b, <2>1, <2>2, <2>3, <3>1, ReaderFrame
  <2> QED
    BY <2>4, <2>5
<1>10. ASSUME NEW e \in Ends, KillZitiToSocket(e), NEW d \in Ends
      PROVE  LogInv(d)' /\ WriterInv(d)' /\ ReaderInv(d)'
  <2>1. log' = log /\ \A c \in Ends : Headers(c)' = Headers(c)
    BY <1>10 DEF KillZitiToSocket, Headers
  <2>2. LogInv(d)'
    BY <1>0, <1>b, <2>1, LogFrame
  <2>3. WriterInv(d)'
    BY <1>0, <1>a, <1>10, <2>1 DEF KillZitiToSocket, TypeOK, WriterInv
  <2>4. CASE d = e
    <3>1. /\ z2s'[d] \in {"shutdown", "done"} /\ hand'[d] \in {0, hand[d]} /\ got' = got
          /\ taken' = taken /\ s2z' = s2z
          /\ readEnd'[d] = readEnd[d]
      BY <1>0, <1>10, <2>4 DEF KillZitiToSocket, TypeOK
    <3> QED
      BY <1>0, <2>2, <2>3, <3>1, ReaderStops DEF ReaderInv
  <2>5. CASE d # e
    <3>1. /\ z2s'[d] = z2s[d] /\ hand'[d] = hand[d] /\ got'[d] = got[d]
          /\ readEnd'[d] = readEnd[d] /\ next'[d] = next[d]
      BY <1>0, <1>10, <2>5 DEF KillZitiToSocket, TypeOK
    <3> QED
      BY <1>0, <1>b, <2>1, <2>2, <2>3, <3>1, ReaderFrame
  <2> QED
    BY <2>4, <2>5
<1>11. ASSUME NEW e \in Ends, WriteSocket(e), NEW d \in Ends
      PROVE  LogInv(d)' /\ WriterInv(d)' /\ ReaderInv(d)'
  <2>1. log' = log /\ \A c \in Ends : Headers(c)' = Headers(c)
    BY <1>11 DEF WriteSocket, Headers
  <2>2. LogInv(d)'
    BY <1>0, <1>b, <2>1, LogFrame
  <2>3. WriterInv(d)'
    BY <1>0, <1>11, <2>1 DEF WriteSocket, TypeOK, WriterInv
  <2>4. CASE d # e
    <3>1. /\ z2s'[d] = z2s[d] /\ hand'[d] = hand[d] /\ got'[d] = got[d]
          /\ readEnd'[d] = readEnd[d] /\ next'[d] = next[d]
      BY <1>0, <1>11, <2>4 DEF WriteSocket, TypeOK
    <3> QED
      BY <1>0, <1>b, <2>1, <2>2, <2>3, <3>1, ReaderFrame
  <2>5. CASE d = e
    <3>1. /\ z2s[e] = "write" /\ z2s'[e] = "read" /\ hand'[e] = 0 /\ taken' = taken /\ s2z' = s2z
          /\ readEnd' = readEnd /\ next' = next /\ got'[e] = Append(got[e], hand[e])
      BY <1>0, <1>11 DEF WriteSocket, TypeOK
    <3>2. /\ hand[e] = Len(got[e]) + 1 /\ hand[e] = Consumed(e) /\ hand[e] <= taken[Peer(e)]
          /\ readEnd[e] = "none" /\ \A j \in 1..Len(got[e]) : got[e][j] = j
      BY <1>0, <3>1 DEF ReaderInv
    <3>3. got[e] \in Seq(Nat) /\ hand[e] \in Nat
      BY <1>0, <1>a, SpliceAssumption DEF TypeOK
    <3>4. Len(got'[e]) = hand[e] /\ \A j \in 1..Len(got'[e]) : got'[e][j] = j
      BY <1>a, <3>1, <3>2, <3>3, Appended
    <3>5. Consumed(e)' = Consumed(e)
      BY <2>1, <3>1 DEF Consumed
    <3>6. ReaderInv(e)'
      BY <1>a, <3>1, <3>2, <3>4, <3>5 DEF ReaderInv
    <3> QED
      BY <2>2, <2>3, <2>5, <3>6
  <2> QED
    BY <2>4, <2>5
<1>12. ASSUME NEW e \in Ends, WriteSocketErr(e), NEW d \in Ends
      PROVE  LogInv(d)' /\ WriterInv(d)' /\ ReaderInv(d)'
  <2>1. log' = log /\ \A c \in Ends : Headers(c)' = Headers(c)
    BY <1>12 DEF WriteSocketErr, Headers
  <2>2. LogInv(d)'
    BY <1>0, <1>b, <2>1, LogFrame
  <2>3. WriterInv(d)'
    BY <1>0, <1>a, <1>12, <2>1 DEF WriteSocketErr, TypeOK, WriterInv
  <2>4. CASE d = e
    <3>1. /\ z2s'[d] \in {"shutdown", "done"} /\ hand'[d] \in {0, hand[d]} /\ got' = got
          /\ taken' = taken /\ s2z' = s2z
          /\ readEnd'[d] = readEnd[d]
      BY <1>0, <1>12, <2>4 DEF WriteSocketErr, TypeOK
    <3> QED
      BY <1>0, <2>2, <2>3, <3>1, ReaderStops DEF ReaderInv
  <2>5. CASE d # e
    <3>1. /\ z2s'[d] = z2s[d] /\ hand'[d] = hand[d] /\ got'[d] = got[d]
          /\ readEnd'[d] = readEnd[d] /\ next'[d] = next[d]
      BY <1>0, <1>12, <2>5 DEF WriteSocketErr, TypeOK
    <3> QED
      BY <1>0, <1>b, <2>1, <2>2, <2>3, <3>1, ReaderFrame
  <2> QED
    BY <2>4, <2>5
<1>13. ASSUME NEW e \in Ends, Close(e), NEW d \in Ends
      PROVE  LogInv(d)' /\ WriterInv(d)' /\ ReaderInv(d)'
  <2>1. log' = log /\ \A c \in Ends : Headers(c)' = Headers(c)
    BY <1>13 DEF Close, Headers
  <2>2. LogInv(d)'
    BY <1>0, <1>b, <2>1, LogFrame
  <2>3. WriterInv(d)'
    BY <1>0, <1>a, <1>13, <2>1 DEF Close, TypeOK, WriterInv
  <2>4. /\ z2s'[d] = z2s[d] /\ hand'[d] = hand[d] /\ got'[d] = got[d]
        /\ readEnd'[d] = readEnd[d] /\ next'[d] = next[d]
    BY <1>13 DEF Close
  <2> QED
    BY <1>0, <1>b, <2>1, <2>2, <2>3, <2>4, ReaderFrame
<1>14. ASSUME NEW e \in Ends, WriteStateClosed(e), NEW d \in Ends
      PROVE  LogInv(d)' /\ WriterInv(d)' /\ ReaderInv(d)'
  <2>1. CASE ~up
    <3>1. log' = log /\ \A c \in Ends : Headers(c)' = Headers(c)
      BY <1>14, <2>1 DEF WriteStateClosed, Headers
    <3>2. LogInv(d)'
      BY <1>0, <1>b, <3>1, LogFrame
    <3>3. WriterInv(d)'
      BY <1>0, <1>a, <1>14, <2>1, <3>1 DEF WriteStateClosed, TypeOK, WriterInv
    <3>4. /\ z2s'[d] = z2s[d] /\ hand'[d] = hand[d] /\ got'[d] = got[d]
          /\ readEnd'[d] = readEnd[d] /\ next'[d] = next[d]
      BY <1>14 DEF WriteStateClosed
    <3> QED
      BY <1>0, <1>b, <3>1, <3>2, <3>3, <3>4, ReaderFrame
  <2>2. CASE up
    <3> DEFINE f == StateClosed
    <3>1. f \in Frames /\ f.kind = "closed"
      BY FrameKinds
    <3>2. log' = [log EXCEPT ![e] = Append(@, f)]
      BY <1>14, <2>2 DEF WriteStateClosed
    <3>3. \A c \in Ends : Headers(c)' = Headers(c)
      BY <1>0, <3>1, <3>2, HeadersKept
    <3>4. /\ Len(log'[e]) = Len(log[e]) + 1
          /\ \A i \in 1..Len(log[e]) : log'[e][i] = log[e][i]
          /\ log'[e][Len(log[e]) + 1] = f
          /\ \A c \in Ends : c # e => log'[c] = log[c]
      BY <1>0, <3>1, <3>2, LogGrows
    <3>5. WriterInv(d)'
      <4>1. CASE d # e
        BY <1>0, <1>14, <3>3, <3>4, <4>1 DEF WriteStateClosed, TypeOK, WriterInv
      <4>2. CASE d = e
        BY <1>0, <1>14, <4>2 DEF WriteStateClosed, TypeOK, WriterInv
      <4> QED
        BY <4>1, <4>2
    <3>6. LogInv(d)'
      <4>1. CASE d # e
        BY <1>0, <1>b, <3>4, <4>1, LogFrame
      <4>2. CASE d = e
        <5>1. /\ taken' = taken /\ s2z' = s2z
              /\ ending'[e] = "closed" /\ ending[e] # "closed"
          BY <1>0, <1>14 DEF WriteStateClosed, TypeOK
        <5>2. ASSUME NEW i \in 1..Len(log'[e])
              PROVE  /\ log'[e][i].kind = "header" => i = 1
                     /\ log'[e][i].kind = "data" => log'[e][i].n = i - Headers(e) /\ log'[e][i].n <= taken'[e]
                     /\ log'[e][i].kind = "fin" => s2z'[e] = "done" /\ i - Headers(e) = taken'[e] + 1
                     /\ log'[e][i].kind = "closed" => ending'[e] = "closed" /\ i = Len(log'[e])
          <6>1. CASE i = Len(log[e]) + 1
            <7>1. log'[e][i] = f /\ i = Len(log'[e])
              BY <3>4, <6>1
            <7>2. taken[e] \in Nat /\ Len(log[e]) \in Nat /\ Headers(e) \in {0, 1}
              BY <1>a
            <7>3. i - Headers(e) = Len(log[e]) + 1 - Headers(e)
              BY <6>1, <7>2
            <7> QED
              BY <3>1, <5>1, <7>1, <7>2, <7>3
          <6>2. CASE i \in 1..Len(log[e])
            <7>1. log'[e][i] = log[e][i]
              BY <3>4, <6>2
            <7>2. /\ log[e][i].kind = "header" => i = 1
                  /\ log[e][i].kind = "data" => log[e][i].n = i - Headers(e) /\ log[e][i].n <= taken[e]
                  /\ log[e][i].kind = "fin" => s2z[e] = "done" /\ i - Headers(e) = taken[e] + 1
                  /\ log[e][i].kind = "closed" => ending[e] = "closed"
              BY <1>0, <6>2 DEF LogInv
            <7> QED
              BY <5>1, <7>1, <7>2
          <6> QED
            BY <1>a, <3>4, <6>1, <6>2
        <5> QED
          BY <3>3, <4>2, <5>2 DEF LogInv
      <4> QED
        BY <4>1, <4>2
    <3>7. /\ z2s'[d] = z2s[d] /\ hand'[d] = hand[d] /\ got'[d] = got[d]
          /\ readEnd'[d] = readEnd[d] /\ next'[d] = next[d]
      BY <1>14 DEF WriteStateClosed
    <3>8. ReaderInv(d)'
      BY <1>0, <1>b, <3>3, <3>7, ReaderFrame
    <3> QED
      BY <3>5, <3>6, <3>8
  <2> QED
    BY <2>1, <2>2
<1>15. ASSUME NEW e \in Ends, Kill(e), NEW d \in Ends
      PROVE  LogInv(d)' /\ WriterInv(d)' /\ ReaderInv(d)'
  <2>1. log' = log /\ \A c \in Ends : Headers(c)' = Headers(c)
    BY <1>15 DEF Kill, pumps, Headers
  <2>2. LogInv(d)'
    BY <1>0, <1>b, <2>1, LogFrame
  <2>3. WriterInv(d)'
    BY <1>0, <1>a, <1>15, <2>1 DEF Kill, pumps, TypeOK, WriterInv
  <2>4. /\ z2s'[d] = z2s[d] /\ hand'[d] = hand[d] /\ got'[d] = got[d]
        /\ readEnd'[d] = readEnd[d] /\ next'[d] = next[d]
    BY <1>15 DEF Kill, pumps
  <2> QED
    BY <1>0, <1>b, <2>1, <2>2, <2>3, <2>4, ReaderFrame
<1>16. ASSUME ChannelDies, NEW d \in Ends
      PROVE  LogInv(d)' /\ WriterInv(d)' /\ ReaderInv(d)'
  BY <1>0, <1>16 DEF ChannelDies, pumps, LogInv, WriterInv, ReaderInv, Headers, Consumed
<1>17. ASSUME UNCHANGED vars, NEW d \in Ends
      PROVE  LogInv(d)' /\ WriterInv(d)' /\ ReaderInv(d)'
  BY <1>0, <1>17 DEF vars, pumps, LogInv, WriterInv, ReaderInv, Headers, Consumed
<1>18. ASSUME NEW e \in Ends, Stall(e), NEW d \in Ends
      PROVE  LogInv(d)' /\ WriterInv(d)' /\ ReaderInv(d)'
  BY <1>0, <1>18 DEF Stall, pumps, LogInv, WriterInv, ReaderInv, Headers, Consumed
<1> QED
  BY <1>1, <1>2, <1>3, <1>4, <1>5, <1>6, <1>7, <1>8, <1>9, <1>10, <1>11, <1>12, <1>13, <1>14, <1>15, <1>16, <1>17, <1>18, Steps

\* Nothing has been taken, read or written at the start but for the headers.
LEMMA InvInit == Init => Inv
<1> SUFFICES ASSUME Init PROVE Inv
  OBVIOUS
<1> USE Peers, SpliceAssumption
<1>1. \A e \in Ends : log[e] \in {<<>>, <<Header>>}
  BY DEF Init
<1>2. \A e \in Ends : /\ log[e] \in Seq(Frames) /\ Len(log[e]) = Headers(e)
                      /\ \A i \in 1..Len(log[e]) : i = 1 /\ log[e][i].kind = "header"
  <2> SUFFICES ASSUME NEW e \in Ends
               PROVE  /\ log[e] \in Seq(Frames) /\ Len(log[e]) = Headers(e)
                      /\ \A i \in 1..Len(log[e]) : i = 1 /\ log[e][i].kind = "header"
    OBVIOUS
  <2>1. CASE log[e] = <<>>
    BY <2>1 DEF Headers
  <2>2. CASE log[e] = <<Header>>
    <3>1. Header \in Frames /\ Header.kind = "header"
      BY FrameKinds
    <3>2. Len(log[e]) = 1 /\ log[e][1] = Header /\ log[e] \in Seq(Frames)
      BY <2>2, <3>1
    <3> QED
      BY <3>1, <3>2 DEF Headers
  <2> QED
    BY <1>1, <2>1, <2>2
<1>3. TypeOK
  <2>1. log \in [Ends -> Seq(Frames)]
    <3>1. \E lost : log = [e \in Ends |-> IF Encrypted /\ e \notin lost THEN <<Header>> ELSE <<>>]
      BY DEF Init
    <3> QED
      BY <1>2, <3>1
  <2>2. drains \subseteq Ends /\ stalled \subseteq Ends
    BY DEF Init
  <2>3. rxKey \in [Ends -> BOOLEAN]
    BY DEF Init
  <2>4. \A e \in Ends : Len(log[e]) \in Nat
    BY <2>1
  <2> QED
    BY <2>1, <2>2, <2>3, <2>4 DEF Init, TypeOK
<1>4. ASSUME NEW e \in Ends PROVE LogInv(e) /\ WriterInv(e)
  <2>1. taken[e] = 0 /\ s2z[e] = "read" /\ ending[e] = "join" /\ Len(log[e]) = Headers(e) /\ Headers(e) \in {0, 1}
    BY <1>2 DEF Init, Headers
  <2> QED
    BY <1>2, <2>1 DEF LogInv, WriterInv
<1>5. ASSUME NEW e \in Ends PROVE ReaderInv(e)
  <2>1. /\ taken[Peer(e)] = 0 /\ z2s[e] = "read" /\ hand[e] = 0 /\ next[e] = 0 /\ readEnd[e] = "none"
        /\ got[e] = <<>>
    BY DEF Init
  <2> QED
    BY <2>1 DEF ReaderInv, Consumed
<1> QED
  BY <1>3, <1>4, <1>5 DEF Inv

\* The logs, the writers and the readers stay in step, in every behaviour.
THEOREM InvCorrect == Spec => []Inv
<1>1. Init => Inv
  BY InvInit
<1>2. Inv /\ [Next]_vars => Inv'
  BY InvStep
<1> QED
  BY <1>1, <1>2, PTL DEF Spec

\* Whatever the kills, socket errors and channel loss, what reaches a socket is
\* a gap-free prefix of what the other socket sent (proxy.rs, conn.rs).
THEOREM InOrderCorrect == Spec => []InOrder
<1>1. Inv => InOrder
  <2> SUFFICES ASSUME Inv, NEW e \in Ends
               PROVE  got[e] = [i \in 1..Len(got[e]) |-> i] /\ Len(got[e]) <= taken[Peer(e)]
    BY DEF InOrder
  <2>1. got[e] \in Seq(1..MaxChunks) /\ \A i \in 1..Len(got[e]) : got[e][i] = i
    BY DEF Inv, TypeOK, ReaderInv
  <2>2. got[e] = [i \in 1..Len(got[e]) |-> i]
    BY <2>1
  <2> QED
    BY <2>2 DEF Inv, ReaderInv
<1> QED
  BY <1>1, InvCorrect, PTL

\* A FIN is read only when everything the other socket sent has been passed on.
THEOREM FinMeansAllCorrect == Spec => []FinMeansAll
<1>1. Inv => FinMeansAll
  BY DEF Inv, ReaderInv, FinMeansAll
<1> QED
  BY <1>1, InvCorrect, PTL

\* What an end writes is a header, data, at most one FIN and at most one
\* StateClosed, in this order.
THEOREM WireGrammarCorrect == Spec => []WireGrammar
<1>1. Inv => WireGrammar
  <2> SUFFICES ASSUME Inv, NEW e \in Ends, NEW i \in 1..Len(log[e]), NEW j \in 1..Len(log[e]), i < j
               PROVE  Rank(log[e][i]) <= Rank(log[e][j]) /\ log[e][i] # log[e][j]
    <3>1. \A e \in Ends : DOMAIN log[e] = 1..Len(log[e])
      BY DEF Inv, TypeOK
    <3> QED
      BY <3>1 DEF WireGrammar
  <2>1. /\ Len(log[e]) \in Nat /\ taken[e] \in Nat /\ Headers(e) \in {0, 1}
        /\ log[e][i] \in Frames /\ log[e][j] \in Frames
    BY Numbers DEF Inv
  <2>2. /\ log[e][i].kind \in {"header", "data", "fin", "closed"}
        /\ log[e][j].kind \in {"header", "data", "fin", "closed"}
    BY <2>1, FrameKinds
  <2>3. /\ log[e][j].kind # "header"
        /\ log[e][i].kind # "closed"
        /\ log[e][i].kind = "data" /\ log[e][j].kind = "data" => log[e][i].n # log[e][j].n
        /\ log[e][i].kind = "fin" => log[e][j].kind = "closed"
    <3>1. /\ log[e][j].kind = "header" => j = 1
          /\ log[e][j].kind = "data" => log[e][j].n = j - Headers(e) /\ log[e][j].n <= taken[e]
          /\ log[e][j].kind = "fin" => j - Headers(e) = taken[e] + 1
      BY DEF Inv, LogInv
    <3>2. /\ log[e][i].kind = "data" => log[e][i].n = i - Headers(e)
          /\ log[e][i].kind = "fin" => i - Headers(e) = taken[e] + 1
          /\ log[e][i].kind = "closed" => i = Len(log[e])
      BY DEF Inv, LogInv
    <3> QED
      BY <2>1, <2>2, <3>1, <3>2
  <2> QED
    BY <2>2, <2>3 DEF Rank
<1> QED
  BY <1>1, InvCorrect, PTL

----------------------------------------------------------------------------
(* Both ways complete: how the two ends close.                             *)

HasFin(e) == \E i \in 1..Len(log[e]) : log[e][i].kind = "fin"

\* A read half that stopped at a StateClosed was told so by a peer that has
\* closed, that sent no FIN, and that did not itself stop at a StateClosed: of
\* the two ends one closes first.  The write side is closed by its own pump or
\* by such a StateClosed; a pump that is done has sent its FIN, unless there
\* was such a StateClosed, a kill or a loss of the channel.
CloseInv(e) ==
  /\ readEnd[e] = "closed" => /\ ending[Peer(e)] = "closed" /\ ~HasFin(Peer(e))
                              /\ readEnd[Peer(e)] # "closed"
  /\ ending[e] # "join" => z2s[e] = "done"
  /\ sentFin[e] => s2z[e] \in {"finlock", "done"} \/ readEnd[e] = "closed"
  /\ s2z[e] = "done" => HasFin(e) \/ readEnd[e] = "closed" \/ killed[e] \/ ~up

\* Only the write of a FIN puts one into a log.
LEMMA FinWritten ==
  ASSUME TypeOK, NEW e \in Ends, NEW f \in Frames, log' = [log EXCEPT ![e] = Append(@, f)]
  PROVE  \A d \in Ends : HasFin(d)' <=> HasFin(d) \/ (d = e /\ f.kind = "fin")
<1>1. /\ Len(log'[e]) = Len(log[e]) + 1 /\ Len(log[e]) \in Nat
      /\ \A i \in 1..Len(log[e]) : log'[e][i] = log[e][i]
      /\ log'[e][Len(log[e]) + 1] = f
      /\ \A d \in Ends : d # e => log'[d] = log[d]
  BY LogGrows
<1>2. HasFin(e)' <=> HasFin(e) \/ f.kind = "fin"
  <2>1. \A i : i \in 1..(Len(log[e]) + 1) <=> i \in 1..Len(log[e]) \/ i = Len(log[e]) + 1
    BY <1>1
  <2> QED
    BY <1>1, <2>1 DEF HasFin
<1>3. \A d \in Ends : d # e => (HasFin(d)' <=> HasFin(d))
  BY <1>1 DEF HasFin
<1> QED
  BY <1>2, <1>3

\* The order in which the two ends close survives every step.
LEMMA CloseStep ==
  ASSUME Inv, \A e \in Ends : CloseInv(e), [Next]_vars
  PROVE  \A e \in Ends : CloseInv(e)'
<1> USE Peers
<1>0. TypeOK /\ \A e \in Ends : LogInv(e) /\ WriterInv(e) /\ ReaderInv(e)
  BY DEF Inv
<1>a. ASSUME log' = log PROVE \A d \in Ends : HasFin(d)' <=> HasFin(d)
  BY <1>a DEF HasFin
<1>1. ASSUME NEW e \in Ends, ReadSocket(e), NEW d \in Ends PROVE CloseInv(d)'
  <2>1. /\ s2z[e] = "read" /\ s2z'[e] \in {"closewrite", "lock"}
        /\ \A c \in Ends : c # e => s2z'[c] = s2z[c]
        /\ sentFin[e] => readEnd[e] = "closed"
    <3>1. s2z[e] = "read" /\ s2z' = [s2z EXCEPT ![e] = IF sentFin[e] THEN "closewrite" ELSE "lock"]
      BY <1>1 DEF ReadSocket
    <3>2. s2z \in [Ends -> {"read", "lock", "closewrite", "finlock", "done"}]
      BY <1>0 DEF TypeOK
    <3>3. sentFin[e] => readEnd[e] = "closed"
      BY <3>1 DEF CloseInv
    <3> QED
      BY <3>1, <3>2, <3>3
  <2>2. UNCHANGED <<z2s, ending, sentFin, readEnd, killed, log, up>>
    BY <1>1 DEF ReadSocket
  <2> QED
    BY <1>a, <2>1, <2>2 DEF CloseInv
<1>2. ASSUME NEW e \in Ends, SocketEnds(e), NEW d \in Ends PROVE CloseInv(d)'
  <2>1. /\ s2z[e] = "read" /\ s2z'[e] = "closewrite"
        /\ \A c \in Ends : c # e => s2z'[c] = s2z[c]
    BY <1>0, <1>2 DEF SocketEnds, TypeOK
  <2>2. UNCHANGED <<z2s, ending, sentFin, readEnd, killed, log, up>>
    BY <1>2 DEF SocketEnds
  <2> QED
    BY <1>a, <2>1, <2>2 DEF CloseInv
<1>3. ASSUME NEW e \in Ends, WriteData(e), NEW d \in Ends PROVE CloseInv(d)'
  <2>1. \A c \in Ends : HasFin(c)' <=> HasFin(c)
    <3>1. CASE up
      <4>1. taken[e] \in 1..MaxChunks
        <5>1. taken[e] \in 0..MaxChunks /\ Len(log[e]) - Headers(e) = taken[e] - 1
          BY <1>0, <1>3 DEF TypeOK, WriteData, WriterInv
        <5> QED
          BY <1>0, <5>1, Numbers
      <4>2. Data(taken[e]) \in Frames /\ Data(taken[e]).kind # "fin"
        BY <4>1, FrameKinds
      <4> QED
        BY <1>0, <1>3, <3>1, <4>2, FinWritten DEF WriteData
    <3> QED
      BY <1>3, <1>a, <3>1 DEF WriteData
  <2> QED
    <3>1. /\ s2z[e] = "lock" /\ s2z'[e] \in {"closewrite", "read"}
          /\ \A c \in Ends : c # e => s2z'[c] = s2z[c]
          /\ sentFin[e] => readEnd[e] = "closed"
      <4>1. s2z[e] = "lock" /\ s2z' = [s2z EXCEPT ![e] = IF up THEN "read" ELSE "closewrite"]
        BY <1>3 DEF WriteData
      <4>2. s2z \in [Ends -> {"read", "lock", "closewrite", "finlock", "done"}]
        BY <1>0 DEF TypeOK
      <4>3. sentFin[e] => readEnd[e] = "closed"
        BY <4>1 DEF CloseInv
      <4> QED
        BY <4>1, <4>2, <4>3
    <3>2. UNCHANGED <<z2s, ending, sentFin, readEnd, killed, up>>
      BY <1>3 DEF WriteData
    <3> QED
      BY <2>1, <3>1, <3>2 DEF CloseInv
<1>4. ASSUME NEW e \in Ends, CloseWrite(e), NEW d \in Ends PROVE CloseInv(d)'
  BY <1>0, <1>4, <1>a DEF CloseWrite, TypeOK, CloseInv
<1>5. ASSUME NEW e \in Ends, WriteFin(e), NEW d \in Ends PROVE CloseInv(d)'
  <2>1. /\ \A c \in Ends : c # e => (HasFin(c)' <=> HasFin(c))
        /\ HasFin(e)' \/ ~up
    BY <1>0, <1>5, FrameKinds, FinWritten, <1>a DEF WriteFin
  <2>2. ending[e] = "join" /\ s2z[e] = "finlock"
    BY <1>0, <1>5 DEF WriteFin, WriterInv
  <2>3. readEnd[Peer(e)] # "closed"
    BY <2>2 DEF CloseInv
  <2> QED
    BY <1>0, <1>5, <2>1, <2>2, <2>3 DEF WriteFin, TypeOK, CloseInv, Ends, Peer
<1>6. ASSUME NEW e \in Ends, KillSocketToZiti(e), NEW d \in Ends PROVE CloseInv(d)'
  BY <1>0, <1>6, <1>a DEF KillSocketToZiti, TypeOK, CloseInv
<1>7. ASSUME NEW e \in Ends, Read(e), NEW d \in Ends PROVE CloseInv(d)'
  <2> DEFINE p == Peer(e)  f == log[p][next[e] + 1]
  <2>1. /\ log' = log /\ s2z' = s2z /\ ending' = ending /\ killed' = killed /\ up' = up
        /\ z2s[e] = "read" /\ readEnd[e] = "none"
        /\ \A c \in Ends : c # e => z2s'[c] = z2s[c] /\ readEnd'[c] = readEnd[c] /\ sentFin'[c] = sentFin[c]
    <3>1. /\ log' = log /\ s2z' = s2z /\ ending' = ending /\ killed' = killed /\ up' = up
          /\ z2s[e] = "read" /\ sentFin' = [sentFin EXCEPT ![e] = @ \/ ClosesWrite(f)]
      BY <1>7 DEF Read
    <3>2. readEnd[e] = "none"
      BY <1>0, <3>1 DEF ReaderInv
    <3>3. /\ \/ z2s' = z2s
             \/ z2s' = [z2s EXCEPT ![e] = "shutdown"]
             \/ z2s' = [z2s EXCEPT ![e] = "write"]
          /\ readEnd' = readEnd \/ \E why : readEnd' = [readEnd EXCEPT ![e] = why]
      BY <1>7 DEF Read, StopReading
    <3>4. \A c \in Ends : c # e => z2s'[c] = z2s[c] /\ readEnd'[c] = readEnd[c] /\ sentFin'[c] = sentFin[c]
      BY <1>0, <3>1, <3>3 DEF TypeOK
    <3> QED
      BY <3>1, <3>2, <3>4
  <2>2. \A c \in Ends : HasFin(c)' <=> HasFin(c)
    BY <1>a, <2>1
  <2>3. readEnd[p] # "closed"
    BY <2>1 DEF CloseInv
  <2>4. ending[e] = "join"
    BY <1>0, <2>1 DEF CloseInv, TypeOK
  <2>5. CASE f.kind = "closed"
    <3>1. readEnd'[e] = "closed" /\ z2s'[e] = "shutdown"
      BY <1>0, <1>7, <2>5 DEF Read, StopReading, TypeOK
    <3>2. /\ next[e] \in Nat /\ next[e] + 1 \in 1..Len(log[p]) /\ Len(log[p]) \in Nat
          /\ taken[p] \in Nat /\ Headers(p) \in {0, 1} /\ Len(got[e]) \in Nat
      <4>1. /\ next[e] \in Nat /\ Len(log[p]) \in Nat /\ taken[p] \in Nat
            /\ Headers(p) \in {0, 1} /\ Len(got[e]) \in Nat
        BY <1>0, Numbers
      <4>2. next[e] < Len(log[p])
        BY <1>7 DEF Read, Inbound
      <4> QED
        BY <4>1, <4>2
    <3>3. ending[p] = "closed" /\ next[e] + 1 = Len(log[p])
      BY <1>0, <2>5, <3>2 DEF LogInv
    <3>4. ~HasFin(p)
      <4> SUFFICES ASSUME NEW i \in 1..Len(log[p]), log[p][i].kind = "fin" PROVE FALSE
        BY DEF HasFin
      <4>1. i - Headers(p) = taken[p] + 1
        BY <1>0 DEF LogInv
      <4>2. Len(got[e]) = Consumed(e) /\ Len(got[e]) <= taken[p]
        BY <1>0, <2>1 DEF ReaderInv
      <4>3. next[e] < i
        BY <3>2, <4>1, <4>2 DEF Consumed
      <4>4. i = next[e] + 1
        BY <3>2, <3>3, <4>3
      <4> QED
        BY <2>5, <4>4
    <3>5. CASE d = e
      BY <2>1, <2>2, <2>3, <2>4, <3>1, <3>3, <3>4, <3>5 DEF CloseInv
    <3>6. CASE d = p
      BY <2>1, <2>2, <2>3, <3>6 DEF CloseInv
    <3> QED
      BY <3>5, <3>6 DEF Ends, Peer
  <2>6. CASE f.kind # "closed"
    <3>1. sentFin'[e] = sentFin[e] /\ readEnd'[e] # "closed"
      <4>1. sentFin'[e] = (sentFin[e] \/ ClosesWrite(f))
        BY <1>0, <1>7 DEF Read, TypeOK
      <4>2. sentFin[e] \in BOOLEAN /\ ~ClosesWrite(f)
        BY <1>0, <2>6 DEF ClosesWrite, TypeOK
      <4>3. readEnd'[e] # "closed"
        <5>1. \/ readEnd' = readEnd
              \/ \E why \in {"crypto", "fin"} : readEnd' = [readEnd EXCEPT ![e] = why]
          BY <1>7, <2>6 DEF Read, StopReading
        <5> QED
          BY <1>0, <2>1, <5>1 DEF TypeOK
      <4> QED
        BY <4>1, <4>2, <4>3
    <3>2. CASE d = e
      BY <2>1, <2>2, <2>4, <3>1, <3>2 DEF CloseInv
    <3>3. CASE d = p
      BY <2>1, <2>2, <2>3, <3>3 DEF CloseInv
    <3> QED
      BY <3>2, <3>3 DEF Ends, Peer
  <2> QED
    BY <2>5, <2>6
<1>8. ASSUME NEW e \in Ends, ReadEof(e), NEW d \in Ends PROVE CloseInv(d)'
  <2>1. /\ z2s[e] = "read" /\ readEnd'[e] = "eof" /\ UNCHANGED <<s2z, ending, sentFin, killed, log, up>>
        /\ \A c \in Ends : c # e => z2s'[c] = z2s[c] /\ readEnd'[c] = readEnd[c]
    BY <1>0, <1>8 DEF ReadEof, StopReading, TypeOK
  <2>2. readEnd[e] = "none" /\ ending[e] = "join"
    BY <1>0, <2>1 DEF ReaderInv, CloseInv
  <2> QED
    BY <1>a, <2>1, <2>2 DEF CloseInv
<1>9. ASSUME NEW e \in Ends, ShutdownSocket(e), NEW d \in Ends PROVE CloseInv(d)'
  BY <1>0, <1>9, <1>a DEF ShutdownSocket, TypeOK, CloseInv
<1>10. ASSUME NEW e \in Ends, KillZitiToSocket(e), NEW d \in Ends PROVE CloseInv(d)'
  BY <1>0, <1>10, <1>a DEF KillZitiToSocket, TypeOK, CloseInv
<1>11. ASSUME NEW e \in Ends, WriteSocket(e), NEW d \in Ends PROVE CloseInv(d)'
  BY <1>0, <1>11, <1>a DEF WriteSocket, TypeOK, CloseInv
<1>12. ASSUME NEW e \in Ends, WriteSocketErr(e), NEW d \in Ends PROVE CloseInv(d)'
  BY <1>0, <1>12, <1>a DEF WriteSocketErr, TypeOK, CloseInv
<1>13. ASSUME NEW e \in Ends, Close(e), NEW d \in Ends PROVE CloseInv(d)'
  <2>1. /\ s2z[e] = "done" /\ z2s[e] = "done" /\ ending[e] = "join" /\ ending'[e] = "lock"
        /\ \A c \in Ends : c # e => ending'[c] = ending[c] /\ sentFin'[c] = sentFin[c]
    BY <1>0, <1>13 DEF Close, TypeOK
  <2>2. UNCHANGED <<s2z, z2s, readEnd, killed, log, up>>
    BY <1>13 DEF Close
  <2> QED
    BY <1>a, <2>1, <2>2 DEF CloseInv
<1>14. ASSUME NEW e \in Ends, WriteStateClosed(e), NEW d \in Ends PROVE CloseInv(d)'
  <2>1. \A c \in Ends : HasFin(c)' <=> HasFin(c)
    BY <1>0, <1>14, FrameKinds, FinWritten, <1>a DEF WriteStateClosed
  <2> QED
    <3>1. /\ ending[e] = "lock" /\ ending'[e] = "closed"
          /\ \A c \in Ends : c # e => ending'[c] = ending[c]
      BY <1>0, <1>14 DEF WriteStateClosed, TypeOK
    <3>2. UNCHANGED <<s2z, z2s, sentFin, readEnd, killed, up>>
      BY <1>14 DEF WriteStateClosed
    <3> QED
      BY <2>1, <3>1, <3>2 DEF CloseInv
<1>15. ASSUME NEW e \in Ends, Kill(e), NEW d \in Ends PROVE CloseInv(d)'
  BY <1>0, <1>15, <1>a DEF Kill, pumps, TypeOK, CloseInv
<1>16. ASSUME ChannelDies, NEW d \in Ends PROVE CloseInv(d)'
  BY <1>0, <1>16, <1>a DEF ChannelDies, pumps, TypeOK, CloseInv
<1>17. ASSUME UNCHANGED vars, NEW d \in Ends PROVE CloseInv(d)'
  BY <1>17, <1>a DEF vars, pumps, CloseInv
<1>18. ASSUME NEW e \in Ends, Stall(e), NEW d \in Ends PROVE CloseInv(d)'
  BY <1>0, <1>18, <1>a DEF Stall, pumps, TypeOK, CloseInv
<1> QED
  BY <1>1, <1>2, <1>3, <1>4, <1>5, <1>6, <1>7, <1>8, <1>9, <1>10, <1>11, <1>12, <1>13, <1>14, <1>15, <1>16, <1>17, <1>18, Steps

\* Half-close is per direction: if both flows run to their end over a channel
\* that lives, everything that either socket sent has arrived.  Neither read
\* half can have stopped at a StateClosed: its peer would have closed without
\* sending a FIN.
THEOREM BothWaysCompleteCorrect == Spec => []BothWaysComplete
<1>1. Init => \A e \in Ends : CloseInv(e)
  BY DEF Init, CloseInv
<1>2. Inv /\ (\A e \in Ends : CloseInv(e)) /\ [Next]_vars => \A e \in Ends : CloseInv(e)'
  BY CloseStep
<1>3. Inv /\ (\A e \in Ends : CloseInv(e)) => BothWaysComplete
  <2> SUFFICES ASSUME Inv, \A e \in Ends : CloseInv(e), Done, up,
                      \A e \in Ends : ~killed[e] /\ readEnd[e] \in {"fin", "closed"},
                      NEW e \in Ends
               PROVE  Len(got[e]) = taken[Peer(e)]
    BY DEF BothWaysComplete
  <2>1. s2z[Peer(e)] = "done"
    BY Peers DEF Inv, WriterInv, Done
  <2>2. readEnd[e] = "fin"
    BY <2>1, Peers DEF CloseInv
  <2> QED
    BY <2>2 DEF Inv, ReaderInv
<1>4. (\A e \in Ends : CloseInv(e))' <=> \A e \in Ends : CloseInv(e)'
  OBVIOUS
<1> QED
  BY <1>1, <1>2, <1>3, <1>4, InvCorrect, PTL DEF Spec

----------------------------------------------------------------------------
(* The refinement.                                                         *)

\* Every step of the splice is a step of the Pipe, or changes nothing in it.
LEMMA PipeStep == Inv /\ [Next]_vars => [Abstract!Next]_(Abstract!vars)
<1> SUFFICES ASSUME Inv, [Next]_vars PROVE Abstract!Next \/ UNCHANGED Abstract!vars
  OBVIOUS
<1> DEFINE ended == [d \in Ends |-> Ended(d)]
<1>0. TypeOK /\ \A e \in Ends : LogInv(e) /\ WriterInv(e) /\ ReaderInv(e)
  BY DEF Inv
<1>a. \A e \in Ends : Len(got[e]) \in Nat /\ taken[e] \in Nat
  BY <1>0, Numbers
<1>b. ASSUME taken' = taken, got' = got, \A d \in Ends : Ended(d)' = Ended(d)
      PROVE  UNCHANGED Abstract!vars
  BY <1>b DEF Abstract!vars
<1>c. ASSUME NEW e \in Ends, taken' = taken, got' = got, Ended(e) = "no", Ended(e)' = "cut",
             \A d \in Ends : d # e => Ended(d)' = Ended(d)
      PROVE  Abstract!Next
  <2>1. ended' = [ended EXCEPT ![e] = "cut"]
    BY <1>c
  <2>2. Abstract!Cut(e)
    BY <1>c, <2>1 DEF Abstract!Cut
  <2> QED
    BY <2>2 DEF Abstract!Next
<1>1. ASSUME NEW e \in Ends, ReadSocket(e) PROVE Abstract!Next \/ UNCHANGED Abstract!vars
  <2>1. taken' = [taken EXCEPT ![e] = @ + 1] /\ got' = got /\ \A d \in Ends : Ended(d)' = Ended(d)
    BY <1>1 DEF ReadSocket, Ended
  <2>2. Ended(Peer(e)) # "clean"
    BY <1>0, <1>1, Peers DEF ReadSocket, ReaderInv, Ended
  <2>3. ended' = ended /\ ended[Peer(e)] # "clean"
    BY <2>1, <2>2, Peers
  <2>4. Abstract!Send(e)
    BY <2>1, <2>3 DEF Abstract!Send
  <2> QED
    BY <2>4 DEF Abstract!Next
<1>2. ASSUME NEW e \in Ends, SocketEnds(e) PROVE Abstract!Next \/ UNCHANGED Abstract!vars
  BY <1>b, <1>2 DEF SocketEnds, Ended
<1>3. ASSUME NEW e \in Ends, WriteData(e) PROVE Abstract!Next \/ UNCHANGED Abstract!vars
  BY <1>b, <1>3 DEF WriteData, Ended
<1>4. ASSUME NEW e \in Ends, CloseWrite(e) PROVE Abstract!Next \/ UNCHANGED Abstract!vars
  BY <1>b, <1>4 DEF CloseWrite, Ended
<1>5. ASSUME NEW e \in Ends, WriteFin(e) PROVE Abstract!Next \/ UNCHANGED Abstract!vars
  BY <1>b, <1>5 DEF WriteFin, Ended
<1>6. ASSUME NEW e \in Ends, KillSocketToZiti(e) PROVE Abstract!Next \/ UNCHANGED Abstract!vars
  BY <1>b, <1>6 DEF KillSocketToZiti, Ended
<1>7. ASSUME NEW e \in Ends, Read(e) PROVE Abstract!Next \/ UNCHANGED Abstract!vars
  <2> DEFINE p == Peer(e)  f == log[p][next[e] + 1]
  <2>1. taken' = taken /\ got' = got /\ z2s[e] = "read" /\ readEnd[e] = "none"
    BY <1>0, <1>7 DEF Read, TypeOK, ReaderInv
  <2>2. Ended(e) = "no"
    BY <2>1 DEF Ended
  <2>3. CASE \E why \in {"closed", "crypto"} : StopReading(e, why)
    BY <1>0, <1>c, <2>1, <2>2, <2>3 DEF StopReading, TypeOK, Ended
  <2>4. CASE f.kind = "fin" /\ StopReading(e, "fin")
    <3>1. ended' = [ended EXCEPT ![e] = "clean"]
      BY <1>0, <2>4 DEF StopReading, TypeOK, Ended
    <3>2. Len(got[e]) = taken[p]
      <4>1. readEnd'[e] = "fin"
        BY <1>0, <2>4 DEF StopReading, TypeOK
      <4>2. ReaderInv(e)'
        BY InvStep DEF Inv
      <4> QED
        BY <2>1, <4>1, <4>2 DEF ReaderInv
    <3>3. Abstract!EndCleanly(e)
      BY <2>1, <2>2, <3>1, <3>2 DEF Abstract!EndCleanly
    <3> QED
      BY <3>3 DEF Abstract!Next
  <2>5. CASE UNCHANGED <<z2s, readEnd>> \/ (z2s' = [z2s EXCEPT ![e] = "write"] /\ UNCHANGED readEnd)
    BY <1>0, <1>b, <2>1, <2>5 DEF TypeOK, Ended
  <2> QED
    BY <1>7, <2>3, <2>4, <2>5 DEF Read
<1>8. ASSUME NEW e \in Ends, ReadEof(e) PROVE Abstract!Next \/ UNCHANGED Abstract!vars
  <2>1. taken' = taken /\ got' = got /\ z2s[e] \in {"read", "write"} /\ readEnd[e] = "none"
    BY <1>0, <1>8 DEF ReadEof, StopReading, TypeOK, ReaderInv
  <2>2. Ended(e) = "no" /\ Ended(e)' = "cut" /\ \A d \in Ends : d # e => Ended(d)' = Ended(d)
    BY <1>0, <1>8, <2>1 DEF ReadEof, StopReading, TypeOK, Ended
  <2> QED
    BY <1>c, <2>1, <2>2
<1>9. ASSUME NEW e \in Ends, ShutdownSocket(e) PROVE Abstract!Next \/ UNCHANGED Abstract!vars
  <2>1. \A d \in Ends : Ended(d)' = Ended(d)
    BY <1>0, <1>9 DEF ShutdownSocket, TypeOK, Ended
  <2> QED
    BY <1>b, <1>9, <2>1 DEF ShutdownSocket
<1>10. ASSUME NEW e \in Ends, KillZitiToSocket(e) PROVE Abstract!Next \/ UNCHANGED Abstract!vars
  <2>1. taken' = taken /\ got' = got /\ z2s[e] \in {"read", "write"} /\ readEnd[e] = "none"
    BY <1>0, <1>10 DEF KillZitiToSocket, TypeOK, ReaderInv
  <2>2. Ended(e) = "no" /\ Ended(e)' = "cut" /\ \A d \in Ends : d # e => Ended(d)' = Ended(d)
    BY <1>0, <1>10, <2>1 DEF KillZitiToSocket, TypeOK, Ended
  <2> QED
    BY <1>c, <2>1, <2>2
<1>11. ASSUME NEW e \in Ends, WriteSocket(e) PROVE Abstract!Next \/ UNCHANGED Abstract!vars
  <2>1. /\ taken' = taken /\ got' = [got EXCEPT ![e] = Append(@, hand[e])]
        /\ z2s[e] = "write" /\ z2s'[e] = "read" /\ readEnd' = readEnd
        /\ \A d \in Ends : d # e => z2s'[d] = z2s[d]
    BY <1>0, <1>11 DEF WriteSocket, TypeOK
  <2>2. readEnd[e] = "none" /\ hand[e] = Len(got[e]) + 1 /\ hand[e] <= taken[Peer(e)]
    BY <1>0, <2>1 DEF ReaderInv
  <2>3. ended' = ended /\ ended[e] = "no"
    BY <2>1, <2>2 DEF Ended
  <2>4. Len(got[e]) < taken[Peer(e)]
    BY <1>a, <2>2, Peers
  <2>5. got' = [got EXCEPT ![e] = Append(@, Len(@) + 1)]
    BY <2>1, <2>2
  <2>6. Abstract!Deliver(e)
    BY <2>1, <2>3, <2>4, <2>5 DEF Abstract!Deliver
  <2> QED
    BY <2>6 DEF Abstract!Next
<1>12. ASSUME NEW e \in Ends, WriteSocketErr(e) PROVE Abstract!Next \/ UNCHANGED Abstract!vars
  <2>1. taken' = taken /\ got' = got /\ z2s[e] \in {"read", "write"} /\ readEnd[e] = "none"
    BY <1>0, <1>12 DEF WriteSocketErr, TypeOK, ReaderInv
  <2>2. Ended(e) = "no" /\ Ended(e)' = "cut" /\ \A d \in Ends : d # e => Ended(d)' = Ended(d)
    BY <1>0, <1>12, <2>1 DEF WriteSocketErr, TypeOK, Ended
  <2> QED
    BY <1>c, <2>1, <2>2
<1>13. ASSUME NEW e \in Ends, Close(e) PROVE Abstract!Next \/ UNCHANGED Abstract!vars
  BY <1>b, <1>13 DEF Close, Ended
<1>14. ASSUME NEW e \in Ends, WriteStateClosed(e) PROVE Abstract!Next \/ UNCHANGED Abstract!vars
  BY <1>b, <1>14 DEF WriteStateClosed, Ended
<1>15. ASSUME NEW e \in Ends, Kill(e) PROVE Abstract!Next \/ UNCHANGED Abstract!vars
  BY <1>b, <1>15 DEF Kill, Ended, pumps
<1>16. CASE ChannelDies
  BY <1>b, <1>16 DEF ChannelDies, pumps, Ended
<1>17. CASE UNCHANGED vars
  BY <1>b, <1>17 DEF vars, pumps, Ended
<1>18. ASSUME NEW e \in Ends, Stall(e) PROVE Abstract!Next \/ UNCHANGED Abstract!vars
  BY <1>b, <1>18 DEF Stall, Ended, pumps
<1> QED
  BY <1>1, <1>2, <1>3, <1>4, <1>5, <1>6, <1>7, <1>8, <1>9, <1>10, <1>11, <1>12, <1>13, <1>14, <1>15, <1>16, <1>17, <1>18, Steps

\* Two sockets spliced onto a conn (proxy.rs, splice_kill.rs over conn.rs) are
\* joined by a Pipe: in each direction a stream in order and without a gap, which
\* ends cleanly only when all of it has arrived.
THEOREM Refinement == Spec => ImplementsPipe
<1>1. Init => Abstract!Init
  <2> SUFFICES ASSUME Init PROVE Abstract!Init
    OBVIOUS
  <2>1. \A e \in Ends : Ended(e) = "no"
    BY DEF Init, Ended
  <2> QED
    BY <2>1 DEF Init, Abstract!Init
<1>2. Inv /\ [Next]_vars => [Abstract!Next]_(Abstract!vars)
  BY PipeStep
<1> QED
  BY <1>1, <1>2, InvCorrect, PTL DEF Spec, ImplementsPipe, Abstract!Spec
=============================================================================
