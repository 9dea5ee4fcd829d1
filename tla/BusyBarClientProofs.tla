------------------------- MODULE BusyBarClientProofs -------------------------
(***************************************************************************)
(* Theorems about BusyBarClient, for any number of callers of Close, any   *)
(* capacity of the channel and any backoff: an owner that does not start   *)
(* it after a Close gets the stream of FrameStream; a Close that came      *)
(* after Start leaves nothing behind; and run winds down once its context  *)
(* is done.                                                                *)
(***************************************************************************)
EXTENDS BusyBarClient, TLAPS

\* What there is of a connection, by where run is: nothing before a dial and after the
\* deferred calls.
Connection ==
  /\ conn # "none" => pc \in {"dialed", "activating", "online", "joining", "panicked"}
  /\ activeConn => pc \in {"activating", "online", "joining", "panicked"}
  /\ ping # "none" => pc \in {"online", "joining", "panicked"}
  /\ connected => pc \in {"online", "joining", "disconnected", "panicked"}
  /\ pc \in {"online", "joining"} => connected

\* A Close that finds something to cancel comes after Start, and waits for run.
Cancelled(c) == cancel[c] => /\ pc # "off"
                             /\ closing[c] \in {"last", "returned"} => pc = "done"

\* A Close has found nothing to cancel.
Missed == \E c \in Closers : closing[c] # "idle" /\ ~cancel[c]

\* The channel is closed by the end of run, or by the Close of a client that was not
\* started.
Channel == /\ framesClosed => pc = "done" \/ Missed
           /\ pc = "done" => framesClosed
           /\ \A c \in Closers : closing[c] = "returned" => framesClosed
           /\ \A c \in Closers : Cancelled(c)

\* No frame is ever sent on the closed channel, whoever closes it, unless the client is
\* started after a Close.
NoSendOnClosed == pc = "panicked" => Overtaken

Inv == TypeOK /\ Connection /\ Channel /\ NoSendOnClosed

-----------------------------------------------------------------------------

LEMMA LeastIsOne == ASSUME NEW a \in Nat, NEW b \in Nat
                    PROVE  Least(a, b) \in Nat /\ Least(a, b) <= a /\ Least(a, b) <= b
  BY DEF Least

LEMMA Quotient == ASSUME NEW a \in Nat, NEW d \in Nat \ {0}
                  PROVE  a \div d \in Nat /\ d * (a \div d) <= a /\ a < d * (a \div d) + d
  OBVIOUS

LEMMA Product == ASSUME NEW a \in Nat, NEW b \in Nat PROVE a * b \in Nat
  OBVIOUS

LEMMA Monotonic == ASSUME NEW a \in Nat, NEW b \in Nat, NEW c \in Nat, a <= b
                   PROVE  c * a <= c * b
  OBVIOUS

LEMMA NextIsBounded == ASSUME NEW b \in Nat
                       PROVE  NextBackoff(b) \in 0..MaxBackoff
  <1>. USE ClientAssumption DEF ClientAssumption
  <1>1. b * MulNum \in Nat
    BY Product
  <1>2. (b * MulNum) \div MulDen \in Nat
    BY <1>1, Quotient
  <1>3. LET n == Least((b * MulNum) \div MulDen, MaxBackoff) IN n \in Nat /\ n <= MaxBackoff
    BY <1>2, LeastIsOne
  <1>. QED BY <1>3 DEF NextBackoff

LEMMA SuccIsBounded == ASSUME NEW n \in 0..MaxCount PROVE Succ(n) \in 0..MaxCount
  BY ClientAssumption DEF ClientAssumption, Succ, Least

LEMMA CapIsBoth == /\ BackoffCap \in Nat /\ InitialBackoff \in 0..BackoffCap
                   /\ 0..MaxBackoff \subseteq 0..BackoffCap
  BY ClientAssumption DEF ClientAssumption, BackoffCap

LEMMA JitterIsBounded == ASSUME NEW b \in Nat PROVE CalculateBackoff(b) \subseteq 0..MaxBackoff
  BY ClientAssumption DEF ClientAssumption, CalculateBackoff, Least

-----------------------------------------------------------------------------

\* A step of run, or of the world, leaves the channel as it is or closes it at the end.
LEMMA RunOn ==
  ASSUME Channel, NoSendOnClosed, UNCHANGED calls,
         framesClosed' = framesClosed \/ (framesClosed' /\ pc' = "done"),
         pc' = "done" => pc = "done" \/ framesClosed',
         pc = "done" => pc' = "done",
         pc # "off" => pc' # "off",
         pc' = "panicked" => pc = "panicked" \/ (pc # "done" /\ framesClosed)
  PROVE  Channel' /\ NoSendOnClosed'
<1>1. Missed' = Missed /\ (\A c \in Closers : Cancelled(c)')
  BY DEF Missed, Channel, Cancelled, calls
<1>2. \A c \in Closers : closing'[c] = "returned" => framesClosed'
  BY DEF Channel, calls
<1>3. Overtaken <=> pc # "off" /\ Missed
  BY DEF Overtaken, Missed
<1>4. Overtaken' <=> pc' # "off" /\ Missed'
  BY DEF Overtaken, Missed
<1>5. Channel'
  BY <1>1, <1>2 DEF Channel
<1>6. NoSendOnClosed'
  BY <1>1, <1>3, <1>4 DEF Channel, NoSendOnClosed
<1>7. QED
  BY <1>5, <1>6

\* A step of a Close: only the last one closes the channel, and it does so for a run that
\* has ended or that Close could not stop.
LEMMA Closing ==
  ASSUME TypeOK, Channel, NoSendOnClosed, NEW c \in Closers, pc' = pc,
         \/ CloseConn(c) \/ CloseCancel(c) \/ CloseWait(c) \/ CloseReturn(c)
  PROVE  Channel' /\ NoSendOnClosed'
<1>1. CASE CloseConn(c)
  <2>1. /\ closing' = [closing EXCEPT ![c] = "cancel"] /\ closing[c] = "idle"
        /\ cancel' = [cancel EXCEPT ![c] = (pc # "off")] /\ framesClosed' = framesClosed
    BY <1>1 DEF CloseConn, frames
  <2>2. Missed => Missed'
    BY <2>1 DEF Missed, TypeOK
  <2>3. \A d \in Closers : Cancelled(d)' /\ (closing'[d] = "returned" => framesClosed')
    BY <2>1 DEF Channel, Cancelled, TypeOK
  <2>4. QED
    BY <2>1, <2>2, <2>3 DEF Channel, NoSendOnClosed, Overtaken, Missed
<1>2. CASE CloseCancel(c) \/ CloseWait(c) \/ CloseReturn(c)
  <2>1. /\ cancel' = cancel /\ closing[c] # "idle"
        /\ \E how \in {"wait", "last", "returned"} : closing' = [closing EXCEPT ![c] = how]
    BY <1>2 DEF CloseCancel, CloseWait, CloseReturn
  <2>2. Missed' = Missed
    BY <2>1 DEF Missed, TypeOK
  <2>3. \A d \in Closers : Cancelled(d)'
    <3>1. TAKE d \in Closers
    <3>2. CASE d # c
      BY <2>1, <3>2 DEF Channel, Cancelled, TypeOK
    <3>3. CASE d = c
      BY <1>2, <3>3 DEF Channel, Cancelled, TypeOK, CloseCancel, CloseWait, CloseReturn
    <3>4. QED
      BY <3>2, <3>3
  <2>4. /\ framesClosed => framesClosed'
        /\ framesClosed' => framesClosed \/ pc = "done" \/ Missed
        /\ \A d \in Closers : closing'[d] = "returned" => framesClosed'
    BY <1>2 DEF Channel, Cancelled, Missed, TypeOK, CloseCancel, CloseWait, CloseReturn, frames
  <2>5. Channel'
    BY <2>2, <2>3, <2>4 DEF Channel
  <2>6. NoSendOnClosed'
    BY <2>2 DEF NoSendOnClosed, Overtaken, Missed
  <2>7. QED
    BY <2>5, <2>6
<1>3. QED
  BY <1>1, <1>2

LEMMA Inductive == Spec => []Inv
  <1>1. Init => Inv
    <2>1. Init => TypeOK
      <3>1. /\ 0 \in 0..PingInterval /\ 0 \in 0..StableThreshold /\ 0 \in 0..MaxCount
            /\ 0 \in 0..MaxBackoff /\ 0 \in 0..BufferSize
        BY ClientAssumption DEF ClientAssumption
      <3>2. Init => /\ closing \in [Closers -> {"idle", "cancel", "wait", "last", "returned"}]
                    /\ cancel \in [Closers -> BOOLEAN]
        BY DEF Init
      <3>. QED BY <3>1, <3>2, CapIsBoth DEF Init, TypeOK
    <2>2. Init => Connection /\ Channel /\ NoSendOnClosed
      BY DEF Init, Connection, Channel, Cancelled, NoSendOnClosed
    <2>. QED BY <2>1, <2>2 DEF Inv
  <1>2. Inv /\ [Next]_vars => Inv'
    <2>. SUFFICES ASSUME TypeOK, Connection, Channel, NoSendOnClosed, [Next]_vars
                  PROVE  TypeOK' /\ Connection' /\ Channel' /\ NoSendOnClosed'
      BY DEF Inv
    <2>1. CASE Start
      <3>1. TypeOK'
        BY <2>1 DEF Start, TypeOK, Return, link, status, waits, frames, calls
      <3>2. Connection'
        BY <2>1 DEF Start, Connection, TypeOK, Return, link, status, waits, frames, calls
      <3>3. Channel' /\ NoSendOnClosed'
        BY <2>1, RunOn DEF Start, frames, calls
      <3>. QED BY <3>1, <3>2, <3>3
    <2>2. CASE CancelContext
      <3>1. TypeOK'
        BY <2>2 DEF CancelContext, TypeOK, Return, link, status, waits, frames, calls
      <3>2. Connection'
        BY <2>2 DEF CancelContext, Connection, TypeOK, Return, link, status, waits, frames, calls
      <3>3. Channel' /\ NoSendOnClosed'
        BY <2>2, RunOn DEF CancelContext, Return, link, status, waits, frames, calls
      <3>. QED BY <3>1, <3>2, <3>3
    <2>3. CASE Top
      <3>1. TypeOK'
        BY <2>3 DEF Top, TypeOK, Return, link, status, waits, frames, calls
      <3>2. Connection'
        BY <2>3 DEF Top, Connection, TypeOK, Return, link, status, waits, frames, calls
      <3>3. Channel' /\ NoSendOnClosed'
        BY <2>3, RunOn DEF Top, Return, link, status, waits, frames, calls
      <3>. QED BY <3>1, <3>2, <3>3
    <2>4. CASE Dial
      <3>1. TypeOK'
        BY <2>4 DEF Dial, TypeOK, Return, link, status, waits, frames, calls
      <3>2. Connection'
        BY <2>4 DEF Dial, Connection, TypeOK, Return, link, status, waits, frames, calls
      <3>3. Channel' /\ NoSendOnClosed'
        BY <2>4, RunOn DEF Dial, Return, link, status, waits, frames, calls
      <3>. QED BY <3>1, <3>2, <3>3
    <2>5. CASE Adopt
      <3>1. TypeOK'
        BY <2>5 DEF Adopt, TypeOK, Return, link, status, waits, frames, calls
      <3>2. Connection'
        BY <2>5 DEF Adopt, Connection, TypeOK, Return, link, status, waits, frames, calls
      <3>3. Channel' /\ NoSendOnClosed'
        BY <2>5, RunOn DEF Adopt, Return, link, status, waits, frames, calls
      <3>. QED BY <3>1, <3>2, <3>3
    <2>6. CASE Activate
      <3>1. TypeOK'
        <4>1. 0 \in 0..StableThreshold /\ PingInterval \in 0..PingInterval
          BY ClientAssumption DEF ClientAssumption
        <4>2. pingIn' \in 0..PingInterval /\ upFor' \in 0..StableThreshold
          BY <2>6, <4>1 DEF Activate, TypeOK, status
        <4>. QED BY <2>6, <4>2 DEF Activate, TypeOK, Return, link, status, waits, frames, calls
      <3>2. Connection'
        BY <2>6 DEF Activate, Connection, TypeOK, Return, link, status, waits, frames, calls
      <3>3. Channel' /\ NoSendOnClosed'
        BY <2>6, RunOn DEF Activate, Return, link, status, waits, frames, calls
      <3>. QED BY <3>1, <3>2, <3>3
    <2>7. CASE ReadError
      <3>1. TypeOK'
        BY <2>7 DEF ReadError, TypeOK, Return, link, status, waits, frames, calls
      <3>2. Connection'
        BY <2>7 DEF ReadError, Connection, TypeOK, Return, link, status, waits, frames, calls
      <3>3. Channel' /\ NoSendOnClosed'
        BY <2>7, RunOn DEF ReadError, Return, link, status, waits, frames, calls
      <3>. QED BY <3>1, <3>2, <3>3
    <2>8. CASE Join
      <3>1. TypeOK'
        BY <2>8 DEF Join, TypeOK, Return, link, status, waits, frames, calls
      <3>2. Connection'
        BY <2>8 DEF Join, Connection, TypeOK, Return, link, status, waits, frames, calls
      <3>3. Channel' /\ NoSendOnClosed'
        BY <2>8, RunOn DEF Join, Return, link, status, waits, frames, calls
      <3>. QED BY <3>1, <3>2, <3>3
    <2>9. CASE Disconnected
      <3>1. TypeOK'
        <4>1. reconnects' \in 0..MaxCount
          BY <2>9, SuccIsBounded DEF Disconnected, TypeOK
        <4>2. delay' \in 0..BackoffCap
          BY <2>9, CapIsBoth DEF Disconnected, TypeOK, waits
        <4>3. backoff' \in 0..BackoffCap /\ sleepLeft' \in 0..MaxBackoff
          BY <2>9, <4>2, CapIsBoth, NextIsBounded, JitterIsBounded DEF Disconnected, TypeOK, waits
        <4>. QED BY <2>9, <4>1, <4>2, <4>3 DEF Disconnected, TypeOK, Return, link, status, waits, frames, calls
      <3>2. Connection'
        BY <2>9 DEF Disconnected, Connection, TypeOK, Return, link, status, waits, frames, calls
      <3>3. Channel' /\ NoSendOnClosed'
        BY <2>9, RunOn DEF Disconnected, Return, link, status, waits, frames, calls
      <3>. QED BY <3>1, <3>2, <3>3
    <2>10. CASE Sleep
      <3>1. TypeOK'
        BY <2>10 DEF Sleep, TypeOK, Return, link, status, waits, frames, calls
      <3>2. Connection'
        BY <2>10 DEF Sleep, Connection, TypeOK, Return, link, status, waits, frames, calls
      <3>3. Channel' /\ NoSendOnClosed'
        BY <2>10, RunOn DEF Sleep, Return, link, status, waits, frames, calls
      <3>. QED BY <3>1, <3>2, <3>3
    <2>11. CASE ReceiveBinary
      <3>1. TypeOK'
        BY <2>11, SuccIsBounded, ClientAssumption DEF ReceiveBinary, ClientAssumption, TypeOK, Return, link, status, waits, frames, calls
      <3>2. Connection'
        BY <2>11 DEF ReceiveBinary, Connection, TypeOK, Return, link, status, waits, frames, calls
      <3>3. Channel' /\ NoSendOnClosed'
        BY <2>11, RunOn DEF ReceiveBinary, Return, link, status, waits, frames, calls
      <3>. QED BY <3>1, <3>2, <3>3
    <2>12. CASE Consume
      <3>1. TypeOK'
        BY <2>12, ClientAssumption DEF Consume, ClientAssumption, TypeOK, Return, link, status, waits, frames, calls
      <3>2. Connection'
        BY <2>12 DEF Consume, Connection, TypeOK, Return, link, status, waits, frames, calls
      <3>3. Channel' /\ NoSendOnClosed'
        BY <2>12, RunOn DEF Consume, Return, link, status, waits, frames, calls
      <3>. QED BY <3>1, <3>2, <3>3
    <2>13. CASE PingFire
      <3>1. TypeOK'
        BY <2>13 DEF PingFire, TypeOK, Return, link, status, waits, frames, calls
      <3>2. Connection'
        BY <2>13 DEF PingFire, Connection, TypeOK, Return, link, status, waits, frames, calls
      <3>3. Channel' /\ NoSendOnClosed'
        BY <2>13, RunOn DEF PingFire, Return, link, status, waits, frames, calls
      <3>. QED BY <3>1, <3>2, <3>3
    <2>14. CASE Pong
      <3>1. TypeOK'
        BY <2>14, ClientAssumption DEF Pong, ClientAssumption, TypeOK, Return, link, status, waits, frames, calls
      <3>2. Connection'
        BY <2>14 DEF Pong, Connection, TypeOK, Return, link, status, waits, frames, calls
      <3>3. Channel' /\ NoSendOnClosed'
        BY <2>14, RunOn DEF Pong, Return, link, status, waits, frames, calls
      <3>. QED BY <3>1, <3>2, <3>3
    <2>15. CASE PingEnd
      <3>1. TypeOK'
        BY <2>15 DEF PingEnd, TypeOK, Return, link, status, waits, frames, calls
      <3>2. Connection'
        BY <2>15 DEF PingEnd, Connection, TypeOK, Return, link, status, waits, frames, calls
      <3>3. Channel' /\ NoSendOnClosed'
        BY <2>15, RunOn DEF PingEnd, Return, link, status, waits, frames, calls
      <3>. QED BY <3>1, <3>2, <3>3
    <2>16. ASSUME NEW c \in Closers, CloseConn(c)
           PROVE  TypeOK' /\ Connection' /\ Channel' /\ NoSendOnClosed'
      <3>1. TypeOK'
        BY <2>16 DEF CloseConn, TypeOK, link, status, waits, frames
      <3>2. Connection'
        BY <2>16 DEF CloseConn, Connection, TypeOK, link, status, waits, frames
      <3>3. Channel' /\ NoSendOnClosed'
        BY <2>16, Closing DEF CloseConn, frames
      <3>. QED BY <3>1, <3>2, <3>3
    <2>17. ASSUME NEW c \in Closers, CloseCancel(c)
           PROVE  TypeOK' /\ Connection' /\ Channel' /\ NoSendOnClosed'
      <3>1. TypeOK'
        BY <2>17 DEF CloseCancel, TypeOK, link, status, waits, frames
      <3>2. Connection'
        BY <2>17 DEF CloseCancel, Connection, TypeOK, link, status, waits, frames
      <3>3. Channel' /\ NoSendOnClosed'
        BY <2>17, Closing DEF CloseCancel, frames
      <3>. QED BY <3>1, <3>2, <3>3
    <2>18. ASSUME NEW c \in Closers, CloseWait(c)
           PROVE  TypeOK' /\ Connection' /\ Channel' /\ NoSendOnClosed'
      <3>1. TypeOK'
        BY <2>18 DEF CloseWait, TypeOK, link, status, waits, frames
      <3>2. Connection'
        BY <2>18 DEF CloseWait, Connection, TypeOK, link, status, waits, frames
      <3>3. Channel' /\ NoSendOnClosed'
        BY <2>18, Closing DEF CloseWait, frames
      <3>. QED BY <3>1, <3>2, <3>3
    <2>19. ASSUME NEW c \in Closers, CloseReturn(c)
           PROVE  TypeOK' /\ Connection' /\ Channel' /\ NoSendOnClosed'
      <3>1. TypeOK'
        BY <2>19 DEF CloseReturn, TypeOK, link, status, waits, frames
      <3>2. Connection'
        BY <2>19 DEF CloseReturn, Connection, TypeOK, link, status, waits, frames
      <3>3. Channel' /\ NoSendOnClosed'
        BY <2>19, Closing DEF CloseReturn, frames
      <3>. QED BY <3>1, <3>2, <3>3
    <2>20. CASE PeerFails
      <3>1. TypeOK'
        BY <2>20 DEF PeerFails, TypeOK, Return, link, status, waits, frames, calls
      <3>2. Connection'
        BY <2>20 DEF PeerFails, Connection, TypeOK, Return, link, status, waits, frames, calls
      <3>3. Channel' /\ NoSendOnClosed'
        BY <2>20, RunOn DEF PeerFails, Return, link, status, waits, frames, calls
      <3>. QED BY <3>1, <3>2, <3>3
    <2>21. CASE Tick
      <3>1. TypeOK'
        BY <2>21, ClientAssumption DEF Tick, ClientAssumption, TypeOK, Return, link, status, waits, frames, calls
      <3>2. Connection'
        BY <2>21 DEF Tick, Connection, TypeOK, Return, link, status, waits, frames, calls
      <3>3. Channel' /\ NoSendOnClosed'
        BY <2>21, RunOn DEF Tick, Return, link, status, waits, frames, calls
      <3>. QED BY <3>1, <3>2, <3>3
    <2>22. CASE UNCHANGED vars
      <3>1. TypeOK' /\ Connection'
        BY <2>22 DEF vars, TypeOK, Connection, link, status, waits, frames, calls
      <3>2. Channel' /\ NoSendOnClosed'
        BY <2>22, RunOn DEF vars, frames, calls
      <3>. QED BY <3>1, <3>2
    <2>. QED BY <2>1, <2>2, <2>3, <2>4, <2>5, <2>6, <2>7, <2>8, <2>9, <2>10, <2>11,
                <2>12, <2>13, <2>14, <2>15, <2>16, <2>17, <2>18, <2>19, <2>20, <2>21, <2>22 DEF Next, Run
  <1>. QED BY <1>1, <1>2, PTL DEF Spec

\* Type correctness; in particular the backoff never passes its cap and the channel never
\* its capacity (client.go).
THEOREM TypeCorrect == Spec => []TypeOK
  BY Inductive, PTL DEF Inv

\* readLoop never sends on the closed channel, though both run's defer and any Close may
\* close it: unless Start comes after a Close that has found nothing to cancel (client.go).
THEOREM NoPanic == Spec => []NoSendOnClosed
  BY Inductive, PTL DEF Inv

\* When a Close that was called after Start has returned, nothing of the client is left
\* (client.go, Close).
THEOREM QuietAfterClose == Spec => []ClosedIsQuiet
  <1>1. Inv => ClosedIsQuiet
    BY DEF Inv, ClosedIsQuiet, Channel, Cancelled, Connection
  <1>. QED BY <1>1, Inductive, PTL

-----------------------------------------------------------------------------
(* The client implements the stream of frames of FrameStream.              *)

\* The stage of the stream, by where run is and whether the channel is closed.
Stage == IF Overtaken THEN "late" ELSE IF pc = "panicked" THEN "crashed"
         ELSE IF pc = "off" THEN "off"
         ELSE IF framesClosed THEN "ended" ELSE "running"

\* A Close has been called.
Asked == \E c \in Closers : closing[c] # "idle"

\* An owner that has come late stays so, and there is no way to be late but by Start.
LEMMA Late ==
  ASSUME Inv, [Next]_vars
  PROVE  /\ Overtaken => Overtaken'
         /\ ~Overtaken /\ Overtaken' => Start
<1>2. CASE \E c \in Closers : CloseConn(c)
  BY <1>2 DEF CloseConn, Overtaken, Inv, TypeOK
<1>3. CASE \E c \in Closers : CloseCancel(c) \/ CloseWait(c) \/ CloseReturn(c)
  BY <1>3 DEF CloseCancel, CloseWait, CloseReturn, Overtaken, Inv, TypeOK
<1>4. ASSUME UNCHANGED calls, Start \/ (pc = "off" <=> pc' = "off")
      PROVE  /\ Overtaken => Overtaken'
             /\ ~Overtaken /\ Overtaken' => Start
  BY <1>4 DEF Overtaken, calls, Start
<1>5. CASE Start \/ Run \/ ReceiveBinary
  BY <1>4, <1>5 DEF Start, Run, Top, Dial, Adopt, Activate, ReadError, Join, Disconnected,
                    Sleep, ReceiveBinary, Return
<1>6. CASE \/ CancelContext \/ Consume \/ PingFire \/ Pong \/ PingEnd \/ PeerFails \/ Tick
           \/ UNCHANGED vars
  BY <1>4, <1>6 DEF CancelContext, Consume, PingFire, Pong, PingEnd, PeerFails, Tick, vars
<1>7. QED
  BY <1>2, <1>3, <1>5, <1>6 DEF Next

\* While run reads for an owner in time, a connection is reported; once the channel is
\* closed, none is.
LEMMA Online ==
  Inv /\ ~Overtaken => /\ pc = "online" => Stage = "running" /\ connected
                       /\ framesClosed => ~connected /\ pc \in {"off", "done"}
                       /\ pc # "panicked"
  BY DEF Inv, Channel, Missed, Overtaken, Connection, NoSendOnClosed, Stage

\* run returns only with the context done, and no connection is reported any more.
LEMMA Returns ==
  ASSUME Inv, ~Overtaken, ~Overtaken', Return, pc \notin {"off", "done"}, ctxDone, ~connected',
         UNCHANGED <<ctxDone, calls>>
  PROVE  Stream!FEnd
<1>1. Stage = "running" /\ Stage' = "ended"
  BY Online DEF Stage, Return, Inv, Channel, Missed, Overtaken
<1>2. QED
  BY <1>1 DEF Return, Stage, calls, Stream!FEnd

\* A step of a client that is not started late is one of the stream, or none.
LEMMA InTime ==
  ASSUME Inv, Inv', [Next]_vars, ~Overtaken, ~Overtaken'
  PROVE  Stream!FNext \/ UNCHANGED Stream!fvars
<1> USE DEF link, status, waits, frames
<1>0. /\ pc # "panicked" /\ pc' # "panicked"
      /\ framesClosed /\ pc # "off" => pc = "done"
      /\ framesClosed' /\ pc' # "off" => pc' = "done"
  BY Online DEF Inv, NoSendOnClosed, Channel, Missed, Overtaken
<1>1. ASSUME UNCHANGED <<framesClosed, ctxDone, calls, connected, buffered>>,
             pc' = "off" <=> pc = "off"
      PROVE  UNCHANGED Stream!fvars
  BY <1>0, <1>1 DEF Stream!fvars, calls
<1>2. CASE Start
  <2>1. ~Asked /\ ~Asked'
    BY <1>2 DEF Start, Asked, Overtaken, calls, Inv, Channel, Cancelled
  <2>2. ~framesClosed
    BY <1>2, <2>1 DEF Start, Inv, Channel, Missed, Asked
  <2>3. QED
    BY <1>0, <1>2, <2>1, <2>2 DEF Start, Stream!FNext, Stream!FStart, Asked
<1>3. CASE CancelContext
  BY <1>0, <1>3 DEF CancelContext, Stream!FNext, Stream!FTell, calls
<1>4. CASE Top
  <2>1. CASE ctxDone /\ Return
    <3>1. ~connected'
      BY <1>4 DEF Top, Inv, Connection
    <3>2. QED
      BY <1>4, <2>1, <3>1, Returns DEF Top, Stream!FNext
  <2>2. CASE ~ctxDone
    BY <1>1, <1>4, <2>2 DEF Top
  <2>3. QED
    BY <1>4, <2>1, <2>2 DEF Top
<1>5. CASE Dial \/ Adopt \/ ReadError \/ Join
  BY <1>1, <1>5 DEF Dial, Adopt, ReadError, Join
<1>6. CASE Activate
  <2>1. CASE connected' = TRUE /\ pc' = "online"
    BY <1>0, <1>6, <2>1 DEF Activate, Inv, TypeOK, Connection, calls, Stream!FNext,
                            Stream!FConnect
  <2>2. CASE UNCHANGED status /\ pc' = "disconnected"
    BY <1>1, <1>6, <2>2 DEF Activate
  <2>3. QED
    BY <1>6, <2>1, <2>2 DEF Activate
<1>7. CASE Disconnected
  <2>1. CASE ctxDone /\ Return
    BY <1>7, <2>1, Returns DEF Disconnected, Stream!FNext
  <2>2. CASE pc' = "sleeping" /\ UNCHANGED frames /\ connected
    BY <1>0, <1>7, <2>2 DEF Disconnected, Inv, TypeOK, calls, Stream!FNext, Stream!FConnect
  <2>3. CASE pc' = "sleeping" /\ UNCHANGED frames /\ ~connected
    BY <1>1, <1>7, <2>3 DEF Disconnected, Inv, TypeOK
  <2>4. QED
    BY <1>7, <2>1, <2>2, <2>3 DEF Disconnected
<1>8. CASE Sleep
  <2>1. CASE ctxDone /\ Return
    <3>1. ~connected'
      BY <1>8 DEF Sleep, Inv, Connection
    <3>2. QED
      BY <1>8, <2>1, <3>1, Returns DEF Sleep, Stream!FNext
  <2>2. CASE pc' = "top" /\ UNCHANGED frames
    BY <1>1, <1>8, <2>2 DEF Sleep
  <2>3. QED
    BY <1>8, <2>1, <2>2 DEF Sleep
<1>9. CASE ReceiveBinary
  <2>1. CASE buffered < BufferSize /\ buffered' = buffered + 1 /\ UNCHANGED pc
    BY <1>0, <1>9, <2>1, Online DEF ReceiveBinary, Stage, calls, Stream!FNext, Stream!FReceive
  <2>2. CASE UNCHANGED <<buffered, pc>>
    BY <1>1, <1>9, <2>2 DEF ReceiveBinary
  <2>3. QED
    BY <1>0, <1>9, <2>1, <2>2 DEF ReceiveBinary
<1>10. CASE Consume
  BY <1>0, <1>10 DEF Consume, calls, Stream!FNext, Stream!FTake
<1>11. CASE PingFire \/ Pong \/ PingEnd \/ PeerFails
  BY <1>1, <1>11 DEF PingFire, Pong, PingEnd, PeerFails
<1>12. CASE Tick \/ UNCHANGED vars
  BY <1>1, <1>12 DEF Tick, vars
<1>13. ASSUME NEW c \in Closers, CloseConn(c)
       PROVE  Stream!FAsk
  BY <1>0, <1>13 DEF CloseConn, Inv, TypeOK, Stream!FAsk
<1>14. ASSUME NEW c \in Closers, CloseCancel(c)
       PROVE  Stream!FTell \/ UNCHANGED Stream!fvars
  BY <1>0, <1>14 DEF CloseCancel, Inv, TypeOK, Stream!FTell, Stream!fvars
<1>15. ASSUME NEW c \in Closers, CloseWait(c) \/ CloseReturn(c)
       PROVE  UNCHANGED Stream!fvars
  <2>1. Asked /\ Asked'
    BY <1>15 DEF CloseWait, CloseReturn, Asked, Inv, TypeOK
  <2>2. UNCHANGED <<pc, ctxDone, connected, buffered>>
    BY <1>15 DEF CloseWait, CloseReturn
  <2>3. pc # "off" => framesClosed' = framesClosed
    BY <1>0, <1>15, <2>2 DEF CloseWait, CloseReturn, Inv, TypeOK, Channel
  <2>4. QED
    BY <1>0, <2>1, <2>2, <2>3 DEF Asked, Stream!fvars
<1>16. QED
  BY <1>2, <1>3, <1>4, <1>5, <1>6, <1>7, <1>8, <1>9, <1>10, <1>11, <1>12, <1>13, <1>14,
     <1>15 DEF Next, Run, Stream!FNext

\* The runner gets from the client what it relies on: readLoop sends on no closed channel
\* and through no connection that is not reported, and the channel is closed for good
\* (client.go, run, readLoop and Close); as long as nobody starts it after a Close.
THEOREM ImplementsStream == Spec => StreamSpec
<1>1. Init => Stream!FInit
  BY DEF Init, Overtaken, Stream!FInit
<1>2. Inv /\ Inv' /\ [Next]_vars => [Stream!FNext]_(Stream!fvars)
  <2> SUFFICES ASSUME Inv, Inv', [Next]_vars
               PROVE  Stream!FNext \/ UNCHANGED Stream!fvars
    OBVIOUS
  <2>1. CASE Overtaken
    BY <2>1, Late DEF Stream!FNext, Stream!FLate
  <2>2. CASE ~Overtaken /\ Overtaken'
    <3>1. Start
      BY <2>2, Late
    <3>2. Asked /\ Asked'
      BY <2>2, <3>1 DEF Overtaken, Asked, Start, calls
    <3>3. Stream!FLateStart
      BY <2>2, <3>1, <3>2 DEF Start, Stream!FLateStart, Asked, frames, status, calls
    <3>4. QED
      BY <3>3 DEF Stream!FNext
  <2>3. CASE ~Overtaken /\ ~Overtaken'
    BY <2>3, InTime
  <2>4. QED
    BY <2>1, <2>2, <2>3
<1>3. QED
  BY Inductive, <1>1, <1>2, PTL DEF Spec, StreamSpec, Stream!FSpec

-----------------------------------------------------------------------------
(* The backoff.                                                            *)

\* A multiplier of at least one and a first delay within the cap, as NewClient's defaults
\* have them; NewClient demands neither.
Growing == MulNum >= MulDen /\ InitialBackoff <= MaxBackoff

LEMMA NextIsNoLess == ASSUME Growing, NEW b \in 0..MaxBackoff PROVE b <= NextBackoff(b)
  <1>. DEFINE q == (b * MulNum) \div MulDen
  <1>1. /\ MulNum \in Nat /\ MulDen \in Nat \ {0} /\ MulDen <= MulNum /\ MaxBackoff \in Nat
        /\ b \in Nat /\ b <= MaxBackoff
    BY ClientAssumption DEF ClientAssumption, Growing
  <1>2. b * MulNum \in Nat
    BY <1>1, Product
  <1>3. q \in Nat /\ b * MulNum < MulDen * q + MulDen
    BY <1>1, <1>2, Quotient
  <1>. HIDE DEF q
  <1>4. b <= q
    <2>. SUFFICES ASSUME ~(b <= q) PROVE FALSE
      OBVIOUS
    <2>1. MulDen * (q + 1) <= MulDen * b
      BY <1>1, <1>3, Monotonic
    <2>2. b * MulDen <= b * MulNum
      BY <1>1, Monotonic
    <2>3. MulDen * (q + 1) = MulDen * q + MulDen /\ MulDen * b = b * MulDen
      BY <1>1, <1>3
    <2>. QED BY <1>1, <1>2, <1>3, <2>1, <2>2, <2>3, Product
  <1>. QED BY <1>1, <1>3, <1>4 DEF NextBackoff, Least, q

\* What run waits next is no less than what it has waited last.
Rising == delay <= backoff /\ backoff <= MaxBackoff

\* Given such a multiplier, the delay falls back only after a stable connection
\* (client.go, run and nextBackoff).
THEOREM BackoffOnlyGrows == Growing => (Spec => ResetOnlyWhenStable)
  <1>. SUFFICES ASSUME Growing PROVE Spec => ResetOnlyWhenStable
    OBVIOUS
  <1>1. Init => Rising
    BY ClientAssumption DEF Init, Rising, Growing, ClientAssumption
  <1>2. Inv /\ Rising /\ [Next]_vars
          => Rising' /\ (delay' < delay => connected /\ upFor >= StableThreshold)
    <2>. SUFFICES ASSUME Inv, Rising, [Next]_vars
                  PROVE  Rising' /\ (delay' < delay => connected /\ upFor >= StableThreshold)
      OBVIOUS
    <2>1. delay \in Nat /\ backoff \in Nat
      BY CapIsBoth DEF Inv, TypeOK
    <2>2. CASE UNCHANGED waits
      BY <2>1, <2>2 DEF waits, Rising
    <2>3. CASE Tick
      BY <2>1, <2>3 DEF Tick, Rising
    <2>4. CASE Disconnected /\ ~UNCHANGED waits
      <3>1. /\ delay' = (IF Stable THEN InitialBackoff ELSE backoff)
            /\ backoff' = NextBackoff(delay')
        BY <2>4 DEF Disconnected
      <3>2. delay' \in 0..MaxBackoff
        BY <2>1, <3>1, ClientAssumption DEF ClientAssumption, Growing, Rising
      <3>3. delay' <= backoff' /\ backoff' <= MaxBackoff
        BY <3>1, <3>2, NextIsNoLess, NextIsBounded
      <3>4. delay' < delay => Stable
        BY <2>1, <3>1 DEF Rising
      <3>. QED BY <3>3, <3>4 DEF Rising, Stable
    <2>. QED
      BY <2>2, <2>3, <2>4
         DEF Next, Run, Start, CancelContext, Top, Dial, Adopt, Activate, ReadError, Join, Sleep,
             ReceiveBinary, Consume, PingFire, Pong, PingEnd, CloseConn, CloseCancel,
             CloseWait, CloseReturn, PeerFails, vars
  <1>. QED BY <1>1, <1>2, Inductive, PTL DEF Spec, ResetOnlyWhenStable

-----------------------------------------------------------------------------
(* The end.  What CloseReturns needs beside fairness and the end of the    *)
(* ping goroutine, which Join waits for.                                   *)

\* Steps that run has left at most, once its context is done.
Left == CASE pc = "online" -> 3
          [] pc \in {"dialing", "dialed", "activating", "joining", "sleeping"} -> 2
          [] pc \in {"off", "top", "disconnected"} -> 1
          [] OTHER -> 0

WindsDown == [][ctxDone => Left' <= Left /\ (Run => Left' < Left)]_vars

\* Once the context is done, by Close or by its owner, run makes at most three more steps,
\* wherever it was, or is started only now: none of them begins another attempt, and only the
\* sleep it may be in goes back to the top, where the context ends it (client.go, run and
\* connectAndSupervise).
THEOREM RunWindsDown == Spec => WindsDown /\ [](Left \in 0..3)
<1>1. Left \in 0..3 /\ Left' \in 0..3
  BY DEF Left
<1>2. Inv /\ [Next]_vars => [ctxDone => Left' <= Left /\ (Run => Left' < Left)]_vars
  <2> SUFFICES ASSUME Inv, [Next]_vars, ctxDone
               PROVE  Left' <= Left /\ (Run => Left' < Left)
    OBVIOUS
  <2>1. CASE Run
    <3>1. CASE Top \/ Disconnected
      <4>1. pc \in {"top", "disconnected"} /\ pc' = "done"
        BY <3>1 DEF Top, Disconnected, Return
      <4>2. QED
        BY <4>1 DEF Left
    <3>2. CASE Sleep
      <4>1. pc = "sleeping" /\ pc' \in {"top", "done"}
        BY <3>2 DEF Sleep, Return
      <4>2. QED
        BY <4>1 DEF Left
    <3>3. CASE Dial \/ Adopt \/ Activate \/ Join
      <4>1. /\ pc \in {"dialing", "dialed", "activating", "joining"}
            /\ pc' = "disconnected"
        BY <3>3 DEF Dial, Adopt, Activate, Join
      <4>2. QED
        BY <4>1 DEF Left
    <3>4. CASE ReadError
      <4>1. pc = "online" /\ pc' = "joining"
        BY <3>4 DEF ReadError
      <4>2. QED
        BY <4>1 DEF Left
    <3>5. QED
      BY <2>1, <3>1, <3>2, <3>3, <3>4 DEF Run
  <2>2. CASE ~Run
    <3>1. \/ pc' = pc
          \/ pc = "off" /\ pc' = "top"
          \/ pc = "online" /\ pc' = "panicked"
      BY <2>2 DEF Next, Start, CancelContext, ReceiveBinary, Consume, PingFire, Pong, PingEnd,
                  CloseConn, CloseCancel, CloseWait, CloseReturn, PeerFails, Tick, vars
    <3>2. QED
      BY <1>1, <2>2, <3>1 DEF Left
  <2>3. QED
    BY <2>1, <2>2
<1>3. QED
  BY Inductive, <1>1, <1>2, PTL DEF Spec, WindsDown
=============================================================================
