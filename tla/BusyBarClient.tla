--------------------------- MODULE BusyBarClient ---------------------------
(***************************************************************************)
(* internal/busybar/client.go: the goroutine that keeps one WebSocket      *)
(* connection to the device, its keep-alive ping goroutine, the channel of *)
(* binary frames, and Close.                                               *)
(*                                                                         *)
(* The network and the WebSocket library are modelled from their use: a    *)
(* connection is live, silent (the peer sends nothing, and nothing says    *)
(* why) or broken (an error or end of stream is there to be read); Ping    *)
(* returns when the pong comes or its context ends, and has no time limit  *)
(* of its own; neither has Read.  Frames are counted, not distinguished.   *)
(*                                                                         *)
(* Start and Close may come in any order: Start asks only whether the      *)
(* client has been started before, and a Close that came first has found   *)
(* nothing to cancel and closes the channel all the same.  A panic ends    *)
(* the process: the steps that the model still makes then mean nothing.    *)
(***************************************************************************)
EXTENDS Naturals

CONSTANTS Closers,                    \* goroutines that call Close
          InitialBackoff, MaxBackoff, \* in ticks
          MulNum, MulDen,             \* BackoffMultiplier as a fraction
          StableThreshold,            \* uptime that resets the backoff
          PingInterval,
          BufferSize,                 \* capacity of framesChan
          MaxCount                    \* ReconnectCount and OverflowCount stop here

\* NewClient replaces every value that is not positive.
ASSUME ClientAssumption ==
         /\ InitialBackoff \in Nat \ {0} /\ MaxBackoff \in Nat \ {0}
         /\ MulNum \in Nat \ {0} /\ MulDen \in Nat \ {0}
         /\ StableThreshold \in Nat \ {0} /\ PingInterval \in Nat \ {0}
         /\ BufferSize \in Nat \ {0} /\ MaxCount \in Nat

VARIABLES
  ctxDone,      \* the run context is done
  pc,           \* where the run goroutine is
  conn,         \* "none", "live", "silent" or "broken"
  activeConn,   \* the client knows the connection
  connDone,     \* connCtx has been cancelled
  ping,         \* the ping goroutine: "none", "ticking", "waiting"
  pingIn,       \* ticks to the next ping
  connected, upFor, reconnects,  \* the status, its uptime up to StableThreshold
  backoff,      \* currentBackoff of run
  delay,        \* backoffDelay, as CurrentBackoff reports it
  sleepLeft,    \* what is left of the sleep
  buffered, overflow, framesClosed,  \* the channel of frames
  closing,      \* per caller of Close
  cancel        \* per caller of Close: there was a context to cancel

status == <<connected, upFor, reconnects>>
waits  == <<backoff, delay, sleepLeft>>
frames == <<buffered, overflow, framesClosed>>
link   == <<conn, activeConn, connDone, ping, pingIn>>
calls  == <<closing, cancel>>
vars   == <<ctxDone, pc, link, status, waits, frames, calls>>

Least(a, b) == IF a < b THEN a ELSE b
Succ(n)     == Least(n + 1, MaxCount)

-----------------------------------------------------------------------------

Init == /\ ctxDone = FALSE /\ pc = "off"
        /\ conn = "none" /\ activeConn = FALSE /\ connDone = FALSE
        /\ ping = "none" /\ pingIn = 0
        /\ connected = FALSE /\ upFor = 0 /\ reconnects = 0
        /\ backoff = InitialBackoff /\ delay = InitialBackoff /\ sleepLeft = 0
        /\ buffered = 0 /\ overflow = 0 /\ framesClosed = FALSE
        /\ closing = [c \in Closers |-> "idle"] /\ cancel = [c \in Closers |-> FALSE]

Start == /\ pc = "off"
         /\ pc' = "top"
         /\ UNCHANGED <<ctxDone, link, status, waits, frames, calls>>

\* The context that Start is given ends, before Start or after it.
CancelContext == /\ ~ctxDone
                 /\ ctxDone' = TRUE
                 /\ UNCHANGED <<pc, link, status, waits, frames, calls>>

\* run returns; its deferred function closes the channel of frames.
Return == pc' = "done" /\ framesClosed' = TRUE /\ UNCHANGED <<buffered, overflow>>

-----------------------------------------------------------------------------
(* run and connectAndSupervise.                                            *)

Top == /\ pc = "top"
       /\ \/ ctxDone /\ Return
          \/ ~ctxDone /\ pc' = "dialing" /\ UNCHANGED frames
       /\ UNCHANGED <<ctxDone, link, status, waits, calls>>

\* The dial succeeds, or fails within its timeout or because the context is done.
Dial == /\ pc = "dialing"
        /\ \/ /\ ~ctxDone
              /\ conn' = "live" /\ pc' = "dialed"
           \/ /\ pc' = "disconnected" /\ UNCHANGED conn
        /\ UNCHANGED <<ctxDone, activeConn, connDone, ping, pingIn, status, waits, frames, calls>>

\* After the dial: the context again, and Close is shown the connection.
Adopt == /\ pc = "dialed"
         /\ \/ /\ ctxDone
               /\ conn' = "none" /\ pc' = "disconnected" /\ UNCHANGED activeConn
            \/ /\ ~ctxDone
               /\ activeConn' = TRUE /\ pc' = "activating" /\ UNCHANGED conn
         /\ UNCHANGED <<ctxDone, connDone, ping, pingIn, status, waits, frames, calls>>

\* The activation message is written within five seconds, or not.
Activate == /\ pc = "activating"
            /\ \/ /\ conn # "broken" /\ ~ctxDone
                  /\ connected' = TRUE /\ upFor' = 0
                  /\ connDone' = FALSE /\ ping' = "ticking" /\ pingIn' = PingInterval
                  /\ pc' = "online"
                  /\ UNCHANGED <<conn, activeConn, reconnects>>
               \/ /\ conn' = "none" /\ activeConn' = FALSE
                  /\ pc' = "disconnected"
                  /\ UNCHANGED <<connDone, ping, pingIn, status>>
            /\ UNCHANGED <<ctxDone, waits, frames, calls>>

\* A binary frame is read: the send does not block, a full channel drops it; a closed one
\* makes readLoop panic.
ReceiveBinary ==
  /\ pc = "online" /\ conn = "live"
  /\ \/ framesClosed /\ pc' = "panicked" /\ UNCHANGED <<buffered, overflow>>
     \/ /\ ~framesClosed /\ buffered < BufferSize
        /\ buffered' = buffered + 1 /\ UNCHANGED <<pc, overflow>>
     \/ /\ ~framesClosed /\ buffered >= BufferSize
        /\ overflow' = Succ(overflow) /\ UNCHANGED <<pc, buffered>>
  /\ UNCHANGED <<ctxDone, link, status, waits, framesClosed, calls>>

\* The runner takes a frame.
Consume == /\ buffered > 0
           /\ buffered' = buffered - 1
           /\ UNCHANGED <<ctxDone, pc, link, status, waits, overflow, framesClosed,
                          calls>>

\* Read fails; connCtx is cancelled before the ping goroutine is waited for.
ReadError == /\ pc = "online" /\ (conn = "broken" \/ connDone \/ ctxDone)
             /\ connDone' = TRUE
             /\ pc' = "joining"
             /\ UNCHANGED <<ctxDone, conn, activeConn, ping, pingIn, status, waits,
                            frames, calls>>

\* pingWg.Wait and the other deferred calls of connectAndSupervise.
Join == /\ pc = "joining" /\ ping = "none"
        /\ conn' = "none" /\ activeConn' = FALSE
        /\ pc' = "disconnected"
        /\ UNCHANGED <<ctxDone, connDone, ping, pingIn, status, waits, frames, calls>>

\* Mutant: any connection that came up resets the backoff.
StableAlways == connected

\* The uptime test; connectAndSupervise returns an error on every path, so that a
\* connection that did not come up has no uptime.
Stable == connected /\ upFor >= StableThreshold

\* Full jitter: any share of the delay but the whole, in ticks.
CalculateBackoff(b) == 0..(Least(b, MaxBackoff) - 1)

NextBackoff(b) == Least((b * MulNum) \div MulDen, MaxBackoff)

\* Mutant: the status is left as it was.
DisconnectedStale ==
  /\ pc = "disconnected"
  /\ reconnects' = Succ(reconnects) /\ UNCHANGED <<connected, upFor>>
  /\ \/ ctxDone /\ Return /\ UNCHANGED waits
     \/ /\ ~ctxDone
        /\ delay' = (IF Stable THEN InitialBackoff ELSE backoff)
        /\ sleepLeft' \in CalculateBackoff(delay')
        /\ backoff' = NextBackoff(delay')
        /\ pc' = "sleeping" /\ UNCHANGED frames
  /\ UNCHANGED <<ctxDone, link, calls>>

\* Mutant: a failed attempt ends the loop.
DisconnectedFinal ==
  /\ pc = "disconnected"
  /\ connected' = FALSE /\ reconnects' = Succ(reconnects) /\ UNCHANGED upFor
  /\ Return /\ UNCHANGED <<ctxDone, waits, link, calls>>

\* The end of an attempt: the status, then the backoff with full jitter.
Disconnected ==
  /\ pc = "disconnected"
  /\ connected' = FALSE /\ reconnects' = Succ(reconnects) /\ UNCHANGED upFor
  /\ \/ ctxDone /\ Return /\ UNCHANGED waits
     \/ /\ ~ctxDone
        /\ delay' = (IF Stable THEN InitialBackoff ELSE backoff)
        /\ sleepLeft' \in CalculateBackoff(delay')
        /\ backoff' = NextBackoff(delay')
        /\ pc' = "sleeping" /\ UNCHANGED frames
  /\ UNCHANGED <<ctxDone, link, calls>>

Sleep == /\ pc = "sleeping"
         /\ \/ ctxDone /\ Return
            \/ sleepLeft = 0 /\ pc' = "top" /\ UNCHANGED frames
         /\ UNCHANGED <<ctxDone, link, status, waits, calls>>

-----------------------------------------------------------------------------
(* The ping goroutine.                                                     *)

PingFire == /\ ping = "ticking" /\ pingIn = 0
            /\ ping' = "waiting"
            /\ UNCHANGED <<ctxDone, pc, conn, activeConn, connDone, pingIn, status, waits,
                           frames, calls>>

Pong == /\ ping = "waiting" /\ conn = "live"
        /\ ping' = "ticking" /\ pingIn' = PingInterval
        /\ UNCHANGED <<ctxDone, pc, conn, activeConn, connDone, status, waits, frames, calls>>

\* The ping fails, or the goroutine sees its context done.
PingEnd == /\ \/ ping # "none" /\ (connDone \/ ctxDone)
              \/ ping = "waiting" /\ conn = "broken"
           /\ ping' = "none" /\ connDone' = TRUE
           /\ UNCHANGED <<ctxDone, pc, conn, activeConn, pingIn, status, waits, frames, calls>>

-----------------------------------------------------------------------------
(* Close, and the world.                                                   *)

\* Close reads the cancel function and the connection, which it closes with
\* StatusNormalClosure ...
CloseConn(c) == /\ closing[c] = "idle"
                /\ closing' = [closing EXCEPT ![c] = "cancel"]
                /\ cancel' = [cancel EXCEPT ![c] = (pc # "off")]
                /\ conn' = IF activeConn THEN "broken" ELSE conn
                /\ UNCHANGED <<ctxDone, pc, activeConn, connDone, ping, pingIn, status,
                               waits, frames>>

\* Mutant: Close relies on the closed connection to stop the loop.
CloseCancelNot(c) == /\ closing[c] = "cancel"
                     /\ closing' = [closing EXCEPT ![c] = "wait"]
                     /\ UNCHANGED <<ctxDone, pc, link, status, waits, frames, cancel>>

\* ... cancels the run context, if it has found one ...
CloseCancel(c) == /\ closing[c] = "cancel"
                  /\ closing' = [closing EXCEPT ![c] = "wait"]
                  /\ ctxDone' = (ctxDone \/ cancel[c])
                  /\ UNCHANGED <<pc, link, status, waits, frames, cancel>>

\* Mutant: the reader is not waited for.
CloseWaitNot(c) == /\ closing[c] = "wait"
                   /\ closing' = [closing EXCEPT ![c] = "last"]
                   /\ UNCHANGED <<ctxDone, pc, link, status, waits, frames, cancel>>

\* ... waits for run, if it has been started by now ...
CloseWait(c) == /\ closing[c] = "wait" /\ pc \in {"off", "done"}
                /\ closing' = [closing EXCEPT ![c] = "last"]
                /\ UNCHANGED <<ctxDone, pc, link, status, waits, frames, cancel>>

\* ... and sees to it that the channel is closed, once.
CloseReturn(c) == /\ closing[c] = "last"
                  /\ closing' = [closing EXCEPT ![c] = "returned"]
                  /\ framesClosed' = TRUE
                  /\ UNCHANGED <<ctxDone, pc, link, status, waits, buffered, overflow, cancel>>

\* The device goes silent, comes back, or resets the connection.
PeerFails == /\ conn \in {"live", "silent"}
             /\ conn' \in {"live", "silent", "broken"} \ {conn}
             /\ UNCHANGED <<ctxDone, pc, activeConn, connDone, ping, pingIn, status, waits,
                            frames, calls>>

Tick == /\ sleepLeft' = IF pc = "sleeping" /\ sleepLeft > 0 THEN sleepLeft - 1 ELSE sleepLeft
        /\ pingIn' = IF ping = "ticking" /\ pingIn > 0 THEN pingIn - 1 ELSE pingIn
        /\ upFor' = IF connected /\ upFor < StableThreshold THEN upFor + 1 ELSE upFor
        /\ <<sleepLeft', pingIn', upFor'>> # <<sleepLeft, pingIn, upFor>>
        /\ UNCHANGED <<ctxDone, pc, conn, activeConn, connDone, ping, connected, reconnects,
                       backoff, delay, frames, calls>>

-----------------------------------------------------------------------------

Run == Top \/ Dial \/ Adopt \/ Activate \/ ReadError \/ Join \/ Disconnected \/ Sleep

Next == \/ Start \/ CancelContext
        \/ Run \/ ReceiveBinary \/ Consume
        \/ PingFire \/ Pong \/ PingEnd
        \/ \E c \in Closers : CloseConn(c) \/ CloseCancel(c) \/ CloseWait(c) \/ CloseReturn(c)
        \/ PeerFails
        \/ Tick

Spec == Init /\ [][Next]_vars

\* Goroutines run, time passes, a live device answers pings.  Dial and the
\* activation have timeouts; whether they succeed is up to the network.
Fairness == /\ WF_vars(Run) /\ WF_vars(PingFire) /\ WF_vars(Pong) /\ WF_vars(PingEnd)
            /\ WF_vars(Tick)
            /\ \A c \in Closers : WF_vars(CloseCancel(c) \/ CloseWait(c) \/ CloseReturn(c))

FairSpec == Spec /\ Fairness

-----------------------------------------------------------------------------
(* Properties.                                                             *)

BackoffCap == IF InitialBackoff > MaxBackoff THEN InitialBackoff ELSE MaxBackoff

\* Types, among them that the backoff stays within its bounds.
TypeOK ==
  /\ ctxDone \in BOOLEAN /\ activeConn \in BOOLEAN /\ connDone \in BOOLEAN
  /\ connected \in BOOLEAN /\ framesClosed \in BOOLEAN
  /\ pc \in {"off", "top", "dialing", "dialed", "activating", "online", "joining",
             "disconnected", "sleeping", "done", "panicked"}
  /\ conn \in {"none", "live", "silent", "broken"}
  /\ ping \in {"none", "ticking", "waiting"}
  /\ pingIn \in 0..PingInterval /\ upFor \in 0..StableThreshold
  /\ reconnects \in 0..MaxCount /\ overflow \in 0..MaxCount
  /\ backoff \in 0..BackoffCap /\ delay \in 0..BackoffCap /\ sleepLeft \in 0..MaxBackoff
  /\ buffered \in 0..BufferSize
  /\ closing \in [Closers -> {"idle", "cancel", "wait", "last", "returned"}]
  /\ cancel \in [Closers -> BOOLEAN]

\* The client has been started although a Close had come before that found nothing to
\* cancel.
Overtaken == pc # "off" /\ \E c \in Closers : closing[c] # "idle" /\ ~cancel[c]

\* A client that is not started after a Close is the stream of frames that the runner
\* relies on: nothing is sent on the channel once it is closed, whoever closes it, and
\* nothing comes but through a connection that the client reports.
Stream == INSTANCE FrameStream WITH
            Size        <- BufferSize,
            stage       <- IF Overtaken THEN "late" ELSE IF pc = "panicked" THEN "crashed"
                           ELSE IF pc = "off" THEN "off"
                           ELSE IF framesClosed THEN "ended" ELSE "running",
            told        <- ctxDone,
            asked       <- \E c \in Closers : closing[c] # "idle",
            isConnected <- connected,
            frames      <- buffered
StreamSpec == Stream!FSpec

\* When a Close has returned the channel of frames is closed for the runner to drain; and
\* if it was called after Start, the client reports no connection, holds none, and has no
\* goroutine left.
ClosedIsQuiet ==
  \A c \in Closers : closing[c] = "returned" =>
    /\ framesClosed
    /\ cancel[c] => pc = "done" /\ ~connected /\ conn = "none" /\ ping = "none"

\* The backoff falls back only after a connection that was stable; a device that
\* accepts connections and drops them is not hammered.  (For a multiplier of at
\* least one and InitialBackoff <= MaxBackoff: NewClient demands neither.)
ResetOnlyWhenStable ==
  [][delay' < delay => connected /\ upFor >= StableThreshold]_vars

\* An error on the connection reaches the status, whatever the ping goroutine does.
BrokenNoticed == (conn = "broken") ~> (~connected \/ pc = "panicked")

\* A client that is not stopped goes on dialling for ever.
KeepsTrying == (pc # "off" /\ ~connected) ~> (connected \/ pc = "dialing" \/ ctxDone)

\* Close returns, even if the device has gone silent; unless it found nothing to cancel
\* and then waits for a client that was started since and that nobody stops.
CloseReturns ==
  \A c \in Closers : (closing[c] # "idle") ~> (\/ closing[c] = "returned" \/ pc = "panicked"
                                              \/ (~cancel[c] /\ pc # "off" /\ ~ctxDone))

\* What INTENT.md says of the pings, and Ping and Read without a deadline do not do:
\* a dead connection is detected.
SilenceNoticed == (conn = "silent") ~> (conn # "silent")
=============================================================================
