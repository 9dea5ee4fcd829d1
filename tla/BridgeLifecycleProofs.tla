----------------------- MODULE BridgeLifecycleProofs -----------------------
(***************************************************************************)
(* Theorems about BridgeLifecycle, for any launch, any capacity of the     *)
(* channel of frames and any calls of Close and Shutdown beside Run.       *)
(*                                                                         *)
(* Only what the settings in force ask for is started; a Run that returns  *)
(* in time leaves nothing of what it started; it returns within a bounded  *)
(* number of its own steps; and of the WebSocket client the bridge uses    *)
(* what FrameStream says, which BusyBarClient implements.                  *)
(***************************************************************************)
EXTENDS BridgeLifecycle, SequenceTheorems, WellFoundedInduction, TLAPS

\* Nothing runs before the settings are read, and nothing but what NewRunner has made.
Made == \A c \in Components : worker[c] = "running" => rpc # "parse" /\ c \in wired

\* What Run has returned, and that only the end of the wait can time out.
Outcome == /\ result # "none" <=> rpc = "returned"
           /\ rpc \notin {"stopServer", "returned"} => ~timedOut

\* The WebSocket client has been waited for.
PastBusy    == rpc \in {"drain", "wait", "stopServer"} \/ result = "ok"
BusyStopped == PastBusy => worker["busy"] # "running"

\* The channel has been emptied, and nobody fills it any more.
PastDrain == rpc \in {"wait", "stopServer"} \/ result = "ok"
Emptied   == PastDrain => frames = 0

\* Until Run closes the dispatcher, only somebody else can have.
HassByOwner == rpc \notin {"wait", "stopServer", "returned"} /\ "hass" \in closed => owner > 0

\* The components that Run does not wait for.
Unawaited == PastDrain => \A c \in (SideBySide \cap wired) \ awaited : c = "hass" /\ owner > 0

\* What has been waited for in time is gone.
PastWait == rpc = "stopServer" \/ result = "ok"
Gone     == PastWait /\ ~timedOut => \A c \in awaited : worker[c] # "running"

\* The server goes last.
ServerStopped == result = "ok" => worker["server"] # "running"

Shut == Outcome /\ BusyStopped /\ Emptied /\ HassByOwner /\ Unawaited /\ Gone /\ ServerStopped

Inv == TypeOK /\ Made /\ Shut

-----------------------------------------------------------------------------
(* Types.                                                                  *)

\* The components that NewRunner makes are components.
LEMMA WiredTyped == \A cfg : Wired(cfg) \subseteq Components
  BY DEF Wired, Components

\* Stopping one goroutine keeps the others as they are.
LEMMA Ends ==
  ASSUME NEW w \in [Components -> {"off", "running", "ended"}], NEW c \in Components,
         NEW s \in {"off", "running", "ended"}
  PROVE  /\ [w EXCEPT ![c] = s] \in [Components -> {"off", "running", "ended"}]
         /\ \A d \in Components : [w EXCEPT ![c] = s][d] = IF d = c THEN s ELSE w[d]
  OBVIOUS

\* It holds when the process starts.
LEMMA InitInv == Init => Inv
<1> SUFFICES ASSUME Init PROVE Inv
  OBVIOUS
<1>1. worker \in [Components -> {"off", "running", "ended"}]
      /\ \A c \in Components : worker[c] = "off"
  BY DEF Init
<1>2. Len(CloseOrder) = 5 /\ Len(Order) = 6
  BY DEF CloseOrder, Order
<1>3. TypeOK
  <2>1. {timedOut, ctxDone, isConnected, connected, syncDone} \subseteq BOOLEAN
    BY DEF Init
  <2>2. next \in 1..(Len(Order) + 1) /\ owner \in 0..Len(CloseOrder) /\ frames \in 0..MaxFrames
    BY <1>2, BridgeAssumption DEF Init
  <2>3. QED
    BY <1>1, <2>1, <2>2 DEF Init, TypeOK
<1>4. Made
  BY <1>1 DEF Made
<1>5. Shut
  BY DEF Init, Shut, Outcome, BusyStopped, PastBusy, Emptied, PastDrain, HassByOwner,
         Unawaited, Gone, PastWait, ServerStopped
<1>6. QED
  BY <1>3, <1>4, <1>5 DEF Inv

\* Every step keeps the types (runner.go, Run, Close, Shutdown).
LEMMA TypeNext == TypeOK /\ [Next]_vars => TypeOK'
<1> SUFFICES ASSUME TypeOK, [Next]_vars PROVE TypeOK'
  OBVIOUS
<1> USE BridgeAssumption DEF Goto, Return, process, parts, stream, status
<1>0. /\ rpc \in {"parse", "start", "loop", "cancelSync", "closeBusy", "drain", "wait",
                  "stopServer", "returned"}
      /\ worker \in [Components -> {"off", "running", "ended"}]
      /\ timedOut \in BOOLEAN /\ ctxDone \in BOOLEAN /\ isConnected \in BOOLEAN
      /\ connected \in BOOLEAN /\ syncDone \in BOOLEAN
      /\ Len(Order) = 6 /\ Len(CloseOrder) = 5
      /\ "server" \in Components /\ "busy" \in Components /\ SideBySide \subseteq Components
  BY DEF TypeOK, Order, CloseOrder, Components, SideBySide
<1>1. CASE Configure
  <2>1. {timedOut', ctxDone', isConnected', connected', syncDone'} \subseteq BOOLEAN
    BY <1>1, <1>0 DEF Configure
  <2>2. /\ next' \in 1..(Len(Order) + 1)
        /\ owner' \in 0..Len(CloseOrder) /\ frames' \in 0..MaxFrames
    BY <1>1, <1>0 DEF Configure, TypeOK
  <2>3. worker' \in [Components -> {"off", "running", "ended"}]
    BY <1>1, <1>0, Ends DEF Configure
  <2>4. QED
    BY <1>1, <1>0, <2>1, <2>2, <2>3, WiredTyped DEF Configure, TypeOK
<1>2. CASE Start
  <2>1. {timedOut', ctxDone', isConnected', connected', syncDone'} \subseteq BOOLEAN
    BY <1>2, <1>0 DEF Start
  <2>2. /\ next' \in 1..(Len(Order) + 1)
        /\ owner' \in 0..Len(CloseOrder) /\ frames' \in 0..MaxFrames
    BY <1>2, <1>0 DEF Start, TypeOK
  <2>3. worker' \in [Components -> {"off", "running", "ended"}]
    BY <1>2, <1>0, Ends DEF Start
  <2>4. QED
    BY <1>2, <1>0, <2>1, <2>2, <2>3 DEF Start, TypeOK
<1>3. CASE StartFails
  <2>1. {timedOut', ctxDone', isConnected', connected', syncDone'} \subseteq BOOLEAN
    BY <1>3, <1>0 DEF StartFails
  <2>2. /\ next' \in 1..(Len(Order) + 1)
        /\ owner' \in 0..Len(CloseOrder) /\ frames' \in 0..MaxFrames
    BY <1>3, <1>0 DEF StartFails, TypeOK
  <2>3. worker' \in [Components -> {"off", "running", "ended"}]
    BY <1>3, <1>0, Ends DEF StartFails
  <2>4. QED
    BY <1>3, <1>0, <2>1, <2>2, <2>3 DEF StartFails, TypeOK
<1>4. CASE Started
  <2>1. {timedOut', ctxDone', isConnected', connected', syncDone'} \subseteq BOOLEAN
    BY <1>4, <1>0 DEF Started
  <2>2. /\ next' \in 1..(Len(Order) + 1)
        /\ owner' \in 0..Len(CloseOrder) /\ frames' \in 0..MaxFrames
    BY <1>4, <1>0 DEF Started, TypeOK
  <2>3. worker' \in [Components -> {"off", "running", "ended"}]
    BY <1>4, <1>0, Ends DEF Started
  <2>4. QED
    BY <1>4, <1>0, <2>1, <2>2, <2>3 DEF Started, TypeOK
<1>5. CASE HandleFrame
  <2>1. {timedOut', ctxDone', isConnected', connected', syncDone'} \subseteq BOOLEAN
    BY <1>5, <1>0 DEF HandleFrame
  <2>2. /\ next' \in 1..(Len(Order) + 1)
        /\ owner' \in 0..Len(CloseOrder) /\ frames' \in 0..MaxFrames
    BY <1>5, <1>0 DEF HandleFrame, TypeOK
  <2>3. worker' \in [Components -> {"off", "running", "ended"}]
    BY <1>5, <1>0, Ends DEF HandleFrame
  <2>4. QED
    BY <1>5, <1>0, <2>1, <2>2, <2>3 DEF HandleFrame, TypeOK
<1>6. CASE LeaveLoop
  <2>1. {timedOut', ctxDone', isConnected', connected', syncDone'} \subseteq BOOLEAN
    BY <1>6, <1>0 DEF LeaveLoop
  <2>2. /\ next' \in 1..(Len(Order) + 1)
        /\ owner' \in 0..Len(CloseOrder) /\ frames' \in 0..MaxFrames
    BY <1>6, <1>0 DEF LeaveLoop, TypeOK
  <2>3. worker' \in [Components -> {"off", "running", "ended"}]
    BY <1>6, <1>0, Ends DEF LeaveLoop
  <2>4. QED
    BY <1>6, <1>0, <2>1, <2>2, <2>3 DEF LeaveLoop, TypeOK
<1>7. CASE CancelSync
  <2>1. {timedOut', ctxDone', isConnected', connected', syncDone'} \subseteq BOOLEAN
    BY <1>7, <1>0 DEF CancelSync
  <2>2. /\ next' \in 1..(Len(Order) + 1)
        /\ owner' \in 0..Len(CloseOrder) /\ frames' \in 0..MaxFrames
    BY <1>7, <1>0 DEF CancelSync, TypeOK
  <2>3. worker' \in [Components -> {"off", "running", "ended"}]
    BY <1>7, <1>0, Ends DEF CancelSync
  <2>4. QED
    BY <1>7, <1>0, <2>1, <2>2, <2>3 DEF CancelSync, TypeOK
<1>8. CASE BusyClosed
  <2>1. {timedOut', ctxDone', isConnected', connected', syncDone'} \subseteq BOOLEAN
    BY <1>8, <1>0 DEF BusyClosed
  <2>2. /\ next' \in 1..(Len(Order) + 1)
        /\ owner' \in 0..Len(CloseOrder) /\ frames' \in 0..MaxFrames
    BY <1>8, <1>0 DEF BusyClosed, TypeOK
  <2>3. worker' \in [Components -> {"off", "running", "ended"}]
    BY <1>8, <1>0, Ends DEF BusyClosed
  <2>4. QED
    BY <1>8, <1>0, <2>1, <2>2, <2>3 DEF BusyClosed, TypeOK
<1>9. CASE Drained
  <2>1. {timedOut', ctxDone', isConnected', connected', syncDone'} \subseteq BOOLEAN
    BY <1>9, <1>0 DEF Drained
  <2>2. /\ next' \in 1..(Len(Order) + 1)
        /\ owner' \in 0..Len(CloseOrder) /\ frames' \in 0..MaxFrames
    BY <1>9, <1>0 DEF Drained, TypeOK
  <2>3. worker' \in [Components -> {"off", "running", "ended"}]
    BY <1>9, <1>0, Ends DEF Drained
  <2>4. QED
    BY <1>9, <1>0, <2>1, <2>2, <2>3 DEF Drained, TypeOK
<1>10. CASE Waited
  <2>1. {timedOut', ctxDone', isConnected', connected', syncDone'} \subseteq BOOLEAN
    BY <1>10, <1>0 DEF Waited
  <2>2. /\ next' \in 1..(Len(Order) + 1)
        /\ owner' \in 0..Len(CloseOrder) /\ frames' \in 0..MaxFrames
    BY <1>10, <1>0 DEF Waited, TypeOK
  <2>3. worker' \in [Components -> {"off", "running", "ended"}]
    BY <1>10, <1>0, Ends DEF Waited
  <2>4. QED
    BY <1>10, <1>0, <2>1, <2>2, <2>3 DEF Waited, TypeOK
<1>11. CASE StopServer
  <2>1. {timedOut', ctxDone', isConnected', connected', syncDone'} \subseteq BOOLEAN
    BY <1>11, <1>0 DEF StopServer
  <2>2. /\ next' \in 1..(Len(Order) + 1)
        /\ owner' \in 0..Len(CloseOrder) /\ frames' \in 0..MaxFrames
    BY <1>11, <1>0 DEF StopServer, TypeOK
  <2>3. worker' \in [Components -> {"off", "running", "ended"}]
    BY <1>11, <1>0, Ends DEF StopServer
  <2>4. QED
    BY <1>11, <1>0, <2>1, <2>2, <2>3 DEF StopServer, TypeOK
<1>12. CASE Signal
  <2>1. {timedOut', ctxDone', isConnected', connected', syncDone'} \subseteq BOOLEAN
    BY <1>12, <1>0 DEF Signal
  <2>2. /\ next' \in 1..(Len(Order) + 1)
        /\ owner' \in 0..Len(CloseOrder) /\ frames' \in 0..MaxFrames
    BY <1>12, <1>0 DEF Signal, TypeOK
  <2>3. worker' \in [Components -> {"off", "running", "ended"}]
    BY <1>12, <1>0, Ends DEF Signal
  <2>4. QED
    BY <1>12, <1>0, <2>1, <2>2, <2>3 DEF Signal, TypeOK
<1>13. CASE Close
  <2>1. {timedOut', ctxDone', isConnected', connected', syncDone'} \subseteq BOOLEAN
    BY <1>13, <1>0 DEF Close
  <2>2. /\ next' \in 1..(Len(Order) + 1)
        /\ owner' \in 0..Len(CloseOrder) /\ frames' \in 0..MaxFrames
    BY <1>13, <1>0 DEF Close, TypeOK
  <2>3. worker' \in [Components -> {"off", "running", "ended"}]
    BY <1>13, <1>0, Ends DEF Close
  <2>4. QED
    BY <1>13, <1>0, <2>1, <2>2, <2>3 DEF Close, TypeOK
<1>14. CASE Shutdown
  <2>1. {timedOut', ctxDone', isConnected', connected', syncDone'} \subseteq BOOLEAN
    BY <1>14, <1>0 DEF Shutdown
  <2>2. /\ next' \in 1..(Len(Order) + 1)
        /\ owner' \in 0..Len(CloseOrder) /\ frames' \in 0..MaxFrames
    BY <1>14, <1>0 DEF Shutdown, TypeOK
  <2>3. worker' \in [Components -> {"off", "running", "ended"}]
    BY <1>14, <1>0, Ends DEF Shutdown
  <2>4. QED
    BY <1>14, <1>0, <2>1, <2>2, <2>3 DEF Shutdown, TypeOK
<1>15. CASE \E c \in Components : WorkerEnds(c)
  <2> PICK c \in Components : WorkerEnds(c)
    BY <1>15
  <2>1. {timedOut', ctxDone', isConnected', connected', syncDone'} \subseteq BOOLEAN
    BY <1>0 DEF WorkerEnds
  <2>2. /\ next' \in 1..(Len(Order) + 1)
        /\ owner' \in 0..Len(CloseOrder) /\ frames' \in 0..MaxFrames
    BY <1>0 DEF WorkerEnds, TypeOK
  <2>3. worker' \in [Components -> {"off", "running", "ended"}]
    BY <1>0, Ends DEF WorkerEnds
  <2>4. QED
    BY <1>0, <2>1, <2>2, <2>3 DEF WorkerEnds, TypeOK
<1>16. CASE Connection
  <2>1. {timedOut', ctxDone', isConnected', connected', syncDone'} \subseteq BOOLEAN
    BY <1>16, <1>0 DEF Connection
  <2>2. /\ next' \in 1..(Len(Order) + 1)
        /\ owner' \in 0..Len(CloseOrder) /\ frames' \in 0..MaxFrames
    BY <1>16, <1>0 DEF Connection, TypeOK
  <2>3. worker' \in [Components -> {"off", "running", "ended"}]
    BY <1>16, <1>0, Ends DEF Connection
  <2>4. QED
    BY <1>16, <1>0, <2>1, <2>2, <2>3 DEF Connection, TypeOK
<1>17. CASE Receive
  <2>1. {timedOut', ctxDone', isConnected', connected', syncDone'} \subseteq BOOLEAN
    BY <1>17, <1>0 DEF Receive
  <2>2. /\ next' \in 1..(Len(Order) + 1)
        /\ owner' \in 0..Len(CloseOrder) /\ frames' \in 0..MaxFrames
    BY <1>17, <1>0 DEF Receive, TypeOK
  <2>3. worker' \in [Components -> {"off", "running", "ended"}]
    BY <1>17, <1>0, Ends DEF Receive
  <2>4. QED
    BY <1>17, <1>0, <2>1, <2>2, <2>3 DEF Receive, TypeOK
<1>18. CASE SyncAsk
  <2>1. {timedOut', ctxDone', isConnected', connected', syncDone'} \subseteq BOOLEAN
    BY <1>18, <1>0 DEF SyncAsk
  <2>2. /\ next' \in 1..(Len(Order) + 1)
        /\ owner' \in 0..Len(CloseOrder) /\ frames' \in 0..MaxFrames
    BY <1>18, <1>0 DEF SyncAsk, TypeOK
  <2>3. worker' \in [Components -> {"off", "running", "ended"}]
    BY <1>18, <1>0, Ends DEF SyncAsk
  <2>4. QED
    BY <1>18, <1>0, <2>1, <2>2, <2>3 DEF SyncAsk, TypeOK
<1>19. CASE SyncTell
  <2>1. {timedOut', ctxDone', isConnected', connected', syncDone'} \subseteq BOOLEAN
    BY <1>19, <1>0 DEF SyncTell
  <2>2. /\ next' \in 1..(Len(Order) + 1)
        /\ owner' \in 0..Len(CloseOrder) /\ frames' \in 0..MaxFrames
    BY <1>19, <1>0 DEF SyncTell, TypeOK
  <2>3. worker' \in [Components -> {"off", "running", "ended"}]
    BY <1>19, <1>0, Ends DEF SyncTell
  <2>4. QED
    BY <1>19, <1>0, <2>1, <2>2, <2>3 DEF SyncTell, TypeOK
<1>20. CASE SyncExit
  <2>1. {timedOut', ctxDone', isConnected', connected', syncDone'} \subseteq BOOLEAN
    BY <1>20, <1>0 DEF SyncExit
  <2>2. /\ next' \in 1..(Len(Order) + 1)
        /\ owner' \in 0..Len(CloseOrder) /\ frames' \in 0..MaxFrames
    BY <1>20, <1>0 DEF SyncExit, TypeOK
  <2>3. worker' \in [Components -> {"off", "running", "ended"}]
    BY <1>20, <1>0, Ends DEF SyncExit
  <2>4. QED
    BY <1>20, <1>0, <2>1, <2>2, <2>3 DEF SyncExit, TypeOK
<1>21. CASE UNCHANGED vars
  BY <1>21 DEF vars, TypeOK
<1>22. QED
  BY <1>1, <1>2, <1>3, <1>4, <1>5, <1>6, <1>7, <1>8, <1>9, <1>10, <1>11, <1>12, <1>13, <1>14, <1>15, <1>16, <1>17, <1>18, <1>19, <1>20, <1>21 DEF Next, Run, Sync

-----------------------------------------------------------------------------
(* What runs, and what is left when Run returns.                           *)

\* A goroutine that runs after a step ran before it, or is the one that Start has just
\* started; run does not go back to reading the settings, nor unmake a component.
LEMMA Runs ==
  ASSUME TypeOK, [Next]_vars
  PROVE  /\ \A c \in Components : worker'[c] = "running" =>
              \/ worker[c] = "running"
              \/ rpc = "start" /\ c \in wired
         /\ rpc' = "parse" => rpc = "parse"
         /\ wired' = wired \/ rpc = "parse"
         /\ rpc = "start" => rpc' \in {"start", "loop", "returned"}
<1> USE DEF Goto, Return, process, parts, stream, status
<1>0. /\ worker \in [Components -> {"off", "running", "ended"}]
      /\ "server" \in Components
  BY DEF TypeOK, Components
<1>1. CASE Start
  <2>1. Order[next] \in wired => Order[next] \in Components
    BY DEF TypeOK
  <2>2. QED
    BY <1>0, <1>1, <2>1, Ends DEF Start
<1>2. CASE StopServer \/ Shutdown
  BY <1>0, <1>2, Ends DEF StopServer, Shutdown, MayStop
<1>3. CASE \E c \in Components : WorkerEnds(c)
  <2>1. PICK c \in Components : WorkerEnds(c)
    BY <1>3
  <2>2. QED
    BY <1>0, <2>1, Ends DEF WorkerEnds
<1>4. CASE \/ Configure \/ StartFails \/ Started \/ HandleFrame \/ LeaveLoop \/ CancelSync
           \/ BusyClosed \/ Drained \/ Waited
  BY <1>4 DEF Configure, StartFails, Started, HandleFrame, LeaveLoop, CancelSync, BusyClosed,
              Drained, Waited
<1>5. CASE Signal \/ Close \/ Connection \/ Receive \/ SyncAsk \/ SyncTell \/ SyncExit
  BY <1>5 DEF Signal, Close, Connection, Receive, SyncAsk, SyncTell, SyncExit
<1>6. CASE UNCHANGED vars
  BY <1>6 DEF vars
<1>7. QED
  BY <1>1, <1>2, <1>3, <1>4, <1>5, <1>6 DEF Next, Run, Sync

\* Only Run starts a component, after Configure, and only one that has been made.
LEMMA MadeNext == TypeOK /\ Made /\ [Next]_vars => Made'
<1> SUFFICES ASSUME TypeOK, Made, [Next]_vars, NEW c \in Components, worker'[c] = "running"
             PROVE  rpc' # "parse" /\ c \in wired'
  BY DEF Made
<1>1. rpc # "parse" /\ c \in wired
  BY Runs DEF Made
<1>2. QED
  BY <1>1, Runs

\* The steps of Run keep what is known of its shutdown (runner.go, Run).
LEMMA ShutRun == Inv /\ Run => Shut'
<1> SUFFICES ASSUME Inv, Run PROVE Shut'
  OBVIOUS
<1> USE DEF Goto, Return, parts, stream, status, Inv, Made, Shut, Outcome, BusyStopped,
            PastBusy, Emptied, PastDrain, HassByOwner, Unawaited, Gone, PastWait,
            ServerStopped
<1>0. /\ TypeOK
      /\ worker \in [Components -> {"off", "running", "ended"}]
      /\ "server" \in Components /\ "busy" \in Components
      /\ "busy" \notin SideBySide /\ "server" \notin SideBySide /\ SideBySide \subseteq Components
  BY DEF TypeOK, Components, SideBySide
<1>1. CASE Configure
  BY <1>0, <1>1 DEF Configure
<1>2. CASE StartFails
  BY <1>0, <1>2 DEF StartFails
<1>3. CASE Started \/ LeaveLoop
  BY <1>0, <1>3 DEF Started, LeaveLoop
<1>4. CASE HandleFrame
  BY <1>0, <1>4 DEF HandleFrame, process
<1>5. CASE Start
  BY <1>0, <1>5 DEF Start
<1>6. CASE CancelSync
  BY <1>0, <1>6 DEF CancelSync
<1>7. CASE BusyClosed
  BY <1>0, <1>7 DEF BusyClosed
<1>8. CASE Drained
  BY <1>0, <1>8 DEF Drained
<1>9. CASE Waited
  BY <1>0, <1>9 DEF Waited
<1>10. CASE StopServer
  BY <1>0, <1>10, Ends DEF StopServer, TypeOK
<1>11. QED
  BY <1>1, <1>2, <1>3, <1>4, <1>5, <1>6, <1>7, <1>8, <1>9, <1>10 DEF Run

\* Nothing that others do beside Run disturbs it: they end goroutines, and none fills the
\* channel of frames once the WebSocket client has ended.
LEMMA ShutOthers == Inv /\ [Next]_vars /\ ~Run => Shut'
<1> SUFFICES ASSUME Inv, [Next]_vars, ~Run PROVE Shut'
  OBVIOUS
<1> USE DEF process, parts, stream, status, Inv, Made, Shut, Outcome, BusyStopped,
            PastBusy, Emptied, PastDrain, HassByOwner, Unawaited, Gone, PastWait,
            ServerStopped
<1>0. /\ TypeOK
      /\ worker \in [Components -> {"off", "running", "ended"}]
      /\ owner \in Nat /\ awaited \subseteq Components
      /\ "server" \in Components /\ "busy" \in Components /\ SideBySide \subseteq Components
      /\ Len(CloseOrder) = 5
  BY DEF TypeOK, Components, SideBySide, CloseOrder
<1>1. CASE \/ Signal \/ Connection \/ Receive \/ SyncAsk \/ SyncTell \/ SyncExit
           \/ UNCHANGED vars
  BY <1>0, <1>1 DEF Signal, Connection, Receive, SyncAsk, SyncTell, SyncExit, vars
<1>2. CASE Close
  BY <1>0, <1>2 DEF Close
<1>3. CASE Shutdown
  BY <1>0, <1>3, Ends DEF Shutdown
<1>4. CASE \E c \in Components : WorkerEnds(c)
  <2>1. PICK c \in Components : WorkerEnds(c)
    BY <1>4
  <2>2. QED
    BY <1>0, <2>1, Ends DEF WorkerEnds
<1>5. QED
  BY <1>1, <1>2, <1>3, <1>4 DEF Next, Sync

-----------------------------------------------------------------------------
(* What the settings come to (config.go): the flags are applied one after  *)
(* the other, and so the last one for a setting counts.                    *)

\* A set of natural numbers has a least one.
LEMMA Least ==
  ASSUME NEW S \in SUBSET Nat, S # {}
  PROVE  \E n \in S : \A m \in S : n <= m
<1> DEFINE R == OpToRel(<, Nat)
<1>1. IsWellFoundedOn(R, Nat)
  BY NatLessThanWellFounded DEF OpToRel
<1>2. PICK n \in S : \A m \in S : <<m, n>> \notin R
  <2> HIDE DEF R
  <2> QED
    BY <1>1, WFMin
<1>3. \A m \in S : ~(m < n)
  BY <1>2 DEF OpToRel
<1>4. QED
  BY <1>3

\* A set of places on the command line has a last one, and only one.
LEMMA LastPlace ==
  ASSUME NEW n \in Nat, NEW S, S \subseteq 1..n, S # {}
  PROVE  /\ Max(S) \in S /\ \A j \in S : j <= Max(S)
         /\ \A i \in S : (\A j \in S : j <= i) => i = Max(S)
<1> DEFINE Bounds == {m \in 0..n : \A j \in S : j <= m}
<1>1. n \in Bounds /\ Bounds \in SUBSET Nat
  OBVIOUS
<1>2. PICK m \in Bounds : \A b \in Bounds : m <= b
  <2> HIDE DEF Bounds
  <2> QED
    BY <1>1, Least
<1>3. m \in S
  <2> SUFFICES ASSUME m \notin S PROVE FALSE
    OBVIOUS
  <2>1. m \in 0..n /\ \A j \in S : j <= m /\ j # m /\ j \in 1..n
    OBVIOUS
  <2>2. m - 1 \in 0..n /\ \A j \in S : j <= m - 1
    <3>1. PICK i \in S : i \in 1..n /\ i <= m
      BY <2>1
    <3>2. ASSUME NEW j \in S PROVE j <= m - 1
      <4>1. j <= m /\ j # m /\ j \in 1..n /\ m \in 0..n
        BY <2>1
      <4>2. QED
        BY <4>1
    <3>3. m \in 0..n
      BY <2>1
    <3>4. m - 1 \in 0..n
      BY <3>1, <3>3
    <3>5. QED
      BY <3>2, <3>4
  <2>3. m - 1 \in Bounds
    BY <2>2
  <2>4. m <= m - 1
    <3> HIDE DEF Bounds
    <3> QED
      BY <1>2, <2>3
  <2>5. QED
    BY <2>1, <2>4
<1>4. \E x \in S : \A y \in S : x >= y
  BY <1>2, <1>3
<1>5. Max(S) \in S /\ \A y \in S : Max(S) >= y
  BY <1>4 DEF Max
<1>6. \A i, j \in S : i <= j /\ j <= i => i = j
  OBVIOUS
<1>7. \A j \in S : j <= Max(S)
  BY <1>5
<1>8. QED
  BY <1>5, <1>6, <1>7

\* The places among s at which the flags speak of setting k.
Placed(args, s, k) == {i \in s : args[i].key = k}

\* The last word of the flags in s, for each setting.
LastWord(cfg, args, s) ==
  [k \in Settings |-> IF Placed(args, s, k) = {} THEN cfg[k]
                      ELSE args[Max(Placed(args, s, k))].value]

Args == Seq([key : Settings, value : Words])

\* One more flag, and its setting is what that flag says (config.go, Parse).
LEMMA OneMore ==
  ASSUME NEW cfg \in [Settings -> Words], NEW args \in Args,
         NEW s \in SUBSET DOMAIN args, s # {}
  PROVE  LastWord(cfg, args, s) =
           [LastWord(cfg, args, s \ {Max(s)}) EXCEPT ![args[Max(s)].key] = args[Max(s)].value]
<1> DEFINE m == Max(s)
           t == s \ {m}
<1>1. PICK n \in Nat : DOMAIN args = 1..n /\ \A i \in 1..n : args[i].key \in Settings
  <2>1. args \in [1..Len(args) -> [key : Settings, value : Words]] /\ Len(args) \in Nat
    BY LenProperties DEF Args
  <2>2. QED
    BY <2>1
<1>2. m \in s /\ \A j \in s : j <= m
  BY <1>1, LastPlace
<1> HIDE DEF m
<1>3. ASSUME NEW k \in Settings, k # args[m].key
      PROVE  Placed(args, s, k) = Placed(args, t, k)
  BY <1>3 DEF Placed
<1>4. Placed(args, s, args[m].key) # {} /\ Max(Placed(args, s, args[m].key)) = m
  <2>1. m \in Placed(args, s, args[m].key) /\ Placed(args, s, args[m].key) \subseteq s
    BY <1>2 DEF Placed
  <2>2. s \subseteq 1..n
    BY <1>1
  <2>3. QED
    BY <1>2, <2>1, <2>2, LastPlace
<1>5. args[m].key \in Settings
  BY <1>1, <1>2
<1>6. LastWord(cfg, args, s) =
        [LastWord(cfg, args, t) EXCEPT ![args[m].key] = args[m].value]
  BY <1>3, <1>4, <1>5 DEF LastWord
<1>7. QED
  BY <1>6 DEF m

\* Applied one after the other, the flags leave each setting as the last of them says: the
\* fold has a closed form, which differs from it for no first set of places.
LEMMA FlagsLast ==
  ASSUME NEW cfg \in [Settings -> Words], NEW args \in Args
  PROVE  Flags(cfg, args) = LastWord(cfg, args, DOMAIN args)
<1> DEFINE D == DOMAIN args
           Eq(f) == f = [s \in SUBSET D |->
                           IF s = {} THEN cfg
                           ELSE [f[s \ {Max(s)}] EXCEPT ![args[Max(s)].key] = args[Max(s)].value]]
           iter == CHOOSE f : Eq(f)
           words == [s \in SUBSET D |-> LastWord(cfg, args, s)]
<1>1. PICK n \in Nat : D = 1..n
  BY DEF Args
<1>2. Eq(words)
  <2>1. LastWord(cfg, args, {}) = cfg
    BY DEF LastWord, Placed
  <2>2. ASSUME NEW s \in SUBSET D, s # {}
        PROVE  words[s] = [words[s \ {Max(s)}] EXCEPT ![args[Max(s)].key] = args[Max(s)].value]
    <3>1. s \ {Max(s)} \in SUBSET D
      OBVIOUS
    <3>2. QED
      BY <2>2, <3>1, OneMore
  <2>3. ASSUME NEW s \in SUBSET D
        PROVE  words[s] = IF s = {} THEN cfg
                ELSE [words[s \ {Max(s)}] EXCEPT ![args[Max(s)].key] = args[Max(s)].value]
    BY <2>1, <2>2
  <2>4. QED
    BY <2>3
<1>3. Eq(iter)
  <2> HIDE DEF Eq
  <2> QED
    BY <1>2
<1>4. \A s \in SUBSET D : iter[s] = words[s]
  <2> DEFINE Bad == {m \in 0..n : \E s \in SUBSET (1..m) : iter[s] # words[s]}
  <2> SUFFICES ASSUME NEW s0 \in SUBSET D, iter[s0] # words[s0] PROVE FALSE
    OBVIOUS
  <2>0. n \in Bad
    <3>1. n \in 0..n
      OBVIOUS
    <3>2. \E s \in SUBSET (1..n) : iter[s] # words[s]
      BY <1>1
    <3>3. QED
      BY <3>1, <3>2
  <2>1. PICK m \in Bad : \A b \in Bad : m <= b
    <3>1. Bad \in SUBSET Nat
      OBVIOUS
    <3> HIDE DEF Bad
    <3>2. QED
      BY <2>0, <3>1, Least
  <2>2. PICK s \in SUBSET (1..m) : iter[s] # words[s]
    BY <2>1
  <2>m. m \in 0..n /\ m \in Nat
    BY <2>1
  <2>3. s \in SUBSET D
    BY <2>2, <1>1
  <2>4. iter[s] = IF s = {} THEN cfg
          ELSE [iter[s \ {Max(s)}] EXCEPT ![args[Max(s)].key] = args[Max(s)].value]
    BY <1>3, <2>3
  <2>5. words[s] = IF s = {} THEN cfg
          ELSE [words[s \ {Max(s)}] EXCEPT ![args[Max(s)].key] = args[Max(s)].value]
    BY <1>2, <2>3
  <2>6. s # {} /\ iter[s \ {Max(s)}] # words[s \ {Max(s)}]
    BY <2>2, <2>4, <2>5
  <2>7. Max(s) \in s /\ \A j \in s : j <= Max(s)
    BY <2>6, <2>m, LastPlace
  <2>8. m - 1 \in 0..n /\ s \ {Max(s)} \in SUBSET (1..(m - 1))
    <3>1. m \in 0..n /\ s \subseteq 1..m /\ Max(s) \in 1..m
      BY <2>7, <2>m
    <3>2. m - 1 \in 0..n
      BY <3>1
    <3>3. ASSUME NEW j \in s \ {Max(s)} PROVE j \in 1..(m - 1)
      <4>1. j \in 1..m /\ j <= Max(s) /\ j # Max(s)
        BY <2>7, <3>1
      <4>2. QED
        BY <3>1, <4>1
    <3>4. QED
      BY <3>2, <3>3
  <2>9. m - 1 \in Bad
    BY <2>6, <2>8
  <2>10. QED
    <3>1. m <= m - 1
      <4> HIDE DEF Bad
      <4> QED
        BY <2>1, <2>9
    <3>2. QED
      BY <3>1, <2>m
<1>5. Flags(cfg, args) = iter[D]
  BY DEF Flags, FoldLeft, MapThenFoldSet
<1>6. QED
  BY <1>4, <1>5

\* What Parse makes of a launch is what StartedAsConfigured says of each setting.
LEMMA GivenIsParsed ==
  ASSUME TypeOK, NEW k \in Settings
  PROVE  Given(k) = Parse(launch.env, launch.args)[k]
<1>1. /\ launch \in Launches /\ launch.env \in [Settings -> Words]
      /\ launch.args \in Args
  BY LaunchAssumption DEF TypeOK, Args
<1>2. Environment(launch.env) \in [Settings -> Words]
  <2>1. \A j \in Settings : DefaultConfig[j] \in Words
    BY DEF DefaultConfig, Words
  <2>2. QED
    BY <1>1, <2>1 DEF Environment
<1> DEFINE said == Placed(launch.args, DOMAIN launch.args, k)
<1>3. Parse(launch.env, launch.args)[k] =
        IF said = {} THEN Environment(launch.env)[k] ELSE launch.args[Max(said)].value
  BY <1>1, <1>2, FlagsLast DEF Parse, LastWord
<1>4. CASE said = {}
  BY <1>1, <1>3, <1>4 DEF Given, Environment, Placed
<1>5. CASE said # {}
  <2>1. Len(launch.args) \in Nat /\ said \subseteq 1..Len(launch.args)
    BY <1>1, LenProperties DEF Placed, Args
  <2>2. /\ Max(said) \in said /\ \A j \in said : j <= Max(said)
        /\ \A i \in said : (\A j \in said : j <= i) => i = Max(said)
    BY <1>5, <2>1, LastPlace
  <2>3. (CHOOSE i \in said : \A j \in said : j <= i) = Max(said)
    <3> HIDE DEF said
    <3> QED
      BY <2>2
  <2>4. QED
    BY <1>3, <1>5, <2>3 DEF Given, Placed
<1>6. QED
  BY <1>4, <1>5

-----------------------------------------------------------------------------
(* What has been started is what the settings ask for.                     *)

\* What NewRunner has made is what a launch that Parse accepts asks for; nothing else has
\* ever been started.
Chosen ==
  /\ wired # {} => /\ ParseOK(launch.env, launch.args)
                   /\ wired = Wired(Parse(launch.env, launch.args))
  /\ rpc # "parse" /\ result # "error" => "server" \in wired
  /\ \A c \in Components : worker[c] # "off" => rpc # "parse" /\ c \in wired

\* A component that is not off after a step was not off before it, or it is the one that
\* Start has just started, or the server that run or Shutdown stops.
LEMMA Begun ==
  ASSUME Inv, [Next]_vars, NEW c \in Components, worker'[c] # "off"
  PROVE  \/ worker[c] # "off"
         \/ rpc = "start" /\ c \in wired
         \/ c = "server" /\ rpc # "parse" /\ result # "error"
<1> USE DEF Goto, Return, process, parts, stream, status
<1>0. /\ worker \in [Components -> {"off", "running", "ended"}]
      /\ "server" \in Components
  BY DEF Inv, TypeOK, Components
<1>1. CASE Start
  <2>1. Order[next] \in wired => Order[next] \in Components
    BY DEF Inv, TypeOK
  <2>2. QED
    BY <1>0, <1>1, <2>1, Ends DEF Start
<1>2. CASE StopServer
  BY <1>0, <1>2, Ends DEF StopServer, Inv, Shut, Outcome
<1>3. CASE Shutdown
  BY <1>0, <1>3, Ends DEF Shutdown, MayStop
<1>4. CASE \E d \in Components : WorkerEnds(d)
  <2>1. PICK d \in Components : WorkerEnds(d)
    BY <1>4
  <2>2. QED
    BY <1>0, <2>1, Ends DEF WorkerEnds
<1>5. CASE \/ Configure \/ StartFails \/ Started \/ HandleFrame \/ LeaveLoop \/ CancelSync
           \/ BusyClosed \/ Drained \/ Waited
  BY <1>5 DEF Configure, StartFails, Started, HandleFrame, LeaveLoop, CancelSync, BusyClosed,
              Drained, Waited
<1>6. CASE Signal \/ Close \/ Connection \/ Receive \/ SyncAsk \/ SyncTell \/ SyncExit
  BY <1>6 DEF Signal, Close, Connection, Receive, SyncAsk, SyncTell, SyncExit
<1>7. CASE UNCHANGED vars
  BY <1>7 DEF vars
<1>8. QED
  BY <1>1, <1>2, <1>3, <1>4, <1>5, <1>6, <1>7 DEF Next, Run, Sync

\* Only Configure makes components, of a launch that Parse accepts (main.go, run).
LEMMA Makes ==
  ASSUME [Next]_vars
  PROVE  /\ launch' = launch
         /\ \/ Configure
            \/ wired' = wired /\ (rpc' = "parse" <=> rpc = "parse")
               /\ (result' # "error" => result # "error" \/ rpc = "stopServer")
<1> USE DEF Goto, Return, process, parts, stream, status
<1>1. CASE \/ Start \/ StartFails \/ Started \/ HandleFrame \/ LeaveLoop \/ CancelSync
           \/ BusyClosed \/ Drained \/ Waited \/ StopServer
  BY <1>1 DEF Start, StartFails, Started, HandleFrame, LeaveLoop, CancelSync, BusyClosed,
              Drained, Waited, StopServer
<1>2. CASE \/ Signal \/ Close \/ Shutdown \/ Connection \/ Receive \/ SyncAsk \/ SyncTell
           \/ SyncExit \/ UNCHANGED vars
  BY <1>2 DEF Signal, Close, Shutdown, Connection, Receive, SyncAsk, SyncTell, SyncExit, vars
<1>3. CASE \E c \in Components : WorkerEnds(c)
  BY <1>3 DEF WorkerEnds
<1>4. CASE Configure
  BY <1>4 DEF Configure
<1>5. QED
  BY <1>1, <1>2, <1>3, <1>4 DEF Next, Run, Sync

\* Every step keeps Chosen.
LEMMA ChosenNext == Inv /\ Chosen /\ [Next]_vars => Chosen'
<1> SUFFICES ASSUME Inv, Chosen, [Next]_vars PROVE Chosen'
  OBVIOUS
<1>1. CASE Configure
  <2>1. worker' = worker /\ launch' = launch
    BY <1>1, Makes DEF Configure, parts
  <2>2. \A c \in Components : worker[c] = "off"
    BY <1>1 DEF Chosen, Configure
  <2>3. QED
    BY <1>1, <2>1, <2>2 DEF Chosen, Configure, Return, Wired
<1>2. CASE ~Configure
  <2>1. /\ launch' = launch /\ wired' = wired /\ (rpc' = "parse" <=> rpc = "parse")
        /\ result' # "error" => result # "error"
    BY <1>2, Makes DEF Inv, Shut, Outcome
  <2>2. \A c \in Components : worker'[c] # "off" => rpc # "parse" /\ c \in wired
    BY Begun DEF Chosen
  <2>3. QED
    BY <2>1, <2>2 DEF Chosen
<1>3. QED
  BY <1>1, <1>2

-----------------------------------------------------------------------------
(* The theorems.                                                           *)

\* Inv is an invariant of the bridge's life.
THEOREM InvInductive == Spec => []Inv
<1>1. Inv /\ [Next]_vars => Inv'
  BY TypeNext, MadeNext, ShutRun, ShutOthers DEF Inv
<1>2. QED
  BY InitInv, <1>1, PTL DEF Spec

\* Every reachable state of the bridge's life (main.go, runner.go) is well typed.
THEOREM TypeCorrect == Spec => []TypeOK
<1>1. Inv => TypeOK
  BY DEF Inv
<1>2. QED
  BY <1>1, InvInductive, PTL

\* When Run (runner.go) has returned in time, every frame has been handled and every
\* goroutine is gone, but for a dispatcher that somebody else is closing.
THEOREM ReturnsClean == Spec => []CleanReturn
<1>1. Inv => CleanReturn
  <2> SUFFICES ASSUME Inv, result = "ok", ~timedOut,
                      NEW c \in Components, worker[c] = "running"
               PROVE  frames = 0 /\ c = "hass" /\ owner > 0
    BY DEF CleanReturn, Inv, Shut, Emptied, PastDrain
  <2>1. frames = 0
    BY DEF Inv, Shut, Emptied, PastDrain
  <2>2. c \in wired /\ c \in SideBySide
    BY DEF Inv, Made, Shut, BusyStopped, PastBusy, ServerStopped, Components, SideBySide
  <2>3. c \notin awaited
    BY DEF Inv, Shut, Gone, PastWait
  <2>4. QED
    BY <2>1, <2>2, <2>3 DEF Inv, Shut, Unawaited, PastDrain
<1>2. QED
  BY <1>1, InvInductive, PTL

\* Whatever a good setting is made of, its parts are good (config.go, Validate).
LEMMA Accepted ==
  ASSUME TypeOK, ParseOK(launch.env, launch.args)
  PROVE  /\ \A k \in Typed : launch.env[k] # "garbled" /\ Given(k) # "garbled"
         /\ \A k \in Ports \cup Durations \cup {"hass_token", "hass_url"} : Given(k) = "valid"
<1> DEFINE cfg == Parse(launch.env, launch.args)
<1>1. /\ launch \in Launches /\ Len(launch.args) \in Nat
      /\ launch.args \in [1..Len(launch.args) -> [key : Settings, value : Words]]
      /\ \A k \in Settings : launch.env[k] \in Raw(k)
      /\ \A i \in DOMAIN launch.args : launch.args[i].value \in Raw(launch.args[i].key)
  BY LaunchAssumption, LenProperties DEF TypeOK
<1>2. ASSUME NEW k \in Settings
      PROVE  \/ \E i \in DOMAIN launch.args : launch.args[i].key = k
                                              /\ Given(k) = launch.args[i].value
             \/ Given(k) \in {launch.env[k], DefaultConfig[k]}
  <2> DEFINE said == {i \in DOMAIN launch.args : launch.args[i].key = k}
  <2>1. CASE said = {}
    BY <2>1 DEF Given
  <2>2. CASE said # {}
    <3>1. said \subseteq 1..Len(launch.args)
      BY <1>1
    <3>2. PICK m \in said : \A j \in said : j <= m
      BY <1>1, <2>2, <3>1, LastPlace
    <3>3. Given(k) = launch.args[CHOOSE i \in said : \A j \in said : j <= i].value
      BY <2>2 DEF Given
    <3>4. (CHOOSE i \in said : \A j \in said : j <= i) \in said
      <4> HIDE DEF said
      <4> QED
        BY <3>2
    <3>5. QED
      BY <3>3, <3>4
  <2>3. QED
    BY <2>1, <2>2
<1>3. ASSUME NEW k \in Typed
      PROVE  launch.env[k] # "garbled" /\ Given(k) # "garbled"
  <2>1. k \in Settings /\ DefaultConfig[k] # "garbled" /\ launch.env[k] # "garbled"
    BY DEF ParseOK, EnvironmentOK, Settings, DefaultConfig
  <2>2. \A i \in DOMAIN launch.args : launch.args[i].key = k => launch.args[i].value # "garbled"
    BY DEF ParseOK, FlagsOK
  <2>3. QED
    BY <1>2, <2>1, <2>2
<1>4. /\ cfg["hass_token"] \notin {"", "invalid"} /\ cfg["hass_url"] = "valid"
      /\ \A k \in Ports \cup Durations : cfg[k] = "valid"
  BY DEF ParseOK, Validate
<1>5. {"hass_token", "hass_url"} \cup Ports \cup Durations \subseteq Settings
  BY DEF Settings, Texts, Typed
<1>6. ASSUME NEW k \in Ports \cup Durations \cup {"hass_url"} PROVE Given(k) = "valid"
  BY <1>4, <1>5, GivenIsParsed
<1>7. Given("hass_token") = "valid"
  <2>1. Given("hass_token") \notin {"", "invalid"}
    BY <1>4, <1>5, GivenIsParsed
  <2>2. Raw("hass_token") = {"", "invalid", "valid"}
    BY DEF Raw, Typed, Switches, Ports, Durations
  <2>3. DefaultConfig["hass_token"] \in Raw("hass_token")
    BY <1>5, <2>2 DEF DefaultConfig
  <2>4. Given("hass_token") \in Raw("hass_token")
    BY <1>1, <1>2, <1>5, <2>3
  <2>5. QED
    BY <2>1, <2>2, <2>4
<1>8. QED
  BY <1>3, <1>6, <1>7

\* Nothing runs but what the settings ask for, and nothing at all with a setting that Parse
\* or Validate refuses (config.go; runner.go, NewRunner and Run), for any environment and
\* any command line.
THEOREM StartsAsConfigured == Spec => []StartedAsConfigured
<1>1. Init => Chosen
  BY DEF Init, Chosen
<1>2. Inv /\ Chosen => StartedAsConfigured
  <2> SUFFICES ASSUME Inv, Chosen, NEW c \in Components, worker[c] # "off"
               PROVE  /\ \A k \in Typed : "garbled" \notin {launch.env[k], Given(k)}
                      /\ \A k \in Ports \cup Durations \cup {"hass_token", "hass_url"} :
                           Given(k) = "valid"
                      /\ c \in {"poller", "display"} => Given("enable_calendar_sync") = "on"
                      /\ c = "display" => Given("enable_outbound_push") = "on"
    BY DEF StartedAsConfigured
  <2> DEFINE cfg == Parse(launch.env, launch.args)
  <2>1. TypeOK /\ ParseOK(launch.env, launch.args) /\ c \in Wired(cfg)
    BY DEF Inv, Chosen
  <2>2. /\ cfg["enable_calendar_sync"] = Given("enable_calendar_sync")
        /\ cfg["enable_outbound_push"] = Given("enable_outbound_push")
    <3>1. {"enable_calendar_sync", "enable_outbound_push"} \subseteq Settings
      BY DEF Settings, Typed, Switches
    <3>2. QED
      BY <2>1, <3>1, GivenIsParsed
  <2>3. /\ c \in {"poller", "display"} => cfg["enable_calendar_sync"] = "on"
        /\ c = "display" => cfg["enable_outbound_push"] = "on"
    BY <2>1 DEF Wired
  <2>4. QED
    BY <2>1, <2>2, <2>3, Accepted
<1>3. QED
  BY InvInductive, ChosenNext, <1>1, <1>2, PTL DEF Spec

-----------------------------------------------------------------------------
(* Of the WebSocket client the bridge relies on nothing but FrameStream,   *)
(* which BusyBarClient implements.                                         *)

Stream == INSTANCE FrameStream WITH
            Size <- MaxFrames, stage <- worker["busy"], told <- ctxDone, asked <- "busy" \in closed
StreamSpec == Stream!FSpec

\* Run has not yet started the client when its turn comes, and nobody has closed it.
Pending == /\ rpc \in {"parse", "start"} /\ next <= 3 => worker["busy"] = "off"
           /\ rpc \in {"parse", "start"} => owner = 0 /\ "busy" \notin closed

\* Every step of the bridge is, of the client, a step that FrameStream allows, or none
\* (runner.go, Run; client.go, Start and Close).
LEMMA StreamStep ==
  ASSUME Inv, Pending, [Next]_vars
  PROVE  Pending' /\ [Stream!FNext]_(Stream!fvars)
<1> USE DEF Goto, Return, process, parts, stream, status, Told, Pending, Stream!FNext,
            Stream!fvars
<1>0. /\ worker \in [Components -> {"off", "running", "ended"}]
      /\ "server" \in Components /\ "busy" \in Components /\ "server" # "busy"
      /\ isConnected \in BOOLEAN /\ ctxDone \in BOOLEAN /\ closed \subseteq Components
      /\ next \in Nat /\ frames \in Nat
  BY BridgeAssumption DEF Inv, TypeOK, Components, Order
<1>1. CASE Start
  <2>1. Order[next] = "busy" <=> next = 3
    <3>1. Len(Order) = 6
      BY DEF Order
    <3>2. next \in 1..6
      BY <1>1, <3>1 DEF Start, Inv, TypeOK
    <3>3. next = 1 \/ next = 2 \/ next = 3 \/ next = 4 \/ next = 5 \/ next = 6
      BY <3>2
    <3>4. /\ Order[1] = "server" /\ Order[2] = "hass" /\ Order[3] = "busy"
          /\ Order[4] = "push" /\ Order[5] = "poller" /\ Order[6] = "display"
      BY DEF Order
    <3>5. QED
      BY <3>3, <3>4
  <2>2. next' = next + 1 /\ UNCHANGED <<rpc, ctxDone, closed, owner, isConnected, frames>>
    BY <1>1 DEF Start
  <2>3. CASE worker' = worker
    BY <1>0, <2>1, <2>2, <2>3
  <2>4. CASE worker' = [worker EXCEPT ![Order[next]] = "running"] /\ Order[next] \in wired
    <3>1. Order[next] \in Components
      BY <2>4 DEF Inv, TypeOK
    <3>2. CASE next = 3
      BY <1>0, <1>1, <2>1, <2>2, <2>4, <3>2 DEF Start, Stream!FStart
    <3>3. CASE next # 3
      <4>1. worker'["busy"] = worker["busy"]
        BY <1>0, <2>1, <2>4, <3>1, <3>3
      <4>2. QED
        BY <1>0, <2>2, <4>1
    <3>4. QED
      BY <3>2, <3>3
  <2>5. QED
    BY <1>1, <2>3, <2>4 DEF Start
<1>2. CASE \/ Configure \/ StartFails \/ Started \/ LeaveLoop \/ BusyClosed \/ Waited
           \/ SyncAsk \/ SyncTell \/ SyncExit
  BY <1>2 DEF Configure, StartFails, Started, LeaveLoop, BusyClosed, Waited, SyncAsk, SyncTell,
              SyncExit
<1>3. CASE HandleFrame
  BY <1>0, <1>3 DEF HandleFrame, Stream!FTake
<1>4. CASE CancelSync
  BY <1>0, <1>4 DEF CancelSync, Stream!FAsk
<1>5. CASE Drained
  BY <1>0, <1>5 DEF Drained, SideBySide
<1>6. CASE StopServer
  BY <1>0, <1>6 DEF StopServer
<1>7. CASE Signal
  BY <1>0, <1>7 DEF Signal, Stream!FTell
<1>8. CASE Close
  <2>1. rpc \notin {"parse", "start"}
    BY <1>8 DEF Close, MayStop
  <2>2. CASE "busy" \in closed'
    BY <1>0, <1>8, <2>1, <2>2 DEF Close, Stream!FAsk
  <2>3. CASE "busy" \notin closed'
    BY <1>0, <1>8, <2>1, <2>3 DEF Close
  <2>4. QED
    BY <2>2, <2>3
<1>9. CASE Shutdown
  BY <1>0, <1>9 DEF Shutdown, SideBySide, MayStop
<1>10. CASE \E c \in Components : WorkerEnds(c)
  <2>1. PICK c \in Components : WorkerEnds(c)
    BY <1>10
  <2>2. CASE c = "busy"
    BY <1>0, <2>1, <2>2 DEF WorkerEnds, Stream!FEnd
  <2>3. CASE c # "busy"
    BY <1>0, <2>1, <2>3 DEF WorkerEnds
  <2>4. QED
    BY <2>2, <2>3
<1>11. CASE Connection
  BY <1>0, <1>11 DEF Connection, Stream!FConnect
<1>12. CASE Receive
  BY <1>0, <1>12 DEF Receive, Stream!FReceive
<1>13. CASE UNCHANGED vars
  BY <1>13 DEF vars
<1>14. QED
  BY <1>1, <1>2, <1>3, <1>4, <1>5, <1>6, <1>7, <1>8, <1>9, <1>10, <1>11, <1>12, <1>13
     DEF Next, Run, Sync

\* The bridge does with the WebSocket client what FrameStream says, and asks no more of it:
\* so the client of BusyBarClient is one that the bridge can be built on.  In particular the
\* bridge is never the owner that starts it after asking it to close (runner.go, Run and
\* Close; with Close and Shutdown called once everything runs).
THEOREM UsesStream == Spec => StreamSpec
<1>1. Init => Pending /\ Stream!FInit
  <2>1. Init => worker["busy"] = "off"
    BY DEF Init, Components
  <2>2. QED
    BY <2>1 DEF Init, Pending, Told, Stream!FInit
<1>2. QED
  BY InvInductive, StreamStep, <1>1, PTL DEF Spec, StreamSpec, Stream!FSpec

-----------------------------------------------------------------------------
(* The end.  What RunEnds needs beside fairness and the end of the         *)
(* WebSocket client's goroutine, which Close waits for.                    *)

\* Run is on its way out: it has left its loop, or the client has closed the channel.
Leaving == \/ rpc = "loop" /\ FramesClosed
           \/ rpc \notin {"parse", "start", "loop"}

\* Frames that may still have to be handled: none is added once the client has ended.
Frames == IF FramesClosed THEN frames ELSE MaxFrames

\* Steps that Run has left then, at most; the frames it is to handle count too.
Left == CASE rpc = "loop"       -> 6 + frames
          [] rpc = "cancelSync" -> 5 + Frames
          [] rpc = "closeBusy"  -> 4 + Frames
          [] rpc = "drain"      -> 3 + frames
          [] rpc = "wait"       -> 2
          [] rpc = "stopServer" -> 1
          [] OTHER              -> 0

WindsDown == [][Leaving => Leaving' /\ Left' <= Left /\ (Run => Left' < Left)]_vars

\* It is a number of steps.
LEMMA LeftTyped == TypeOK => Left \in 0..(MaxFrames + 6)
<1> SUFFICES ASSUME TypeOK PROVE Left \in 0..(MaxFrames + 6)
  OBVIOUS
<1>1. MaxFrames \in Nat /\ frames \in Nat /\ frames <= MaxFrames
  BY BridgeAssumption DEF TypeOK
<1>2. QED
  BY <1>1 DEF Left, Frames

\* Every step of Run is one of them.
LEMMA RunLess ==
  ASSUME Inv, Leaving, Run
  PROVE  Leaving' /\ Left' <= Left /\ Left' < Left
<1> USE DEF Goto, Return, process, parts, stream, status, Leaving
<1>0. MaxFrames \in Nat /\ frames \in Nat /\ frames <= MaxFrames
  BY BridgeAssumption DEF Inv, TypeOK
<1>1. CASE Configure \/ Start \/ StartFails \/ Started
  BY <1>1 DEF Configure, Start, StartFails, Started
<1>2. CASE HandleFrame
  <2>1. /\ rpc' = rpc /\ worker' = worker /\ frames' = frames - 1
        /\ rpc \in {"loop", "drain"}
    BY <1>2 DEF HandleFrame
  <2>2. QED
    BY <1>0, <2>1 DEF Left, FramesClosed
<1>3. CASE LeaveLoop
  <2>1. /\ rpc = "loop" /\ rpc' = "cancelSync" /\ worker' = worker /\ frames' = frames
        /\ FramesClosed
    BY <1>3 DEF LeaveLoop
  <2>2. QED
    BY <1>0, <2>1 DEF Left, Frames, FramesClosed
<1>4. CASE CancelSync
  <2>1. rpc = "cancelSync" /\ rpc' = "closeBusy" /\ worker' = worker /\ frames' = frames
    BY <1>4 DEF CancelSync
  <2>2. QED
    BY <1>0, <2>1 DEF Left, Frames, FramesClosed
<1>5. CASE BusyClosed
  <2>1. rpc = "closeBusy" /\ rpc' = "drain" /\ frames' = frames
    BY <1>5 DEF BusyClosed
  <2>2. QED
    BY <1>0, <2>1 DEF Left, Frames
<1>6. CASE Drained
  <2>1. rpc = "drain" /\ rpc' = "wait"
    BY <1>6 DEF Drained
  <2>2. QED
    BY <1>0, <2>1 DEF Left
<1>7. CASE Waited
  <2>1. rpc = "wait" /\ rpc' = "stopServer"
    BY <1>7 DEF Waited
  <2>2. QED
    BY <2>1 DEF Left
<1>8. CASE StopServer
  <2>1. rpc = "stopServer" /\ rpc' = "returned"
    BY <1>8 DEF StopServer
  <2>2. QED
    BY <2>1 DEF Left
<1>9. QED
  BY <1>1, <1>2, <1>3, <1>4, <1>5, <1>6, <1>7, <1>8 DEF Run

\* No other step makes them more: nobody fills the channel of a client that has ended.
LEMMA OthersNoMore ==
  ASSUME Inv, Leaving, [Next]_vars, ~Run
  PROVE  Leaving' /\ Left' <= Left
<1> USE DEF process, parts, stream, status
<1>0. /\ MaxFrames \in Nat /\ frames \in Nat
      /\ worker \in [Components -> {"off", "running", "ended"}]
      /\ "server" \in Components /\ "busy" \in Components /\ "server" # "busy"
  BY BridgeAssumption DEF Inv, TypeOK, Components
<1>1. /\ rpc' = rpc
      /\ FramesClosed => FramesClosed'
      /\ frames' = frames \/ worker["busy"] = "running"
  <2>1. CASE \E c \in Components : WorkerEnds(c)
    <3>1. PICK c \in Components : WorkerEnds(c)
      BY <2>1
    <3>2. QED
      BY <1>0, <3>1, Ends DEF WorkerEnds, FramesClosed
  <2>2. CASE Shutdown
    BY <1>0, <2>2, Ends DEF Shutdown, FramesClosed
  <2>3. CASE \/ Signal \/ Close \/ Connection \/ Receive \/ SyncAsk \/ SyncTell \/ SyncExit
             \/ UNCHANGED vars
    BY <2>3 DEF Signal, Close, Connection, Receive, SyncAsk, SyncTell, SyncExit, FramesClosed,
                vars
  <2>4. QED
    BY <2>1, <2>2, <2>3 DEF Next, Sync
<1>2. rpc \in {"loop", "drain"} => frames' = frames
  BY <1>1 DEF Leaving, FramesClosed, Inv, Shut, BusyStopped, PastBusy
<1>3. /\ Frames \in Nat /\ Frames' \in Nat
      /\ Frames' <= Frames
  <2>1. frames' \in Nat /\ frames' <= MaxFrames
    BY TypeNext DEF Inv, TypeOK
  <2>2. QED
    BY <1>0, <1>1, <2>1 DEF Frames, FramesClosed
<1>4. Left' <= Left
  BY <1>0, <1>1, <1>2, <1>3 DEF Left
<1>5. QED
  BY <1>1, <1>4 DEF Leaving

\* Once Run has left its loop, or the WebSocket client has ended, Run returns within
\* MaxFrames + 6 steps of its own, and nothing that the other goroutines, the device or
\* the callers of Close and Shutdown do adds to them (runner.go, Run).
THEOREM RunWindsDown == Spec => WindsDown /\ [](Left \in 0..(MaxFrames + 6))
<1>1. Inv /\ [Next]_vars => [Leaving => Leaving' /\ Left' <= Left /\ (Run => Left' < Left)]_vars
  <2> SUFFICES ASSUME Inv, [Next]_vars, Leaving
               PROVE  Leaving' /\ Left' <= Left /\ (Run => Left' < Left)
    OBVIOUS
  <2>1. QED
    BY RunLess, OthersNoMore
<1>2. Inv => Left \in 0..(MaxFrames + 6)
  BY LeftTyped DEF Inv
<1>3. QED
  BY InvInductive, <1>1, <1>2, PTL DEF Spec, WindsDown
=============================================================================
