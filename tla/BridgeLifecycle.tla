-------------------------- MODULE BridgeLifecycle --------------------------
(***************************************************************************)
(* The life of the process: run of main.go, and NewRunner, Run, Close and  *)
(* Shutdown of internal/runner/runner.go.  Run starts the components in    *)
(* order, takes frames until the context ends or the channel of frames is  *)
(* closed, and then stops everything: the WebSocket client first, the      *)
(* others side by side within ShutdownTimeout, the HTTP server last.       *)
(* A goroutine of Run copies the connection state into the telemetry.      *)
(*                                                                         *)
(* What a component does is in its own module; here it has a goroutine     *)
(* that runs until its context is cancelled, by the process or by its own  *)
(* Close, and Close waits for it.  A frame is a token.                     *)
(***************************************************************************)
EXTENDS Configuration, Integers

CONSTANTS Launches,    \* what the process may be started with: records of an
                       \* environment (env) and a command line (args)
          MaxFrames    \* capacity of the channel of frames

ASSUME BridgeAssumption == MaxFrames \in Nat \ {0}

ASSUME LaunchAssumption ==
  \A l \in Launches :
    /\ l.env \in [Settings -> Words] /\ \A k \in Settings : l.env[k] \in Raw(k)
    /\ l.args \in Seq([key : Settings, value : Words])
    /\ \A i \in DOMAIN l.args : l.args[i].value \in Raw(l.args[i].key)

Order      == <<"server", "hass", "busy", "push", "poller", "display">>
Components == {"server", "hass", "busy", "push", "poller", "display"}
SideBySide == {"display", "hass", "push", "poller"}

\* The order in which Runner.Close closes them.
CloseOrder == <<"busy", "display", "push", "poller", "hass">>

VARIABLES
  launch,        \* the environment and the command line
  rpc, next,     \* where run is; the component to start next
  result,        \* what Run returned
  timedOut,      \* the shutdown has not waited for everything
  ctxDone,       \* a signal has come
  wired,         \* the components NewRunner has made
  worker,        \* per component: "off", "running" or "ended"
  closed,        \* the components whose Close has been called
  awaited,       \* the components whose Close holds Run up
  owner,         \* how far a Runner.Close that somebody else calls has come
  frames,        \* in the channel of frames
  isConnected,   \* busyClient.IsConnected
  connected,     \* the telemetry's copy
  sync, syncDone \* the goroutine that copies it, and its context

process == <<launch, rpc, next, result, timedOut, ctxDone, wired>>
parts   == <<worker, closed, awaited, owner>>
stream  == <<frames, isConnected>>
status  == <<connected, sync, syncDone>>
vars    == <<process, parts, stream, status>>

Init == /\ launch \in Launches
        /\ rpc = "parse" /\ next = 1 /\ result = "none" /\ timedOut = FALSE
        /\ ctxDone = FALSE /\ wired = {}
        /\ worker = [c \in Components |-> "off"]
        /\ closed = {} /\ awaited = {} /\ owner = 0
        /\ frames = 0 /\ isConnected = FALSE
        /\ connected = FALSE /\ sync = "off" /\ syncDone = FALSE

\* SIGINT or SIGTERM.
Signal == /\ ~ctxDone
          /\ ctxDone' = TRUE
          /\ UNCHANGED <<launch, rpc, next, result, timedOut, wired, parts, stream, status>>
-----------------------------------------------------------------------------
(* run and Run.                                                            *)

Goto(label) == rpc' = label /\ UNCHANGED <<launch, next, result, timedOut, ctxDone, wired>>
Return(how) == /\ rpc' = "returned" /\ result' = how
               /\ UNCHANGED <<launch, next, timedOut, ctxDone, wired>>

\* Parse, and NewRunner, which cannot read a corrupt calendar file.
Configure ==
  /\ rpc = "parse"
  /\ \/ /\ ParseOK(launch.env, launch.args)
        /\ wired' = Wired(Parse(launch.env, launch.args))
        /\ rpc' = "start"
        /\ UNCHANGED <<launch, next, result, timedOut, ctxDone>>
     \/ Return("error")
  /\ UNCHANGED <<parts, stream, status>>

\* Run starts the next component there is.
Start == /\ rpc = "start" /\ next <= Len(Order)
         /\ Order[next] = "server" => ~ctxDone
         /\ worker' = IF Order[next] \in wired
                        THEN [worker EXCEPT ![Order[next]] = "running"] ELSE worker
         /\ next' = next + 1
         /\ UNCHANGED <<launch, rpc, result, timedOut, ctxDone, wired, closed, awaited, owner,
                        stream, status>>

\* The server cannot have its port, or the context is done; or another component refuses,
\* as each may.  What has been started is left to the end of the context.
StartFails == /\ rpc = "start" /\ next <= Len(Order) /\ Order[next] \in wired
              /\ Return("error")
              /\ UNCHANGED <<parts, stream, status>>

\* Everything runs: the goroutine that copies the connection state, then the loop.
Started == /\ rpc = "start" /\ next > Len(Order)
           /\ Goto("loop")
           /\ sync' = "wait"
           /\ UNCHANGED <<parts, stream, connected, syncDone>>

\* handleFrame, which ends by copying the connection state.
HandleFrame == /\ rpc \in {"loop", "drain"} /\ frames > 0
               /\ frames' = frames - 1
               /\ connected' = isConnected
               /\ UNCHANGED <<process, parts, isConnected, sync, syncDone>>

\* The WebSocket client's goroutine closes the channel when it ends.
FramesClosed == worker["busy"] = "ended"

LeaveLoop == /\ rpc = "loop"
             /\ ctxDone \/ (FramesClosed /\ frames = 0)
             /\ Goto("cancelSync")
             /\ UNCHANGED <<parts, stream, status>>

\* syncCancel() and SetConnected(false); then the WebSocket client is closed.
CancelSync == /\ rpc = "cancelSync"
              /\ syncDone' = TRUE /\ connected' = FALSE
              /\ closed' = closed \cup {"busy"}
              /\ Goto("closeBusy")
              /\ UNCHANGED <<worker, awaited, owner, stream, sync>>

\* Mutant: what is still in the channel is left there.
DrainedAtOnce == /\ rpc = "closeBusy"
                 /\ closed' = closed \cup (SideBySide \cap wired)
                 /\ awaited' = (SideBySide \cap wired) \ (closed \cap {"hass"})
                 /\ Goto("wait")
                 /\ UNCHANGED <<worker, owner, stream, status>>

\* Close has waited for the client without a time limit; now the channel is emptied.
BusyClosed == /\ rpc = "closeBusy" /\ worker["busy"] # "running"
              /\ Goto("drain")
              /\ UNCHANGED <<parts, stream, status>>

\* The four are closed side by side.  A second Close of the dispatcher does not wait.
Drained == /\ rpc = "drain" /\ frames = 0
           /\ closed' = closed \cup (SideBySide \cap wired)
           /\ awaited' = (SideBySide \cap wired) \ (closed \cap {"hass"})
           /\ Goto("wait")
           /\ UNCHANGED <<worker, owner, stream, status>>

\* All of them have returned, or ShutdownTimeout is over.
Waited == /\ rpc = "wait"
          /\ \/ timedOut' = FALSE /\ \A c \in awaited : worker[c] # "running"
             \/ timedOut' = TRUE
          /\ rpc' = "stopServer"
          /\ UNCHANGED <<launch, next, result, ctxDone, wired, parts, stream, status>>

StopServer == /\ rpc = "stopServer"
              /\ worker' = [worker EXCEPT !["server"] = "ended"]
              /\ Return("ok")
              /\ UNCHANGED <<closed, awaited, owner, stream, status>>
-----------------------------------------------------------------------------
(* Close and Shutdown called by somebody else, once everything runs.       *)

MayStop == rpc \notin {"parse", "start"} /\ result # "error" /\ owner = 0

\* Close takes one component after the other: it begins with the next when the goroutine
\* of the one before has ended.
Close == /\ owner = 0 => MayStop
         /\ owner < Len(CloseOrder)
         /\ owner > 0 => worker[CloseOrder[owner]] # "running"
         /\ owner' = owner + 1
         /\ closed' = closed \cup ({CloseOrder[owner + 1]} \cap wired)
         /\ UNCHANGED <<process, worker, awaited, stream, status>>

\* Shutdown takes all but the WebSocket client at once, the server with them.
Shutdown == /\ MayStop
            /\ owner' = Len(CloseOrder)
            /\ closed' = closed \cup (SideBySide \cap wired)
            /\ worker' = [worker EXCEPT !["server"] = "ended"]
            /\ UNCHANGED <<process, awaited, stream, status>>
-----------------------------------------------------------------------------
(* The components' goroutines.                                             *)

Told(c) == ctxDone \/ c \in closed

\* Mutant: the server does not watch the context.
WorkerEndsUnlessServer(c) ==
  /\ worker[c] = "running" /\ Told(c) /\ c # "server"
  /\ worker' = [worker EXCEPT ![c] = "ended"]
  /\ isConnected' = (isConnected /\ c # "busy")
  /\ UNCHANGED <<process, closed, awaited, owner, frames, status>>

\* Mutant: Close does not cancel the goroutine's context.
WorkerEndsWithContext(c) ==
  /\ worker[c] = "running" /\ ctxDone
  /\ worker' = [worker EXCEPT ![c] = "ended"]
  /\ isConnected' = (isConnected /\ c # "busy")
  /\ UNCHANGED <<process, closed, awaited, owner, frames, status>>

\* It returns once its context is done, from a request or a wait too: the dispatcher with
\* events left in its queue, the WebSocket client closing the channel of frames, the HTTP
\* server by the goroutine that waits for the context.
WorkerEnds(c) ==
  /\ worker[c] = "running" /\ Told(c)
  /\ worker' = [worker EXCEPT ![c] = "ended"]
  /\ isConnected' = (isConnected /\ c # "busy")
  /\ UNCHANGED <<process, closed, awaited, owner, frames, status>>

\* The device connects, is lost, and sends while connected.
Connection == /\ worker["busy"] = "running"
              /\ isConnected' = ~isConnected
              /\ UNCHANGED <<process, parts, frames, status>>

Receive == /\ worker["busy"] = "running" /\ isConnected /\ frames < MaxFrames
           /\ frames' = frames + 1
           /\ UNCHANGED <<process, parts, isConnected, status>>

\* Mutant: the telemetry is told of a connection only.
SyncAskOnce == /\ sync = "wait"
               /\ sync' = IF isConnected \/ connected THEN "up" ELSE "down"
               /\ UNCHANGED <<process, parts, stream, connected, syncDone>>

\* The copying goroutine, every 100 ms: it asks the client, and then tells the telemetry.
SyncAsk == /\ sync = "wait"
           /\ sync' = IF isConnected THEN "up" ELSE "down"
           /\ UNCHANGED <<process, parts, stream, connected, syncDone>>

SyncTell == /\ sync \in {"up", "down"}
            /\ connected' = (sync = "up")
            /\ sync' = "wait"
            /\ UNCHANGED <<process, parts, stream, syncDone>>

\* What /ready answers.
Ready == connected

SyncExit == /\ sync = "wait" /\ (syncDone \/ ctxDone)
            /\ sync' = "done"
            /\ UNCHANGED <<process, parts, stream, connected, syncDone>>
-----------------------------------------------------------------------------
Run == \/ Configure \/ Start \/ StartFails \/ Started \/ HandleFrame \/ LeaveLoop
       \/ CancelSync \/ BusyClosed \/ Drained \/ Waited \/ StopServer

Sync == SyncAsk \/ SyncTell

Next == \/ Run \/ Signal \/ Close \/ Shutdown
        \/ \E c \in Components : WorkerEnds(c)
        \/ Connection \/ Receive \/ Sync \/ SyncExit

Spec == Init /\ [][Next]_vars

\* Goroutines run; select does not ignore a context that is done for ever.
FairSpec == /\ Spec
            /\ WF_vars(Run)
            /\ WF_vars(\E c \in Components : WorkerEnds(c))
            /\ WF_vars(Sync) /\ SF_vars(SyncExit)
-----------------------------------------------------------------------------
(* Properties.                                                             *)

TypeOK == /\ launch \in Launches
          /\ rpc \in {"parse", "start", "loop", "cancelSync", "closeBusy", "drain", "wait",
                      "stopServer", "returned"}
          /\ next \in 1..(Len(Order) + 1)
          /\ result \in {"none", "ok", "error"}
          /\ {timedOut, ctxDone, isConnected, connected, syncDone} \subseteq BOOLEAN
          /\ worker \in [Components -> {"off", "running", "ended"}]
          /\ wired \subseteq Components /\ closed \subseteq Components
          /\ awaited \subseteq SideBySide
          /\ owner \in 0..Len(CloseOrder)
          /\ frames \in 0..MaxFrames
          /\ sync \in {"off", "wait", "up", "down", "done"}

\* What a setting comes to (config.go): the last flag given for it, or else the
\* environment, or else the default.
Given(k) ==
  LET said == {i \in DOMAIN launch.args : launch.args[i].key = k} IN
  IF said # {} THEN launch.args[CHOOSE i \in said : \A j \in said : j <= i].value
  ELSE IF launch.env[k] # "" THEN launch.env[k] ELSE DefaultConfig[k]

\* Nothing is started but what the settings ask for, and nothing at all with a setting
\* that Parse or Validate refuses, even one that a good flag hides.
StartedAsConfigured ==
  \A c \in Components : worker[c] # "off" =>
    /\ \A k \in Typed : "garbled" \notin {launch.env[k], Given(k)}
    /\ \A k \in Ports \cup Durations \cup {"hass_token", "hass_url"} : Given(k) = "valid"
    /\ c \in {"poller", "display"} => Given("enable_calendar_sync") = "on"
    /\ c = "display" => Given("enable_outbound_push") = "on"

\* When Run (runner.go) has returned in time, every frame it was sent has been handled and
\* every goroutine it started is gone; but for the dispatcher's, if somebody else was
\* closing it: hass.Close returns at once for the second caller.
CleanReturn ==
  result = "ok" /\ ~timedOut =>
    /\ frames = 0
    /\ \A c \in Components : worker[c] = "running" => c = "hass" /\ owner > 0

\* Run (runner.go) returns after a signal, and after somebody else has closed the
\* WebSocket client, however long the other components take.
RunEnds == (rpc = "loop" /\ (ctxDone \/ "busy" \in closed)) ~> (rpc = "returned")

\* After a signal nothing keeps running, the components that a failed start left behind
\* (runner.go, Run) and the copying goroutine included.
NothingLeft ==
  ctxDone ~> /\ rpc = "returned" /\ sync \in {"off", "done"}
             /\ \A c \in Components : worker[c] # "running"

\* While the bridge runs, /ready comes to tell the truth about a connection that stays
\* as it is (server.go, handleReady; runner.go, the copying goroutine).
TelemetryFollows ==
  /\ <>[](rpc = "loop" /\ isConnected) => <>[]Ready
  /\ <>[](rpc = "loop" /\ ~isConnected) => <>[]~Ready
=============================================================================
