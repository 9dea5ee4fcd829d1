---------------------------- MODULE FrameStream ----------------------------
(***************************************************************************)
(* What the WebSocket client promises the runner: a channel of frames that *)
(* grows only while the client runs and reports a connection, that is      *)
(* closed once and for all, and not before the client is told to stop; and *)
(* no connection reported from then on.  It promises this to an owner that *)
(* does not start it after asking it to close.                             *)
(*                                                                         *)
(* BusyBarClient implements this specification, and BridgeLifecycle relies *)
(* on nothing else of the client.                                          *)
(***************************************************************************)
EXTENDS Naturals

CONSTANT Size   \* capacity of the channel

VARIABLES stage,        \* of the client: "off", "running", "ended", or "late"
          told,         \* the context it runs in is done
          asked,        \* Close has been called
          isConnected,  \* what it reports
          frames        \* in the channel

fvars == <<stage, told, asked, isConnected, frames>>

FInit == stage = "off" /\ told = FALSE /\ asked = FALSE /\ isConnected = FALSE /\ frames = 0

FStart == /\ stage = "off" /\ ~asked
          /\ stage' = "running"
          /\ UNCHANGED <<told, asked, isConnected, frames>>

\* The owner starts what it has asked to close: the client promises nothing from then on.
FLateStart == /\ stage = "off" /\ asked
              /\ stage' = "late"
              /\ UNCHANGED <<told, asked, isConnected, frames>>

FLate == stage = "late" /\ stage' = "late"

FTell == told' = TRUE /\ UNCHANGED <<stage, asked, isConnected, frames>>

FAsk == asked' = TRUE /\ UNCHANGED <<stage, told, isConnected, frames>>

FConnect == /\ stage = "running"
            /\ isConnected' = ~isConnected
            /\ UNCHANGED <<stage, told, asked, frames>>

FReceive == /\ stage = "running" /\ isConnected /\ frames < Size
            /\ frames' = frames + 1
            /\ UNCHANGED <<stage, told, asked, isConnected>>

FTake == /\ frames > 0
         /\ frames' = frames - 1
         /\ UNCHANGED <<stage, told, asked, isConnected>>

\* The end: the channel is closed.
FEnd == /\ stage = "running" /\ (told \/ asked)
        /\ stage' = "ended" /\ isConnected' = FALSE
        /\ UNCHANGED <<told, asked, frames>>

FNext == \/ FStart \/ FLateStart \/ FLate \/ FTell \/ FAsk
         \/ FConnect \/ FReceive \/ FTake \/ FEnd

FSpec == FInit /\ [][FNext]_fvars
=============================================================================
