--------------------------- MODULE LatestMailbox ---------------------------
(***************************************************************************)
(* What the outbound push client promises: a cell that holds at most the   *)
(* newest frame.  Putting a frame never waits and supersedes the frame     *)
(* still in the cell; the worker takes the frame, and from then on it will *)
(* be attempted exactly once.  Frames are numbered in the order in which   *)
(* they are put; 0 stands for "no frame".                                  *)
(*                                                                         *)
(* PushClient implements this specification.                               *)
(***************************************************************************)
EXTENDS Naturals

VARIABLES newest,     \* the number of frames put so far
          cell,       \* the frame waiting
          inHand,     \* the frame being transmitted
          superseded  \* how many frames were replaced before they were taken

mvars == <<newest, cell, inHand, superseded>>

MInit == newest = 0 /\ cell = 0 /\ inHand = 0 /\ superseded = 0

MPut == /\ newest' = newest + 1
        /\ cell' = newest + 1
        /\ superseded' = IF cell = 0 THEN superseded ELSE superseded + 1
        /\ UNCHANGED inHand

MTake == /\ cell # 0 /\ inHand = 0
         /\ inHand' = cell /\ cell' = 0
         /\ UNCHANGED <<newest, superseded>>

MFinish == /\ inHand # 0
           /\ inHand' = 0
           /\ UNCHANGED <<newest, cell, superseded>>

MSpec == MInit /\ [][MPut \/ MTake \/ MFinish]_mvars
=============================================================================
