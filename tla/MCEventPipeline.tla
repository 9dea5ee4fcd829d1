-------------------------- MODULE MCEventPipeline --------------------------
(* EventPipeline with a line longer than the ring, and the shapes of its inputs. *)
EXTENDS EventPipeline

AllEvents == 1..MaxEvents
MCDeltas  == {-1, 0, 2}
MCStamps  == {-1, 0, 7, 18, MaxInt}
MCOverflow == -8192
=============================================================================
