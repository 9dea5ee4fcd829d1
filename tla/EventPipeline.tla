--------------------------- MODULE EventPipeline ---------------------------
(***************************************************************************)
(* How an input of the device becomes an event for Home Assistant and a    *)
(* line of the status page: Runner.handleFrame and Decoder.Decode, the     *)
(* ring of traces and the counters of telemetry.Store, and the dispatcher  *)
(* of internal/hass behind its queue.                                      *)
(*                                                                         *)
(* The dispatcher is EventRelay, which HassDispatcher implements.  An      *)
(* event is named by the trace ID that RecordEvent gives it.  The runner   *)
(* goroutine records, then enqueues; the worker's outcome is recorded      *)
(* whenever it comes, which may be after the trace has left the ring.      *)
(* Every method of Store runs under its mutex and is one step.             *)
(*                                                                         *)
(* What an input carries is left to EventSchema: whatever becomes of it is *)
(* determined by its kind.                                                 *)
(***************************************************************************)
EXTENDS EventRelay, EventSchema, FiniteSets

CONSTANTS RingCapacity, \* maxRingCapacity
          Inputs,       \* the kinds of input that become events
          Noise,        \* any other update in a frame
          Stamps,       \* the times a device may put on an update
          MaxUpdates,   \* bound on the updates in a frame
          MaxEvents     \* bound on the events recorded

ASSUME PipelineAssumption == /\ RingCapacity \in Nat \ {0}
                             /\ MaxEvents \in Nat /\ MaxUpdates \in Nat
                             /\ Events = 1..MaxEvents
                             /\ Inputs \subseteq {"button", "switch", "encoder"}
                             /\ Noise \notin Inputs
                             /\ \A s \in Stamps : s \in Int /\ s <= MaxInt

VARIABLES
  frame,      \* what handleFrame has still to do of its frame
  traced,     \* the event recorded and not yet enqueued, 0 if none
  nextID,     \* of the store, the total of events too
  ring,       \* ringBuffer, oldest first: ID, kind and outcome
  counters,   \* events per kind
  dispatched, acked, failed,   \* the forwarding telemetry
  dropCount

runner == <<frame, traced>>
traces == <<nextID, ring, counters>>
tally  == <<dispatched, acked, failed, dropCount>>
vars   == <<rvars, runner, traces, tally>>

Init == /\ RInit
        /\ frame = <<>> /\ traced = 0
        /\ nextID = 0 /\ ring = <<>>
        /\ counters = [k \in Inputs |-> 0]
        /\ dispatched = 0 /\ acked = 0 /\ failed = 0 /\ dropCount = 0

-----------------------------------------------------------------------------
(* The runner.                                                             *)

\* A frame is taken from the channel; one that does not parse is dropped there.
ReceiveFrame ==
  /\ frame = <<>> /\ traced = 0
  /\ \E n \in 1..MaxUpdates : frame' \in [1..n -> Inputs \cup {Noise}]
  /\ nextID + Len(frame') <= MaxEvents
  /\ UNCHANGED <<rvars, traced, traces, tally>>

\* Mutant: every update counts as an input.
KnownAlways(update) == TRUE

\* Decode makes an event of the update, and TranslateEvent accepts it.
Known(update) == update # Noise

Skip == /\ frame # <<>> /\ traced = 0 /\ ~Known(Head(frame))
        /\ frame' = Tail(frame)
        /\ UNCHANGED <<rvars, traced, traces, tally>>

\* Mutant: the oldest trace goes one event too late.
AppendLate(trace) ==
  IF Len(ring) > RingCapacity THEN Append(Tail(ring), trace) ELSE Append(ring, trace)

\* The ring takes a trace, its oldest giving way.
AppendTrace(trace) ==
  IF Len(ring) >= RingCapacity THEN Append(Tail(ring), trace) ELSE Append(ring, trace)

\* RecordEvent gives the next input of the frame its ID, its trace and its count.
RecordEvent ==
  /\ frame # <<>> /\ traced = 0 /\ Known(Head(frame))
  /\ nextID' = nextID + 1
  /\ ring' = AppendTrace([id |-> nextID', kind |-> Head(frame), outcome |-> "pending"])
  /\ counters' = [counters EXCEPT ![Head(frame)] = @ + 1]
  /\ frame' = Tail(frame) /\ traced' = nextID'
  /\ UNCHANGED <<rvars, tally>>

\* Mutant: a rejected event is not counted.
EnqueueSilent == /\ traced # 0
                 /\ Accept(traced) \/ Reject(traced)
                 /\ UNCHANGED dropCount
                 /\ traced' = 0
                 /\ UNCHANGED <<frame, traces, dispatched, acked, failed>>

\* Enqueue takes the event, or drops it and counts the drop.
Enqueue == /\ traced # 0
           /\ \/ Accept(traced) /\ UNCHANGED dropCount
              \/ Reject(traced) /\ dropCount' = dropCount + 1
           /\ traced' = 0
           /\ UNCHANGED <<frame, traces, dispatched, acked, failed>>

-----------------------------------------------------------------------------
(* The worker of the dispatcher.                                           *)

\* Mutant: the outcome goes to the newest trace.
MarkNewest(id, outcome) ==
  ring' = [i \in DOMAIN ring |->
             IF i = Len(ring) THEN [ring[i] EXCEPT !.outcome = outcome] ELSE ring[i]]

\* The trace of the event gets the outcome, if it is still in the ring.
Mark(id, outcome) ==
  ring' = [i \in DOMAIN ring |->
             IF ring[i].id = id THEN [ring[i] EXCEPT !.outcome = outcome] ELSE ring[i]]

\* RecordForwardOutcome.
Forward == /\ Settle
           /\ dispatched' = dispatched + 1
           /\ \/ /\ verdict'[Head(line)] = "success"
                 /\ acked' = acked + 1 /\ UNCHANGED failed
                 /\ Mark(Head(line), "success")
              \/ /\ verdict'[Head(line)] = "failure"
                 /\ failed' = failed + 1 /\ UNCHANGED acked
                 /\ Mark(Head(line), "failure")
           /\ UNCHANGED <<runner, nextID, counters, dropCount>>

\* RecordDrop of an expired event, or nothing for one lost to the shutdown.
Drop == /\ Settle
        /\ \/ verdict'[Head(line)] = "expired" /\ dropCount' = dropCount + 1
           \/ verdict'[Head(line)] = "lost" /\ UNCHANGED dropCount
        /\ UNCHANGED <<runner, traces, dispatched, acked, failed>>

\* The shutdown begins, at any moment.
Stop == Halt /\ UNCHANGED <<runner, traces, tally>>

Next == ReceiveFrame \/ Skip \/ RecordEvent \/ Enqueue \/ Forward \/ Drop \/ Stop

Spec == Init /\ [][Next]_vars

-----------------------------------------------------------------------------
(* Properties.                                                             *)

Traces == [id : Nat \ {0}, kind : Inputs, outcome : {"pending", "success", "failure"}]

TypeOK == /\ RTypeOK
          /\ frame \in Seq(Inputs \cup {Noise}) /\ traced \in 0..nextID
          /\ nextID \in Nat /\ nextID + Len(frame) <= MaxEvents
          /\ ring \in Seq(Traces)
          /\ counters \in [Inputs -> Nat]
          /\ dispatched \in Nat /\ acked \in Nat /\ failed \in Nat /\ dropCount \in Nat

\* The ring holds the newest events, every one of them, oldest first.
RingIsNewest ==
  /\ Len(ring) = IF nextID < RingCapacity THEN nextID ELSE RingCapacity
  /\ \A i \in 1..Len(ring) : ring[i].id = nextID - Len(ring) + i

\* Every trace shows the outcome of its own event, however late it came and whatever
\* was recorded meanwhile; an event that was dropped, expired or lost stays pending.
OutcomeOnItsTrace ==
  \A i \in 1..Len(ring) :
    ring[i].outcome = IF verdict[ring[i].id] \in {"success", "failure"}
                        THEN verdict[ring[i].id] ELSE "pending"

Lost == {e \in Events : verdict[e] = "lost"}

\* Every event recorded is accounted for once: dispatched, dropped, lost to the
\* shutdown, in the line, or about to be enqueued.
Books ==
  /\ dispatched = acked + failed
  /\ nextID = dispatched + dropCount + Cardinality(Lost) + Len(line)
                + (IF traced = 0 THEN 0 ELSE 1)

Shapes(kind) == Updates(kind) \X Stamps

\* Everything the status page shows was sent as the object that ToHomeAssistantJSON of
\* pkg/pb would have sent for the same update, values unknown to this version included.
OneSchema == \A i \in 1..Len(ring) :
               \A s \in Shapes(ring[i].kind) : SameObject("busybar", s[2], s[1])

\* Everything the status page shows can be read back from its JSON (hass/event.go), with
\* the same type, device and data, and the time as far as a float64 can hold it.
SentIsReadable == \A i \in 1..Len(ring) :
                    \A s \in Shapes(ring[i].kind) : ReadBack("busybar", s[2], s[1])
=============================================================================
