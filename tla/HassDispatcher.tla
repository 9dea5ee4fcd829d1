--------------------------- MODULE HassDispatcher ---------------------------
(***************************************************************************)
(* internal/hass/client.go: the bounded in-memory queue of events and the  *)
(* single worker goroutine that POSTs them to Home Assistant.              *)
(*                                                                         *)
(* Goroutines: any number of producers calling Enqueue, any number of      *)
(* callers of Close, one worker, and the owner of the context given to     *)
(* Start.  An action is what a goroutine does between two points where     *)
(* another goroutine can observe it.                                       *)
(*                                                                         *)
(* Time is counted in ticks, relatively: age[e] since CreatedAt (up to     *)
(* TTL + 1, past which the code makes no distinction) and one countdown    *)
(* for the worker's backoff or request timeout.  The worker's own          *)
(* computation takes no time; a backoff timer may fire late, and a request *)
(* is never left outstanding for longer than RequestTimeout.               *)
(***************************************************************************)
EXTENDS Integers, Sequences, FiniteSets

CONSTANTS Events,          \* the events the producers have to offer
          NoEvent,         \* stands for "no event"
          Producers,       \* goroutines that call Enqueue
          Closers,         \* goroutines that call Close
          BufferSize,      \* capacity of eventsChan
          TTL,             \* in ticks, as the next two
          RetryBackoff,
          RequestTimeout,
          MaxRetries       \* retries after the first attempt

\* What Config.Validate accepts; NewClient returns an error for everything else.
Validate == /\ BufferSize \in Nat \ {0}
            /\ TTL \in Nat \ {0}
            /\ RetryBackoff \in Nat \ {0}
            /\ RequestTimeout \in Nat \ {0}
            /\ MaxRetries \in Nat \ {0}

ASSUME ConfigAssumption == NoEvent \notin Events /\ Validate

VARIABLES
  started, closed,   \* the client's flags, guarded by mu
  ctxDone,           \* the worker's context has been cancelled
  chanClosed,        \* close(eventsChan) has happened
  panicked,          \* a send on a closed channel has happened
  queue,             \* the contents of eventsChan
  offered,           \* the events some Enqueue has been called with
  sending,           \* the event a producer is about to send (mu read-locked)
  closing,           \* per caller of Close: "idle", "locked", "waiting", "returned"
  wpc,               \* where the worker is
  ev,                \* the event it dispatches
  attempt,           \* the loop variable of dispatch
  timer,             \* ticks to the end of the backoff, or to the request timeout
  req,               \* the outstanding request: "none", "sent" or the answer to it
  age,               \* ticks since CreatedAt
  log,               \* per event, the telemetry records made about it
  tries,             \* per event, how each attempt to POST it ended
  stray,             \* requests given up by the worker that HA may still receive
  delivered          \* how often Home Assistant has processed the event

callers == <<offered, sending, closing>>
flags   == <<started, closed, ctxDone, chanClosed, panicked>>
worker  == <<wpc, ev, attempt, timer, req>>
outside == <<tries, stray, delivered>>
vars    == <<flags, callers, queue, worker, age, log, outside>>

Answers == {"ok", "client_error", "other"}   \* 2xx, 4xx, any other status
Results == Answers \cup {"error"}            \* "error": no answer came
Records == {"overflow", "expired", "success", "failure"}

\* Mutants: each test off by one.
StaleTooLate     == age[ev] > TTL + 1
AttemptsLeftPlus == attempt <= MaxRetries + 1

\* The tests dispatch makes of the event in hand.
Stale        == age[ev] > TTL
AttemptsLeft == attempt <= MaxRetries

Least(a, b) == IF a < b THEN a ELSE b

InQueue(e) == \E i \in 1..Len(queue) : queue[i] = e
InPipe(e)  == InQueue(e) \/ ev = e \/ \E p \in Producers : sending[p] = e

\* Mutant: Enqueue takes no lock.
ReadLockedNever == FALSE

ReadLocked  == \E p \in Producers : sending[p] # NoEvent
WriteLocked == \E c \in Closers : closing[c] = "locked"

-----------------------------------------------------------------------------

Init == /\ started = FALSE /\ closed = FALSE
        /\ ctxDone = FALSE /\ chanClosed = FALSE /\ panicked = FALSE
        /\ queue = <<>>
        /\ offered = {}
        /\ sending = [p \in Producers |-> NoEvent]
        /\ closing = [c \in Closers |-> "idle"]
        /\ wpc = "off" /\ ev = NoEvent /\ attempt = 0 /\ timer = 0 /\ req = "none"
        /\ age = [e \in Events |-> 0]
        /\ log = [e \in Events |-> <<>>]
        /\ tries = [e \in Events |-> <<>>]
        /\ stray = [e \in Events |-> 0]
        /\ delivered = [e \in Events |-> 0]

\* Start, up to the launch of the worker goroutine.
Start == /\ ~started /\ ~closed /\ ~ReadLocked /\ ~WriteLocked
         /\ started' = TRUE
         /\ wpc' = "select"
         /\ UNCHANGED <<closed, ctxDone, chanClosed, panicked, callers, queue, ev,
                        attempt, timer, req, age, log, outside>>

\* The context handed to Start is cancelled by its owner.
CancelContext == /\ started /\ ~ctxDone
                 /\ ctxDone' = TRUE
                 /\ UNCHANGED <<started, closed, chanClosed, panicked, callers, queue,
                                worker, age, log, outside>>

Record(e, r) == log' = [log EXCEPT ![e] = Append(@, r)]

\* Enqueue finds the client closed.
EnqueueClosed(e) == /\ closed /\ ~WriteLocked /\ e \notin offered
                    /\ offered' = offered \cup {e}
                    /\ Record(e, "overflow")
                    /\ UNCHANGED <<flags, sending, closing, queue, worker, age, outside>>

\* Enqueue takes the read lock and finds the client open.
EnqueueOpen(p, e) == /\ sending[p] = NoEvent /\ e \notin offered
                     /\ ~closed /\ ~WriteLocked
                     /\ offered' = offered \cup {e}
                     /\ sending' = [sending EXCEPT ![p] = e]
                     /\ UNCHANGED <<flags, closing, queue, worker, age, log, outside>>

\* Mutant: one event too many.
HasRoomPlus == Len(queue) <= BufferSize

HasRoom == Len(queue) < BufferSize

\* The non-blocking send, and the release of the read lock.
EnqueueSend(p) ==
  /\ sending[p] # NoEvent
  /\ sending' = [sending EXCEPT ![p] = NoEvent]
  /\ \/ /\ chanClosed
        /\ panicked' = TRUE
        /\ UNCHANGED <<queue, log>>
     \/ /\ ~chanClosed /\ HasRoom
        /\ queue' = Append(queue, sending[p])
        /\ UNCHANGED <<panicked, log>>
     \/ /\ ~chanClosed /\ ~HasRoom
        /\ Record(sending[p], "overflow")
        /\ UNCHANGED <<panicked, queue>>
  /\ UNCHANGED <<started, closed, ctxDone, chanClosed, offered, closing, worker, age,
                 outside>>

\* Close, under the write lock: the flag, then the cancellation ...
CloseBegin(c) ==
  /\ closing[c] = "idle" /\ ~ReadLocked /\ ~WriteLocked
  /\ \/ /\ closed                      \* a second Close returns at once
        /\ closing' = [closing EXCEPT ![c] = "returned"]
        /\ UNCHANGED <<closed, ctxDone>>
     \/ /\ ~closed
        /\ closed' = TRUE
        /\ ctxDone' = (ctxDone \/ started)
        /\ closing' = [closing EXCEPT ![c] = "locked"]
  /\ UNCHANGED <<started, chanClosed, panicked, offered, sending, queue, worker, age,
                 log, outside>>

\* ... then the channel, then the release of the lock.
CloseChan(c) == /\ closing[c] = "locked"
                /\ chanClosed' = TRUE
                /\ closing' = [closing EXCEPT ![c] = "waiting"]
                /\ UNCHANGED <<started, closed, ctxDone, panicked, offered, sending,
                               queue, worker, age, log, outside>>

\* wg.Wait returns.
CloseReturn(c) == /\ closing[c] = "waiting" /\ wpc \in {"off", "done"}
                  /\ closing' = [closing EXCEPT ![c] = "returned"]
                  /\ UNCHANGED <<flags, offered, sending, queue, worker, age, log, outside>>

-----------------------------------------------------------------------------
(* The worker.  Its select may take a waiting event although ctx is done.  *)

\* Mutant: the newest event first.
ReceiveNewest == /\ wpc = "select" /\ queue # <<>>
                 /\ ev' = queue[Len(queue)]
                 /\ queue' = SubSeq(queue, 1, Len(queue) - 1)
                 /\ wpc' = "dispatch"
                 /\ UNCHANGED <<flags, callers, attempt, timer, req, age, log, outside>>

Receive == /\ wpc = "select" /\ queue # <<>>
           /\ ev' = Head(queue)
           /\ queue' = Tail(queue)
           /\ wpc' = "dispatch"
           /\ UNCHANGED <<flags, callers, attempt, timer, req, age, log, outside>>

\* Mutant: the receive has no ", ok", so the closed channel never ends the worker.
StopRequestedNoOk == ctxDone /\ ~chanClosed

StopRequested == ctxDone \/ (chanClosed /\ queue = <<>>)

Exit == /\ wpc = "select"
        /\ StopRequested
        /\ wpc' = "done"
        /\ UNCHANGED <<flags, callers, queue, ev, attempt, timer, req, age, log, outside>>

\* dispatch returns to the worker's loop.
Done == /\ wpc' = "select" /\ ev' = NoEvent /\ attempt' = 0 /\ timer' = 0 /\ req' = "none"
        /\ UNCHANGED <<flags, callers, queue, age>>

\* Mutant: dispatch returns without a record.
ConcludeSilently(r) == r \in Records /\ Done /\ UNCHANGED log

\* dispatch records an outcome and returns.
Conclude(r) == Record(ev, r) /\ Done

\* The staleness check before the first attempt.
CheckTTL == /\ wpc = "dispatch"
            /\ \/ /\ Stale
                  /\ Conclude("expired")
               \/ /\ ~Stale
                  /\ wpc' = "post"
                  /\ UNCHANGED <<flags, callers, queue, ev, attempt, timer, req, age, log>>
            /\ UNCHANGED outside

\* Mutant: the loop does not count its iterations.
NextAttemptUncounted(result) ==
  /\ tries' = [tries EXCEPT ![ev] = Append(@, result)]
  /\ wpc' = "loop" /\ timer' = 0 /\ req' = "none"
  /\ UNCHANGED <<flags, callers, queue, ev, attempt, age, log>>

\* The attempt ended without a final answer: on to the next iteration.
NextAttempt(result) ==
  /\ tries' = [tries EXCEPT ![ev] = Append(@, result)]
  /\ attempt' = attempt + 1
  /\ wpc' = "loop" /\ timer' = 0 /\ req' = "none"
  /\ UNCHANGED <<flags, callers, queue, ev, age, log>>

\* httpClient.Do: nothing is sent once the context is done.
Post == /\ wpc = "post"
        /\ \/ /\ ctxDone
              /\ NextAttempt("error")
              /\ UNCHANGED <<stray, delivered>>
           \/ /\ ~ctxDone
              /\ wpc' = "inflight" /\ req' = "sent" /\ timer' = RequestTimeout
              /\ UNCHANGED <<flags, callers, queue, ev, attempt, age, log, outside>>

\* httpClient.Do fails: timeout, cancellation, or a network error at any time.
RequestError ==
  /\ wpc = "inflight"
  /\ NextAttempt("error")
  /\ \/ /\ req = "sent"               \* the request may still be on its way
        /\ stray' = [stray EXCEPT ![ev] = @ + 1]
     \/ UNCHANGED stray
  /\ UNCHANGED delivered

\* An answer arrives: success, permanent failure, or a transient failure.
Respond == /\ wpc = "inflight" /\ req \in Answers
           /\ \/ /\ req = "ok"
                 /\ Conclude("success")
                 /\ tries' = [tries EXCEPT ![ev] = Append(@, req)]
              \/ /\ req = "client_error"
                 /\ Conclude("failure")
                 /\ tries' = [tries EXCEPT ![ev] = Append(@, req)]
              \/ /\ req = "other"
                 /\ NextAttempt(req)
           /\ UNCHANGED <<stray, delivered>>

\* The head of the retry loop: give up, expire, or start the backoff.
Loop == /\ wpc = "loop"
        /\ \/ /\ ~AttemptsLeft
              /\ Conclude("failure")
           \/ /\ AttemptsLeft /\ TTL - age[ev] <= 0
              /\ Conclude("expired")
           \/ /\ AttemptsLeft /\ TTL - age[ev] > 0
              /\ timer' = Least(RetryBackoff * attempt, TTL - age[ev])
              /\ wpc' = "wait"
              /\ UNCHANGED <<flags, callers, queue, ev, attempt, req, age, log>>
        /\ UNCHANGED outside

\* The backoff is over; staleness is checked again.
Wake == /\ wpc = "wait" /\ timer = 0
        /\ \/ /\ Stale
              /\ Conclude("expired")
           \/ /\ ~Stale
              /\ wpc' = "post"
              /\ UNCHANGED <<flags, callers, queue, ev, attempt, timer, req, age, log>>
        /\ UNCHANGED outside

\* The context is done during the backoff: dispatch returns and records nothing.
CancelWait == /\ wpc = "wait" /\ ctxDone
              /\ Done
              /\ UNCHANGED <<log, outside>>

-----------------------------------------------------------------------------
(* Home Assistant and the network.                                         *)

\* The request is processed and answered; a status such as 502 leaves open
\* whether the event was fired.
HAAnswers == /\ wpc = "inflight" /\ req = "sent"
             /\ req' \in Answers
             /\ delivered' \in {[delivered EXCEPT ![ev] = @ + n] : n \in
                  CASE req' = "ok" -> {1} [] req' = "client_error" -> {0} [] OTHER -> {0, 1}}
             /\ UNCHANGED <<flags, callers, queue, wpc, ev, attempt, timer, age, log,
                            tries, stray>>

\* A request the worker has given up reaches Home Assistant after all.
HALate(e) == /\ stray[e] > 0
             /\ stray' = [stray EXCEPT ![e] = @ - 1]
             /\ delivered' = [delivered EXCEPT ![e] = @ + 1]
             /\ UNCHANGED <<flags, callers, queue, worker, age, log, tries>>

Tick == /\ wpc \notin {"dispatch", "post", "loop"}
        /\ wpc = "inflight" => timer > 0
        /\ age' = [e \in Events |-> IF e \in offered /\ age[e] <= TTL THEN age[e] + 1 ELSE age[e]]
        /\ timer' = IF timer > 0 THEN timer - 1 ELSE 0
        /\ <<age', timer'>> # <<age, timer>>
        /\ UNCHANGED <<flags, callers, queue, wpc, ev, attempt, req, log, outside>>

-----------------------------------------------------------------------------

WorkerStep == Receive \/ Exit \/ CheckTTL \/ Post \/ RequestError \/ Respond
                \/ Loop \/ Wake \/ CancelWait

Next == \/ Start \/ CancelContext
        \/ \E e \in Events : EnqueueClosed(e)
        \/ \E p \in Producers : EnqueueSend(p) \/ \E e \in Events : EnqueueOpen(p, e)
        \/ \E c \in Closers : CloseBegin(c) \/ CloseChan(c) \/ CloseReturn(c)
        \/ WorkerStep
        \/ HAAnswers
        \/ \E e \in Events : HALate(e)
        \/ Tick

Spec == Init /\ [][Next]_vars

\* A request fails of itself only at its timeout or when the context is done.
ForcedError == (timer = 0 \/ ctxDone) /\ RequestError

\* The Go scheduler runs every goroutine that can run, and time passes.  Nothing
\* is assumed of the callers, of Home Assistant or of the network.
Fairness == /\ WF_vars(Receive \/ Exit \/ CheckTTL \/ Post \/ ForcedError \/ Respond
                         \/ Loop \/ Wake \/ CancelWait)
            /\ WF_vars(Tick)
            /\ \A p \in Producers : WF_vars(EnqueueSend(p))
            /\ \A c \in Closers : WF_vars(CloseChan(c)) /\ WF_vars(CloseReturn(c))

FairSpec == Spec /\ Fairness

-----------------------------------------------------------------------------
(* Properties.                                                             *)

FlagsOK == /\ started \in BOOLEAN /\ closed \in BOOLEAN /\ ctxDone \in BOOLEAN
           /\ chanClosed \in BOOLEAN /\ panicked \in BOOLEAN

CallersOK == /\ offered \in SUBSET Events
             /\ sending \in [Producers -> Events \cup {NoEvent}]
             /\ closing \in [Closers -> {"idle", "locked", "waiting", "returned"}]

QueueOK == queue \in Seq(Events) /\ Len(queue) <= BufferSize

WorkerOK ==
  /\ wpc \in {"off", "select", "dispatch", "post", "inflight", "loop", "wait", "done"}
  /\ ev \in Events \cup {NoEvent}
  /\ (ev = NoEvent) <=> (wpc \in {"off", "select", "done"})
  /\ attempt \in Nat /\ attempt <= MaxRetries + 1
  /\ timer \in Nat
  /\ req \in {"none", "sent"} \cup Answers

RecordsOK == /\ log \in [Events -> Seq(Records)]
             /\ tries \in [Events -> Seq(Results)]

CountsOK == /\ age \in [Events -> 0..(TTL + 1)]
            /\ stray \in [Events -> Nat]
            /\ delivered \in [Events -> Nat]

TypeOK == FlagsOK /\ CallersOK /\ QueueOK /\ WorkerOK /\ RecordsOK /\ CountsOK

\* Enqueue never panics, however it races with Close: the read lock it holds from
\* the test of closed to the send keeps close(eventsChan) out.
NoSendOnClosed == ~panicked

\* Every attempt, the retries after a backoff included, begins while the event is
\* no older than the TTL.
FreshPost == wpc = "post" => age[ev] <= TTL

\* An event has at most one telemetry record, none while it is on its way, and one
\* as soon as it is gone, unless the worker's context is done.
OneRecord == \A e \in Events :
               /\ Len(log[e]) <= 1
               /\ InPipe(e) => log[e] = <<>>
               /\ e \in offered /\ ~InPipe(e) /\ ~ctxDone => Len(log[e]) = 1

\* No event is posted more than 1 + MaxRetries times or again after a final answer,
\* and the outcome recorded for it agrees with the answers received: success for
\* 2xx, failure for 4xx or when every attempt is used up.
OutcomeJustified ==
  \A e \in Events : LET n == Len(tries[e]) IN
    /\ n <= MaxRetries + 1
    /\ \A i \in 1..n : tries[e][i] \in {"ok", "client_error"} => i = n /\ log[e] # <<>>
    /\ log[e] = <<"success">> => n > 0 /\ tries[e][n] = "ok"
    /\ log[e] = <<"failure">> => n > 0 /\ (tries[e][n] = "client_error" \/ n = MaxRetries + 1)

\* Home Assistant processes an event at most once per attempt even if answers are
\* lost and requests arrive late, at least once if success was recorded, and never
\* if the event was refused by Enqueue.
DeliveryBound ==
  \A e \in Events :
    /\ delivered[e] + stray[e] <= MaxRetries + 1
    /\ log[e] = <<"success">> => delivered[e] >= 1
    /\ log[e] = <<"overflow">> => delivered[e] = 0

\* A started worker settles every event it was given, unless its context is done.
EventuallySettled ==
  \A e \in Events : (started /\ InQueue(e)) ~> (log[e] # <<>> \/ ctxDone)

\* Every call of Close returns: cancellation reaches the worker in a request, in a
\* backoff and at its select.
CloseReturns == \A c \in Closers : (closing[c] # "idle") ~> (closing[c] = "returned")

\* The dispatcher implements the bounded line of EventRelay.
Relay == INSTANCE EventRelay WITH
           Capacity <- BufferSize,
           line     <- IF ev = NoEvent THEN queue ELSE <<ev>> \o queue,
           verdict  <- [e \in Events |->
                          IF log[e] # <<>> THEN log[e][1]
                          ELSE IF e \in offered /\ ~InPipe(e) THEN "lost" ELSE "none"],
           stopped  <- ctxDone,
           shut     <- closed
RelaySpec == Relay!RSpec

\* What the comment on dispatch says, and a cancelled backoff does not do: an event
\* that leaves dispatch has its outcome recorded.
DispatchRecords == [][ev # NoEvent /\ ev' # ev => Len(log'[ev]) = 1]_vars
=============================================================================
