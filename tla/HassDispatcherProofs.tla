------------------------ MODULE HassDispatcherProofs ------------------------
(***************************************************************************)
(* Theorems about HassDispatcher, for every set of events, producers and   *)
(* closers and every configuration that Config.Validate accepts: its       *)
(* safety, that it implements EventRelay, and that it winds down once it   *)
(* has been closed.                                                        *)
(***************************************************************************)
EXTENDS HassDispatcher, SequenceTheorems, TLAPS

-----------------------------------------------------------------------------
(* Type correctness.                                                       *)

\* Only at the head of the retry loop can the attempts be used up.
Retriable == wpc # "loop" => attempt <= MaxRetries

\* The worker runs only once the client has been started.
Launched == wpc # "off" => started

Inv1 == TypeOK /\ Retriable /\ Launched

\* A telemetry record keeps the log a function to sequences of records.
LEMMA RecordTyped ==
  ASSUME RecordsOK, NEW e \in Events, NEW r \in Records, Record(e, r)
  PROVE  log' \in [Events -> Seq(Records)]
<1>1. Append(log[e], r) \in Seq(Records)
  BY AppendProperties DEF RecordsOK
<1>2. QED
  BY <1>1 DEF Record, RecordsOK

\* The same for the result of an attempt.
LEMMA ResultTyped ==
  ASSUME RecordsOK, NEW e \in Events, NEW r \in Results,
         tries' = [tries EXCEPT ![e] = Append(@, r)]
  PROVE  tries' \in [Events -> Seq(Results)]
<1>1. Append(tries[e], r) \in Seq(Results)
  BY AppendProperties DEF RecordsOK
<1>2. QED
  BY <1>1 DEF RecordsOK

\* The inductive invariant behind type correctness.
LEMMA Typed == Spec => []Inv1
<1> USE ConfigAssumption DEF ConfigAssumption, Validate
<1>1. Init => Inv1
  <2> SUFFICES ASSUME Init PROVE Inv1
    OBVIOUS
  <2>1. FlagsOK /\ CallersOK /\ Launched
    BY DEF Init, FlagsOK, CallersOK, Launched
  <2>0. Retriable
    BY DEF Init, Retriable
  <2>2. QueueOK /\ WorkerOK
    BY DEF Init, QueueOK, WorkerOK
  <2>3. RecordsOK /\ CountsOK
    BY DEF Init, RecordsOK, CountsOK
  <2>4. QED
    BY <2>0, <2>1, <2>2, <2>3 DEF Inv1, TypeOK
<1>2. Inv1 /\ [Next]_vars => Inv1'
  <2> SUFFICES ASSUME Inv1, [Next]_vars PROVE Inv1'
    OBVIOUS
  <2> USE DEF Inv1, TypeOK
  <2>1. CASE Start
    <3>1. FlagsOK'
      BY <2>1 DEF Start, FlagsOK
    <3>2. WorkerOK' /\ Retriable' /\ Launched'
      BY <2>1 DEF Start, WorkerOK, Retriable, Answers, Launched, flags
    <3>3. CallersOK' /\ QueueOK' /\ RecordsOK' /\ CountsOK'
      BY <2>1 DEF Start, callers, outside, CallersOK, QueueOK, RecordsOK, CountsOK
    <3>4. QED
      BY <3>1, <3>2, <3>3
  <2>2. CASE CancelContext
    <3>1. FlagsOK'
      BY <2>2 DEF CancelContext, FlagsOK
    <3>2. CallersOK' /\ QueueOK' /\ WorkerOK' /\ RecordsOK' /\ CountsOK' /\ Retriable' /\ Launched'
      BY <2>2 DEF CancelContext, callers, worker, outside, CallersOK, QueueOK, WorkerOK, RecordsOK, CountsOK, Retriable, Launched, flags
    <3>3. QED
      BY <3>1, <3>2
  <2>3. ASSUME NEW e \in Events, EnqueueClosed(e) PROVE Inv1'
    <3>1. CallersOK'
      BY <2>3 DEF EnqueueClosed, Record, CallersOK
    <3>2. RecordsOK'
      BY <2>3, RecordTyped DEF EnqueueClosed, outside, RecordsOK, Records
    <3>3. FlagsOK' /\ QueueOK' /\ WorkerOK' /\ CountsOK' /\ Retriable' /\ Launched'
      BY <2>3 DEF EnqueueClosed, Record, flags, worker, outside, FlagsOK, QueueOK, WorkerOK, CountsOK, Retriable, Launched
    <3>4. QED
      BY <3>1, <3>2, <3>3
  <2>4. ASSUME NEW p \in Producers, NEW e \in Events, EnqueueOpen(p, e) PROVE Inv1'
    <3>1. CallersOK'
      BY <2>4 DEF EnqueueOpen, CallersOK
    <3>2. FlagsOK' /\ QueueOK' /\ WorkerOK' /\ RecordsOK' /\ CountsOK' /\ Retriable' /\ Launched'
      BY <2>4 DEF EnqueueOpen, flags, worker, outside, FlagsOK, QueueOK, WorkerOK, RecordsOK, CountsOK, Retriable, Launched
    <3>3. QED
      BY <3>1, <3>2
  <2>5. ASSUME NEW p \in Producers, EnqueueSend(p) PROVE Inv1'
    <3>1. FlagsOK'
      BY <2>5 DEF EnqueueSend, Record, FlagsOK
    <3>2. CallersOK'
      BY <2>5 DEF EnqueueSend, Record, CallersOK
    <3>3. QueueOK'
      BY <2>5 DEF EnqueueSend, HasRoom, Record, QueueOK, CallersOK
    <3>4. RecordsOK'
      BY <2>5, RecordTyped DEF EnqueueSend, outside, CallersOK, RecordsOK, Records
    <3>5. WorkerOK' /\ CountsOK' /\ Retriable' /\ Launched'
      BY <2>5 DEF EnqueueSend, Record, worker, outside, WorkerOK, CountsOK, Retriable, Launched, flags
    <3>6. QED
      BY <3>1, <3>2, <3>3, <3>4, <3>5
  <2>6. ASSUME NEW c \in Closers, CloseBegin(c) \/ CloseChan(c) \/ CloseReturn(c) PROVE Inv1'
    <3>1. FlagsOK'
      BY <2>6 DEF CloseBegin, CloseChan, CloseReturn, FlagsOK, flags
    <3>2. CallersOK'
      BY <2>6 DEF CloseBegin, CloseChan, CloseReturn, CallersOK
    <3>3. QueueOK' /\ WorkerOK' /\ RecordsOK' /\ CountsOK' /\ Retriable' /\ Launched'
      BY <2>6 DEF CloseBegin, CloseChan, CloseReturn, flags, worker, outside, QueueOK, WorkerOK, RecordsOK, CountsOK, Retriable, Launched
    <3>4. QED
      BY <3>1, <3>2, <3>3
  <2>7. CASE Receive
    <3>1. QueueOK'
      BY <2>7 DEF Receive, QueueOK, CallersOK
    <3>2. WorkerOK' /\ Retriable' /\ Launched'
      BY <2>7 DEF Receive, WorkerOK, Retriable, Answers, QueueOK, Launched, flags
    <3>3. FlagsOK' /\ CallersOK' /\ RecordsOK' /\ CountsOK'
      BY <2>7 DEF Receive, flags, callers, outside, FlagsOK, CallersOK, RecordsOK, CountsOK
    <3>4. QED
      BY <3>1, <3>2, <3>3
  <2>8. CASE Exit
    <3>1. WorkerOK' /\ Retriable' /\ Launched'
      BY <2>8 DEF Exit, WorkerOK, Retriable, Answers, Launched, flags
    <3>2. FlagsOK' /\ CallersOK' /\ QueueOK' /\ RecordsOK' /\ CountsOK'
      BY <2>8 DEF Exit, flags, callers, outside, FlagsOK, CallersOK, QueueOK, RecordsOK, CountsOK
    <3>3. QED
      BY <3>1, <3>2
  <2>9. CASE CheckTTL
    <3>1. WorkerOK' /\ Retriable'
      BY <2>9 DEF CheckTTL, Conclude, Record, Done, WorkerOK, Retriable, Answers
    <3>0. Launched'
      BY <2>9 DEF CheckTTL, Conclude, NextAttempt, Done, Launched, flags
    <3>2. RecordsOK'
      BY <2>9, RecordTyped DEF CheckTTL, Conclude, outside, WorkerOK, RecordsOK, Records
    <3>3. FlagsOK' /\ CallersOK' /\ QueueOK' /\ CountsOK'
      BY <2>9 DEF CheckTTL, Conclude, Record, Done, flags, callers, outside, FlagsOK, CallersOK, QueueOK, CountsOK
    <3>4. QED
      BY <3>0, <3>1, <3>2, <3>3
  <2>10. CASE Post
    <3>1. WorkerOK' /\ Retriable'
      BY <2>10 DEF Post, NextAttempt, WorkerOK, Retriable, Answers
    <3>0. Launched'
      BY <2>10 DEF Post, Conclude, NextAttempt, Done, Launched, flags
    <3>2. RecordsOK'
      BY <2>10, ResultTyped DEF Post, NextAttempt, outside, WorkerOK, RecordsOK, Results
    <3>3. FlagsOK' /\ CallersOK' /\ QueueOK' /\ CountsOK'
      BY <2>10 DEF Post, NextAttempt, flags, callers, outside, FlagsOK, CallersOK, QueueOK, CountsOK
    <3>4. QED
      BY <3>0, <3>1, <3>2, <3>3
  <2>11. CASE RequestError
    <3>1. WorkerOK' /\ Retriable'
      BY <2>11 DEF RequestError, NextAttempt, WorkerOK, Retriable, Answers
    <3>0. Launched'
      BY <2>11 DEF RequestError, Conclude, NextAttempt, Done, Launched, flags
    <3>2. RecordsOK'
      BY <2>11, ResultTyped DEF RequestError, NextAttempt, WorkerOK, RecordsOK, Results
    <3>3. CountsOK'
      BY <2>11 DEF RequestError, NextAttempt, CountsOK, WorkerOK
    <3>4. FlagsOK' /\ CallersOK' /\ QueueOK'
      BY <2>11 DEF RequestError, NextAttempt, flags, callers, FlagsOK, CallersOK, QueueOK
    <3>5. QED
      BY <3>0, <3>1, <3>2, <3>3, <3>4
  <2>12. CASE Respond
    <3>1. WorkerOK' /\ Retriable'
      BY <2>12 DEF Respond, Conclude, Record, Done, NextAttempt, WorkerOK, Retriable, Answers
    <3>0. Launched'
      <4>1. wpc = "inflight" /\ (\/ Conclude("success") \/ Conclude("failure") \/ NextAttempt(req))
        BY <2>12 DEF Respond
      <4>2. started' = started
        BY <4>1 DEF Conclude, NextAttempt, Done, flags
      <4>3. QED
        BY <4>1, <4>2 DEF Launched
    <3>2. RecordsOK'
      BY <2>12, RecordTyped, ResultTyped DEF Respond, Conclude, NextAttempt, WorkerOK, RecordsOK, Records, Results, Answers
    <3>3. FlagsOK' /\ CallersOK' /\ QueueOK' /\ CountsOK'
      BY <2>12 DEF Respond, Conclude, Record, Done, NextAttempt, flags, callers, FlagsOK, CallersOK, QueueOK, CountsOK
    <3>4. QED
      BY <3>0, <3>1, <3>2, <3>3
  <2>13. CASE Loop
    <3>1. WorkerOK' /\ Retriable'
      BY <2>13 DEF Loop, Conclude, Record, Done, WorkerOK, Retriable, Answers, Least, AttemptsLeft, CountsOK
    <3>0. Launched'
      BY <2>13 DEF Loop, Conclude, NextAttempt, Done, Launched, flags
    <3>2. RecordsOK'
      BY <2>13, RecordTyped DEF Loop, Conclude, outside, WorkerOK, RecordsOK, Records
    <3>3. FlagsOK' /\ CallersOK' /\ QueueOK' /\ CountsOK'
      BY <2>13 DEF Loop, Conclude, Record, Done, flags, callers, outside, FlagsOK, CallersOK, QueueOK, CountsOK
    <3>4. QED
      BY <3>0, <3>1, <3>2, <3>3
  <2>14. CASE Wake
    <3>1. WorkerOK' /\ Retriable'
      BY <2>14 DEF Wake, Conclude, Record, Done, WorkerOK, Retriable, Answers
    <3>0. Launched'
      BY <2>14 DEF Wake, Conclude, NextAttempt, Done, Launched, flags
    <3>2. RecordsOK'
      BY <2>14, RecordTyped DEF Wake, Conclude, outside, WorkerOK, RecordsOK, Records
    <3>3. FlagsOK' /\ CallersOK' /\ QueueOK' /\ CountsOK'
      BY <2>14 DEF Wake, Conclude, Record, Done, flags, callers, outside, FlagsOK, CallersOK, QueueOK, CountsOK
    <3>4. QED
      BY <3>0, <3>1, <3>2, <3>3
  <2>15. CASE CancelWait
    <3>1. WorkerOK' /\ Retriable' /\ Launched'
      BY <2>15 DEF CancelWait, Done, WorkerOK, Retriable, Answers, Launched, flags
    <3>2. FlagsOK' /\ CallersOK' /\ QueueOK' /\ RecordsOK' /\ CountsOK'
      BY <2>15 DEF CancelWait, Done, flags, callers, outside, FlagsOK, CallersOK, QueueOK, RecordsOK, CountsOK
    <3>3. QED
      BY <3>1, <3>2
  <2>16. CASE HAAnswers
    <3>1. WorkerOK' /\ Retriable' /\ Launched'
      BY <2>16 DEF HAAnswers, WorkerOK, Retriable, Answers, Launched, flags
    <3>2. CountsOK'
      BY <2>16 DEF HAAnswers, CountsOK, WorkerOK
    <3>3. FlagsOK' /\ CallersOK' /\ QueueOK' /\ RecordsOK'
      BY <2>16 DEF HAAnswers, flags, callers, FlagsOK, CallersOK, QueueOK, RecordsOK
    <3>4. QED
      BY <3>1, <3>2, <3>3
  <2>17. ASSUME NEW e \in Events, HALate(e) PROVE Inv1'
    <3>1. CountsOK'
      BY <2>17 DEF HALate, CountsOK, WorkerOK
    <3>2. FlagsOK' /\ CallersOK' /\ QueueOK' /\ WorkerOK' /\ RecordsOK' /\ Retriable' /\ Launched'
      BY <2>17 DEF HALate, flags, callers, worker, FlagsOK, CallersOK, QueueOK, WorkerOK, RecordsOK, Retriable, Launched
    <3>3. QED
      BY <3>1, <3>2
  <2>18. CASE Tick
    <3>1. WorkerOK' /\ Retriable' /\ Launched'
      BY <2>18 DEF Tick, WorkerOK, Retriable, Answers, Launched, flags
    <3>2. CountsOK'
      <4>1. ASSUME NEW e \in Events
            PROVE  (IF e \in offered /\ age[e] <= TTL THEN age[e] + 1 ELSE age[e]) \in 0..(TTL + 1)
        BY DEF CountsOK
      <4>2. age' \in [Events -> 0..(TTL + 1)]
        BY <2>18, <4>1 DEF Tick
      <4>3. QED
        BY <2>18, <4>2 DEF Tick, CountsOK, outside
    <3>3. FlagsOK' /\ CallersOK' /\ QueueOK' /\ RecordsOK'
      BY <2>18 DEF Tick, flags, callers, outside, FlagsOK, CallersOK, QueueOK, RecordsOK
    <3>4. QED
      BY <3>1, <3>2, <3>3
  <2>19. CASE UNCHANGED vars
    BY <2>19 DEF vars, flags, callers, worker, outside, FlagsOK, CallersOK, QueueOK,
       WorkerOK, RecordsOK, CountsOK, Retriable, Launched
  <2>20. QED
    BY <2>1, <2>2, <2>3, <2>4, <2>5, <2>6, <2>7, <2>8, <2>9, <2>10, <2>11, <2>12,
       <2>13, <2>14, <2>15, <2>16, <2>17, <2>18, <2>19 DEF Next, WorkerStep
<1>3. QED
  BY <1>1, <1>2, PTL DEF Spec

\* The variables of client.go keep their types, the queue never exceeds BufferSize
\* and the loop of dispatch never counts past MaxRetries + 1.
THEOREM TypeCorrect == Spec => []TypeOK
<1>1. Inv1 => TypeOK
  BY DEF Inv1
<1>2. QED
  BY Typed, <1>1, PTL

-----------------------------------------------------------------------------
(* Enqueue against Close.                                                  *)

\* Close sets the flag before it closes the channel, and with no reader inside.
Inv2 == /\ NoSendOnClosed
        /\ closed => ~ReadLocked
        /\ chanClosed => closed
        /\ WriteLocked => closed

\* The inductive invariant behind NoPanic.
LEMMA LockedOut == Spec => []Inv2
<1>1. Init => Inv2
  BY DEF Init, Inv2, NoSendOnClosed, ReadLocked, WriteLocked
<1>2. Inv1 /\ Inv2 /\ [Next]_vars => Inv2'
  <2> SUFFICES ASSUME Inv1, Inv2, [Next]_vars PROVE Inv2'
    OBVIOUS
  <2> USE DEF Inv1, TypeOK, CallersOK, Inv2, NoSendOnClosed, ReadLocked, WriteLocked
  <2>1. ASSUME UNCHANGED <<closed, chanClosed, panicked, sending, closing>> PROVE Inv2'
    BY <2>1
  <2>2. CASE Start \/ CancelContext \/ HAAnswers \/ Tick \/ UNCHANGED vars
    BY <2>1, <2>2 DEF Start, CancelContext, HAAnswers, Tick, flags, callers, vars
  <2>3. ASSUME NEW e \in Events, EnqueueClosed(e) \/ HALate(e) PROVE Inv2'
    BY <2>1, <2>3 DEF EnqueueClosed, HALate, flags, callers
  <2>4. ASSUME NEW p \in Producers, NEW e \in Events, EnqueueOpen(p, e) PROVE Inv2'
    BY <2>4 DEF EnqueueOpen, flags
  <2>5. ASSUME NEW p \in Producers, EnqueueSend(p) PROVE Inv2'
    BY <2>5 DEF EnqueueSend
  <2>6. ASSUME NEW c \in Closers, CloseBegin(c) PROVE Inv2'
    BY <2>6 DEF CloseBegin
  <2>7. ASSUME NEW c \in Closers, CloseChan(c) PROVE Inv2'
    BY <2>7 DEF CloseChan
  <2>8. ASSUME NEW c \in Closers, CloseReturn(c) PROVE Inv2'
    BY <2>8 DEF CloseReturn, flags
  <2>9. CASE WorkerStep
    <3>1. UNCHANGED <<flags, callers>>
      BY <2>9 DEF WorkerStep, Receive, Exit, CheckTTL, Post, RequestError, Respond, Loop,
                  Wake, CancelWait, Conclude, Done, NextAttempt
    <3>2. QED
      BY <2>1, <3>1 DEF flags, callers
  <2>10. QED
    BY <2>2, <2>3, <2>4, <2>5, <2>6, <2>7, <2>8, <2>9 DEF Next
<1>3. QED
  BY Typed, <1>1, <1>2, PTL DEF Spec

\* No interleaving of Start, Enqueue and Close makes Enqueue send on the closed
\* channel, however many goroutines call them.
THEOREM NoPanic == Spec => []NoSendOnClosed
<1>1. Inv2 => NoSendOnClosed
  BY DEF Inv2
<1>2. QED
  BY LockedOut, <1>1, PTL

-----------------------------------------------------------------------------
(* Staleness.                                                              *)

\* Whatever the timing of answers, timeouts and backoffs, no attempt begins with an
\* event older than the TTL.
THEOREM OnlyFreshPosts == Spec => []FreshPost
<1>1. Init => FreshPost
  BY DEF Init, FreshPost
<1>2. Inv1 /\ FreshPost /\ [Next]_vars => FreshPost'
  <2> SUFFICES ASSUME Inv1, FreshPost, [Next]_vars PROVE FreshPost'
    OBVIOUS
  <2> USE DEF FreshPost
  <2>1. ASSUME wpc' # "post" PROVE FreshPost'
    BY <2>1
  <2>2. ASSUME UNCHANGED <<wpc, ev, age>> PROVE FreshPost'
    BY <2>2
  <2>3. CASE CheckTTL \/ Wake
    <3>1. CASE Conclude("expired")
      BY <2>1, <3>1 DEF Conclude, Done
    <3>2. CASE ~Stale /\ UNCHANGED <<ev, age>> /\ wpc \in {"dispatch", "wait"}
      <4>1. age[ev] \in Nat /\ TTL \in Nat
        BY <3>2, ConfigAssumption DEF ConfigAssumption, Validate, Inv1, TypeOK, WorkerOK, CountsOK
      <4>2. QED
        BY <3>2, <4>1 DEF Stale
    <3>3. QED
      BY <2>3, <3>1, <3>2 DEF CheckTTL, Wake
  <2>4. CASE Start \/ Receive \/ Exit \/ RequestError \/ Respond \/ Loop \/ CancelWait
    BY <2>1, <2>4 DEF Start, Receive, Exit, RequestError, Respond, Loop, CancelWait,
                      Conclude, Done, NextAttempt
  <2>5. CASE Post
    BY <2>1, <2>5 DEF Post, NextAttempt
  <2>6. CASE Tick
    BY <2>1, <2>6 DEF Tick
  <2>7. CASE CancelContext \/ HAAnswers \/ UNCHANGED vars
    BY <2>2, <2>7 DEF CancelContext, HAAnswers, vars, worker
  <2>8. ASSUME NEW e \in Events, EnqueueClosed(e) \/ HALate(e) PROVE FreshPost'
    BY <2>2, <2>8 DEF EnqueueClosed, HALate, worker
  <2>9. ASSUME NEW p \in Producers, EnqueueSend(p) \/ \E e \in Events : EnqueueOpen(p, e)
        PROVE  FreshPost'
    BY <2>2, <2>9 DEF EnqueueSend, EnqueueOpen, worker
  <2>10. ASSUME NEW c \in Closers, CloseBegin(c) \/ CloseChan(c) \/ CloseReturn(c)
         PROVE  FreshPost'
    BY <2>2, <2>10 DEF CloseBegin, CloseChan, CloseReturn, worker
  <2>11. QED
    BY <2>3, <2>4, <2>5, <2>6, <2>7, <2>8, <2>9, <2>10 DEF Next, WorkerStep
<1>3. QED
  BY Typed, <1>1, <1>2, PTL DEF Spec

-----------------------------------------------------------------------------
(* One telemetry record per event.                                         *)

\* An event is in at most one place of the pipeline: at one position of the queue,
\* in the hands of the worker, or in those of one producer.
Places == /\ \A e \in Events : InPipe(e) => e \in offered
          /\ \A e \in Events : log[e] # <<>> => e \in offered
          /\ \A i, j \in 1..Len(queue) : queue[i] = queue[j] => i = j
          /\ \A i \in 1..Len(queue) : queue[i] # ev
          /\ \A i \in 1..Len(queue), p \in Producers : queue[i] # sending[p]
          /\ \A p, q \in Producers : sending[p] = sending[q] /\ sending[p] # NoEvent => p = q
          /\ \A p \in Producers : sending[p] # NoEvent => sending[p] # ev

Inv3 == OneRecord /\ Places

pipe == <<queue, ev, sending, log, offered>>

\* A step that moves no event keeps the invariant.
LEMMA Quiet ==
  ASSUME Inv3, UNCHANGED pipe, ctxDone => ctxDone'
  PROVE  Inv3'
BY DEF Inv3, OneRecord, Places, InPipe, InQueue, pipe

\* Receive takes the head of the queue, and the event stays in the pipeline.
LEMMA ReceiveKeeps ==
  ASSUME Inv1, Receive
  PROVE  /\ queue # <<>> /\ ev = NoEvent /\ ev' = queue[1] /\ ev' \in Events
         /\ Len(queue) \in Nat /\ Len(queue) > 0 /\ Len(queue') = Len(queue) - 1
         /\ \A i \in 1..Len(queue') : queue'[i] = queue[i + 1]
         /\ \A f \in Events : InPipe(f)' <=> InPipe(f)
<1>1. /\ queue # <<>> /\ ev = NoEvent /\ ev' = queue[1] /\ ev' \in Events
      /\ Len(queue') = Len(queue) - 1
      /\ \A i \in 1..Len(queue') : queue'[i] = queue[i + 1]
  BY HeadTailProperties DEF Receive, Inv1, TypeOK, QueueOK, WorkerOK
<1>2. Len(queue) \in Nat /\ Len(queue) > 0
  BY <1>1 DEF Inv1, TypeOK, QueueOK
<1>3. UNCHANGED sending
  BY DEF Receive, callers
<1>4. \A f \in Events : InQueue(f) <=> (f = queue[1] \/ InQueue(f)')
  <2> SUFFICES ASSUME NEW f \in Events
               PROVE  InQueue(f) <=> (f = queue[1] \/ InQueue(f)')
    OBVIOUS
  <2>1. ASSUME NEW i \in 1..Len(queue), queue[i] = f, i # 1 PROVE InQueue(f)'
    <3>1. i - 1 \in 1..Len(queue') /\ queue'[i - 1] = f
      BY <1>1, <1>2, <2>1
    <3>2. QED
      BY <3>1 DEF InQueue
  <2>2. InQueue(f) => f = queue[1] \/ InQueue(f)'
    BY <2>1 DEF InQueue
  <2>3. f = queue[1] => InQueue(f)
    BY <1>2 DEF InQueue
  <2>4. ASSUME NEW i \in 1..Len(queue'), queue'[i] = f PROVE InQueue(f)
    <3>1. i + 1 \in 1..Len(queue) /\ queue[i + 1] = f
      BY <1>1, <1>2, <2>4
    <3>2. QED
      BY <3>1 DEF InQueue
  <2>5. InQueue(f)' => InQueue(f)
    BY <2>4 DEF InQueue
  <2>6. QED
    BY <2>2, <2>3, <2>5
<1>5. \A f \in Events : InPipe(f)' <=> InPipe(f)
  BY <1>1, <1>3, <1>4, ConfigAssumption DEF InPipe, ConfigAssumption
<1>6. QED
  BY <1>1, <1>2, <1>5

\* A producer's event moves to the end of the queue.
LEMMA SendKeeps ==
  ASSUME Inv1, NEW p \in Producers, sending[p] \in Events,
         sending' = [sending EXCEPT ![p] = NoEvent],
         queue' = Append(queue, sending[p]), UNCHANGED ev
  PROVE  /\ Len(queue) \in Nat /\ Len(queue') = Len(queue) + 1
         /\ queue'[Len(queue) + 1] = sending[p]
         /\ \A i \in 1..Len(queue) : queue'[i] = queue[i]
         /\ \A f \in Events : InPipe(f)' <=> InPipe(f)
<1>1. /\ Len(queue) \in Nat /\ Len(queue') = Len(queue) + 1
      /\ queue'[Len(queue) + 1] = sending[p]
      /\ \A i \in 1..Len(queue) : queue'[i] = queue[i]
  BY AppendProperties DEF Inv1, TypeOK, QueueOK
<1>2. \A f \in Events : InQueue(f)' <=> InQueue(f) \/ f = sending[p]
  BY <1>1 DEF InQueue
<1>3. sending'[p] = NoEvent /\ \A q \in Producers \ {p} : sending'[q] = sending[q]
  BY DEF Inv1, TypeOK, CallersOK
<1>4. \A f \in Events : InPipe(f)' <=> InPipe(f)
  BY <1>2, <1>3, ConfigAssumption DEF InPipe, ConfigAssumption
<1>5. QED
  BY <1>1, <1>4

\* A producer's event is refused, and leaves the pipeline.
LEMMA SendDrops ==
  ASSUME Inv1, Inv3, NEW p \in Producers, sending[p] \in Events,
         sending' = [sending EXCEPT ![p] = NoEvent], UNCHANGED <<queue, ev>>
  PROVE  \A f \in Events : InPipe(f)' <=> InPipe(f) /\ f # sending[p]
<1>1. sending[p] # NoEvent
  BY ConfigAssumption DEF ConfigAssumption
<1>2. sending'[p] = NoEvent /\ \A q \in Producers \ {p} : sending'[q] = sending[q]
  BY DEF Inv1, TypeOK, CallersOK
<1>3. /\ sending[p] # ev
      /\ \A i \in 1..Len(queue) : queue[i] # sending[p]
      /\ \A q \in Producers \ {p} : sending[q] # sending[p]
  BY <1>1 DEF Inv3, Places
<1>4. QED
  BY <1>2, <1>3, ConfigAssumption DEF InPipe, InQueue, ConfigAssumption

\* The worker lets go of its event.
LEMMA DoneDrops ==
  ASSUME Inv1, Inv3, ev \in Events, Done
  PROVE  \A f \in Events : InPipe(f)' <=> InPipe(f) /\ f # ev
<1>1. UNCHANGED <<queue, sending>> /\ ev' = NoEvent
  BY DEF Done, callers
<1>2. QED
  BY <1>1, ConfigAssumption DEF Inv3, Places, InPipe, InQueue, ConfigAssumption

\* Recording the first outcome of an event.
LEMMA FirstRecord ==
  ASSUME Inv1, NEW e \in Events, log[e] = <<>>, NEW r \in Records, Record(e, r)
  PROVE  /\ Len(log'[e]) = 1
         /\ \A f \in Events \ {e} : log'[f] = log[f]
<1>1. Append(<<>>, r) = <<r>>
  OBVIOUS
<1>2. QED
  BY <1>1 DEF Record, Inv1, TypeOK, RecordsOK

\* The event in the worker's hands leaves the pipeline.
LEMMA LeavesWorker ==
  ASSUME Inv1, Inv3, ev \in Events, Done,
         \/ \E r \in Records : Record(ev, r)
         \/ UNCHANGED log /\ ctxDone
  PROVE  Inv3'
<1> USE ConfigAssumption DEF ConfigAssumption, Validate
<1>1. /\ UNCHANGED <<queue, sending, offered, ctxDone>>
      /\ ev' = NoEvent
  BY DEF Done, flags, callers
<1>2. log[ev] = <<>> /\ ev \in offered
  BY DEF Inv3, OneRecord, Places, InPipe
<1>3. \A f \in Events : InPipe(f)' <=> InPipe(f) /\ f # ev
  BY DoneDrops
<1>4. \A f \in Events \ {ev} : log'[f] = log[f]
  BY <1>2, FirstRecord
<1>5. Len(log'[ev]) <= 1 /\ (ctxDone \/ Len(log'[ev]) = 1)
  <2>1. CASE \E r \in Records : Record(ev, r)
    <3>1. PICK r \in Records : Record(ev, r)
      BY <2>1
    <3>2. Len(log'[ev]) = 1
      BY <3>1, <1>2, FirstRecord
    <3>3. QED
      BY <3>2
  <2>2. CASE UNCHANGED log /\ ctxDone
    BY <2>2, <1>2
  <2>3. QED
    BY <2>1, <2>2
<1>6. OneRecord'
  BY <1>1, <1>2, <1>3, <1>4, <1>5 DEF Inv3, OneRecord
<1>7. Places'
  <2>1. \A f \in Events : InPipe(f)' => f \in offered'
    BY <1>1, <1>3 DEF Inv3, Places
  <2>2. \A f \in Events : log'[f] # <<>> => f \in offered'
    BY <1>1, <1>2, <1>4 DEF Inv3, Places
  <2>3. \A i \in 1..Len(queue) : queue[i] # NoEvent
    BY DEF Inv1, TypeOK, QueueOK
  <2>4. QED
    BY <1>1, <2>1, <2>2, <2>3 DEF Inv3, Places
<1>8. QED
  BY <1>6, <1>7 DEF Inv3

\* The inductive invariant behind OneRecordEach.
LEMMA InOnePlace == Spec => []Inv3
<1> USE ConfigAssumption DEF ConfigAssumption, Validate
<1>1. Init => Inv3
  BY DEF Init, Inv3, OneRecord, Places, InPipe, InQueue
<1>2. Inv1 /\ Inv2 /\ Inv3 /\ [Next]_vars => Inv3'
  <2> SUFFICES ASSUME Inv1, Inv2, Inv3, [Next]_vars PROVE Inv3'
    OBVIOUS
  <2>1. CASE Start \/ CancelContext \/ Exit \/ HAAnswers \/ Tick \/ UNCHANGED vars
    <3>1. UNCHANGED pipe /\ (ctxDone => ctxDone')
      BY <2>1 DEF Start, CancelContext, Exit, HAAnswers, Tick, vars, flags, callers, worker, pipe
    <3>2. QED
      BY <3>1, Quiet
  <2>2. ASSUME NEW c \in Closers, CloseBegin(c) \/ CloseChan(c) \/ CloseReturn(c) PROVE Inv3'
    <3>1. UNCHANGED pipe
      BY <2>2 DEF CloseBegin, CloseChan, CloseReturn, worker, pipe
    <3>2. ctxDone => ctxDone'
      <4>1. CASE CloseBegin(c)
        BY <4>1, Zenon DEF CloseBegin
      <4>2. CASE CloseChan(c) \/ CloseReturn(c)
        BY <4>2 DEF CloseChan, CloseReturn, flags
      <4>3. QED
        BY <2>2, <4>1, <4>2
    <3>3. QED
      BY <3>1, <3>2, Quiet
  <2>3. ASSUME NEW e \in Events, HALate(e) PROVE Inv3'
    <3>1. UNCHANGED pipe /\ (ctxDone => ctxDone')
      BY <2>3 DEF HALate, flags, callers, worker, pipe
    <3>2. QED
      BY <3>1, Quiet
  <2>4. ASSUME UNCHANGED <<flags, callers, queue, ev, log>> PROVE Inv3'
    <3>1. UNCHANGED pipe /\ (ctxDone => ctxDone')
      BY <2>4 DEF flags, callers, pipe
    <3>2. QED
      BY <3>1, Quiet
  <2>5. ASSUME NEW r \in Records, wpc \notin {"off", "select", "done"}, Conclude(r)
        PROVE  Inv3'
    BY <2>5, LeavesWorker DEF Conclude, Inv1, TypeOK, WorkerOK
  <2>6. CASE CheckTTL
    BY <2>4, <2>5, <2>6 DEF CheckTTL, Records
  <2>7. CASE Post
    BY <2>4, <2>7 DEF Post, NextAttempt
  <2>8. CASE RequestError
    BY <2>4, <2>8 DEF RequestError, NextAttempt
  <2>9. CASE Respond
    BY <2>4, <2>5, <2>9 DEF Respond, NextAttempt, Records
  <2>10. CASE Loop
    BY <2>4, <2>5, <2>10 DEF Loop, Records
  <2>11. CASE Wake
    BY <2>4, <2>5, <2>11 DEF Wake, Records
  <2>12. CASE CancelWait
    BY <2>12, LeavesWorker DEF CancelWait, Inv1, TypeOK, WorkerOK
  <2>13. CASE Receive
    <3>1. /\ queue # <<>> /\ ev = NoEvent /\ ev' = queue[1]
          /\ Len(queue') = Len(queue) - 1
          /\ \A i \in 1..Len(queue') : queue'[i] = queue[i + 1]
      BY <2>13, ReceiveKeeps
    <3>2. UNCHANGED <<sending, offered, log, ctxDone>>
      BY <2>13 DEF Receive, callers, flags
    <3>3. Len(queue) \in Nat /\ Len(queue) > 0
      BY <2>13, ReceiveKeeps
    <3>4. \A f \in Events : InPipe(f)' <=> InPipe(f)
      BY <2>13, ReceiveKeeps
    <3>5. OneRecord'
      BY <3>2, <3>4 DEF Inv3, OneRecord
    <3>6. Places'
      <4>1. \A i, j \in 1..Len(queue') : queue'[i] = queue'[j] => i = j
        BY <3>1, <3>3 DEF Inv3, Places
      <4>2. \A i \in 1..Len(queue') : queue'[i] # ev'
        BY <3>1, <3>3 DEF Inv3, Places
      <4>3. QED
        BY <3>1, <3>2, <3>3, <3>4, <4>1, <4>2 DEF Inv3, Places
    <3>7. QED
      BY <3>5, <3>6 DEF Inv3
  <2>14. ASSUME NEW e \in Events, EnqueueClosed(e) PROVE Inv3'
    <3>1. e \notin offered /\ log[e] = <<>> /\ ~InPipe(e)
      BY <2>14 DEF EnqueueClosed, Inv3, Places
    <3>2. /\ UNCHANGED <<queue, ev, sending, ctxDone>>
          /\ offered' = offered \cup {e}
          /\ Record(e, "overflow")
      BY <2>14 DEF EnqueueClosed, flags, worker
    <3>3. Len(log'[e]) = 1 /\ \A f \in Events \ {e} : log'[f] = log[f]
      BY <3>1, <3>2, FirstRecord DEF Records
    <3>4. \A f \in Events : InPipe(f)' <=> InPipe(f)
      BY <3>2 DEF InPipe, InQueue
    <3>5. OneRecord'
      <4> SUFFICES ASSUME NEW f \in Events
                   PROVE  /\ Len(log[f])' <= 1
                          /\ InPipe(f)' => log'[f] = <<>>
                          /\ f \in offered' /\ ~InPipe(f)' /\ ~ctxDone' => Len(log[f])' = 1
        BY DEF OneRecord
      <4>1. CASE f = e
        BY <4>1, <3>1, <3>3, <3>4
      <4>2. CASE f # e
        BY <4>2, <3>2, <3>3, <3>4 DEF Inv3, OneRecord
      <4>3. QED
        BY <4>1, <4>2
    <3>6. Places'
      BY <3>2, <3>3, <3>4 DEF Inv3, Places
    <3>7. QED
      BY <3>5, <3>6 DEF Inv3
  <2>15. ASSUME NEW p \in Producers, NEW e \in Events, EnqueueOpen(p, e) PROVE Inv3'
    <3>1. e \notin offered /\ log[e] = <<>> /\ ~InPipe(e)
      BY <2>15 DEF EnqueueOpen, Inv3, Places
    <3>2. /\ UNCHANGED <<queue, ev, log, ctxDone>>
          /\ offered' = offered \cup {e}
          /\ sending' = [sending EXCEPT ![p] = e]
          /\ sending[p] = NoEvent
      BY <2>15 DEF EnqueueOpen, flags, worker
    <3>3. /\ sending'[p] = e
          /\ \A q \in Producers \ {p} : sending'[q] = sending[q]
      BY <3>2 DEF Inv1, TypeOK, CallersOK
    <3>4. \A f \in Events : InPipe(f)' <=> InPipe(f) \/ f = e
      BY <3>2, <3>3 DEF InPipe, InQueue
    <3>5. OneRecord'
      BY <3>1, <3>2, <3>4 DEF Inv3, OneRecord
    <3>6. Places'
      <4>1. \A i \in 1..Len(queue) : queue[i] # e
        BY <3>1 DEF InPipe, InQueue
      <4>2. ev # e /\ \A q \in Producers : sending[q] # e
        BY <3>1 DEF InPipe
      <4>3. QED
        BY <3>2, <3>3, <3>4, <4>1, <4>2 DEF Inv3, Places
    <3>7. QED
      BY <3>5, <3>6 DEF Inv3
  <2>16. ASSUME NEW p \in Producers, EnqueueSend(p) PROVE Inv3'
    <3> DEFINE e == sending[p]
    <3>1. e \in Events /\ InPipe(e) /\ e \in offered /\ log[e] = <<>>
      BY <2>16 DEF EnqueueSend, Inv1, TypeOK, CallersOK, InPipe, Inv3, OneRecord, Places
    <3>2. UNCHANGED <<ev, offered, ctxDone>>
      BY <2>16 DEF EnqueueSend, worker
    <3>3. /\ sending'[p] = NoEvent
          /\ \A q \in Producers \ {p} : sending'[q] = sending[q]
      BY <2>16 DEF EnqueueSend, Inv1, TypeOK, CallersOK
    <3>4. /\ e # ev
          /\ \A i \in 1..Len(queue) : queue[i] # e
          /\ \A q \in Producers \ {p} : sending[q] # e
      BY <2>16 DEF EnqueueSend, Inv3, Places
    <3>5. CASE queue' = Append(queue, e) /\ UNCHANGED log
      <4>1. /\ Len(queue') = Len(queue) + 1
            /\ queue'[Len(queue) + 1] = e
            /\ \A i \in 1..Len(queue) : queue'[i] = queue[i]
            /\ Len(queue) \in Nat
            /\ \A f \in Events : InPipe(f)' <=> InPipe(f)
        BY <2>16, <3>1, <3>2, <3>5, SendKeeps DEF EnqueueSend
      <4>2. Len(queue) \in Nat
        BY <4>1
      <4>3. \A f \in Events : InPipe(f)' <=> InPipe(f)
        BY <4>1
      <4>4. OneRecord'
        BY <3>2, <3>5, <4>3 DEF Inv3, OneRecord
      <4>5. Places'
        <5>1. \A i, j \in 1..Len(queue') : queue'[i] = queue'[j] => i = j
          BY <3>4, <4>1, <4>2 DEF Inv3, Places
        <5>2. \A i \in 1..Len(queue') : queue'[i] # ev'
          BY <3>2, <3>4, <4>1, <4>2 DEF Inv3, Places
        <5>3. \A i \in 1..Len(queue'), q \in Producers : queue'[i] # sending'[q]
          BY <3>1, <3>3, <3>4, <4>1, <4>2 DEF Inv3, Places, Inv1, TypeOK, QueueOK
        <5>4. QED
          BY <3>2, <3>3, <3>5, <4>3, <5>1, <5>2, <5>3 DEF Inv3, Places
      <4>6. QED
        BY <4>4, <4>5 DEF Inv3
    <3>6. CASE Record(e, "overflow") /\ UNCHANGED queue
      <4>1. Len(log'[e]) = 1 /\ \A f \in Events \ {e} : log'[f] = log[f]
        BY <3>1, <3>6, FirstRecord DEF Records
      <4>2. \A f \in Events : InPipe(f)' <=> InPipe(f) /\ f # e
        BY <2>16, <3>1, <3>2, <3>6, SendDrops DEF EnqueueSend
      <4>3. OneRecord'
        <5> SUFFICES ASSUME NEW f \in Events
                     PROVE  /\ Len(log[f])' <= 1
                            /\ InPipe(f)' => log'[f] = <<>>
                            /\ f \in offered' /\ ~InPipe(f)' /\ ~ctxDone' => Len(log[f])' = 1
          BY DEF OneRecord
        <5>1. CASE f = e
          BY <5>1, <4>1, <4>2
        <5>2. CASE f # e
          BY <5>2, <3>2, <4>1, <4>2 DEF Inv3, OneRecord
        <5>3. QED
          BY <5>1, <5>2
      <4>4. Places'
        <5>1. \A i \in 1..Len(queue) : queue[i] # NoEvent
          BY DEF Inv1, TypeOK, QueueOK
        <5>2. QED
          BY <3>1, <3>2, <3>3, <3>6, <4>1, <4>2, <5>1 DEF Inv3, Places
      <4>5. QED
        BY <4>3, <4>4 DEF Inv3
    <3>7. ~chanClosed
      BY <2>16 DEF EnqueueSend, Inv2, ReadLocked
    <3>8. QED
      BY <2>16, <3>5, <3>6, <3>7 DEF EnqueueSend
  <2>17. QED
    BY <2>1, <2>2, <2>3, <2>6, <2>7, <2>8, <2>9, <2>10, <2>11, <2>12, <2>13, <2>14,
       <2>15, <2>16 DEF Next, WorkerStep
<1>3. QED
  BY Typed, LockedOut, <1>1, <1>2, PTL DEF Spec

\* Every event offered to the client leaves exactly one telemetry record behind,
\* never two, and none can vanish without one while the worker's context is live.
THEOREM OneRecordEach == Spec => []OneRecord
<1>1. Inv3 => OneRecord
  BY DEF Inv3
<1>2. QED
  BY InOnePlace, <1>1, PTL

-----------------------------------------------------------------------------
(* Attempts, outcomes and deliveries.                                      *)

\* Nothing has been tried of an event that the worker has not yet received.
Untried == /\ \A e \in Events \ offered : tries[e] = <<>>
           /\ \A i \in 1..Len(queue) : tries[queue[i]] = <<>>
           /\ \A p \in Producers : sending[p] # NoEvent => tries[sending[p]] = <<>>
           /\ \A e \in Events : log[e] = <<"overflow">> => tries[e] = <<>>

\* The loop variable counts the attempts, and a request exists while one is made.
Counted == /\ attempt = IF ev = NoEvent THEN 0 ELSE Len(tries[ev])
           /\ req # "none" => wpc = "inflight"

\* The deliveries of an event are those of its attempts, the one under way included.
Delivered ==
  /\ \A e \in Events : delivered[e] + stray[e] <=
                        Len(tries[e]) + (IF e = ev /\ req \in Answers THEN 1 ELSE 0)
  /\ req = "ok" => delivered[ev] >= 1
  /\ \A e \in Events : log[e] = <<"success">> => delivered[e] >= 1

Inv4 == Untried /\ Counted /\ Delivered /\ OutcomeJustified

\* What appending the result of an attempt does to the history of attempts.
LEMMA Tried ==
  ASSUME Inv1, NEW e \in Events, NEW r \in Results,
         tries' = [tries EXCEPT ![e] = Append(@, r)]
  PROVE  /\ Len(tries[e]) \in Nat
         /\ Len(tries'[e]) = Len(tries[e]) + 1
         /\ tries'[e][Len(tries[e]) + 1] = r
         /\ \A i \in 1..Len(tries[e]) : tries'[e][i] = tries[e][i]
         /\ \A f \in Events \ {e} : tries'[f] = tries[f]
<1>1. tries[e] \in Seq(Results) /\ tries'[e] = Append(tries[e], r)
  BY DEF Inv1, TypeOK, RecordsOK
<1>2. QED
  BY <1>1, AppendProperties DEF Inv1, TypeOK, RecordsOK

\* What recording the outcome of an event in the pipeline does to the log.
LEMMA Recorded ==
  ASSUME Inv1, NEW e \in Events, log[e] = <<>>, NEW r \in Records, Record(e, r)
  PROVE  log' = [log EXCEPT ![e] = <<r>>] /\ log'[e] = <<r>>
<1>1. Append(<<>>, r) = <<r>>
  OBVIOUS
<1>2. QED
  BY <1>1 DEF Record, Inv1, TypeOK, RecordsOK

\* A step that makes no attempt, records nothing and delivers nothing.
LEMMA NoAttempt ==
  ASSUME Inv1, Inv4, UNCHANGED <<tries, log, ev, attempt, req, delivered, stray>>,
         wpc' = wpc \/ wpc # "inflight",
         offered \subseteq offered',
         \A i \in 1..Len(queue') : \/ \E j \in 1..Len(queue) : queue'[i] = queue[j]
                                   \/ \E p \in Producers : sending[p] # NoEvent /\ queue'[i] = sending[p],
         \A p \in Producers : sending'[p] # NoEvent =>
                                sending'[p] = sending[p] \/ sending'[p] \in Events \ offered
  PROVE  Inv4'
<1>1. Untried'
  BY DEF Inv4, Untried
<1>2. Counted'
  BY DEF Inv4, Counted
<1>3. Delivered'
  BY DEF Inv4, Delivered
<1>4. OutcomeJustified'
  BY DEF Inv4, OutcomeJustified
<1>5. QED
  BY <1>1, <1>2, <1>3, <1>4 DEF Inv4

\* A worker step that moves no event, makes no attempt and records nothing.
LEMMA GoesOn ==
  ASSUME Inv1, Inv4, UNCHANGED <<queue, callers, tries, log, ev, attempt, req, delivered, stray>>,
         wpc' = wpc \/ wpc # "inflight"
  PROVE  Inv4'
BY NoAttempt DEF callers

\* Enqueue refuses an event.
LEMMA Refused ==
  ASSUME Inv1, Inv4, NEW e \in Events, log[e] = <<>>, tries[e] = <<>>, e # ev,
         Record(e, "overflow"),
         UNCHANGED <<tries, ev, attempt, req, wpc, delivered, stray, queue>>,
         offered \subseteq offered',
         \A p \in Producers : sending'[p] # NoEvent => sending'[p] = sending[p]
  PROVE  Inv4'
<1>1. log' = [log EXCEPT ![e] = <<"overflow">>] /\ log'[e] = <<"overflow">>
  BY Recorded DEF Records
<1>2. \A f \in Events \ {e} : log'[f] = log[f]
  BY <1>1 DEF Inv1, TypeOK, RecordsOK
<1>3. Untried'
  BY <1>1, <1>2 DEF Inv4, Untried
<1>4. Counted'
  BY DEF Inv4, Counted
<1>5. <<"overflow">> # <<"success">> /\ <<"overflow">> # <<"failure">> /\ <<"overflow">> # <<>>
  OBVIOUS
<1>6. Delivered'
  BY <1>1, <1>2, <1>5 DEF Inv4, Delivered
<1>7. OutcomeJustified'
  <2> SUFFICES ASSUME NEW f \in Events
               PROVE  LET n == Len(tries'[f]) IN
                        /\ n <= MaxRetries + 1
                        /\ \A i \in 1..n : tries'[f][i] \in {"ok", "client_error"}
                                             => i = n /\ log'[f] # <<>>
                        /\ log'[f] = <<"success">> => n > 0 /\ tries'[f][n] = "ok"
                        /\ log'[f] = <<"failure">> =>
                             n > 0 /\ (tries'[f][n] = "client_error" \/ n = MaxRetries + 1)
    BY DEF OutcomeJustified
  <2>1. CASE f = e
    BY <2>1, <1>1, <1>5, ConfigAssumption DEF ConfigAssumption, Validate
  <2>2. CASE f # e
    BY <2>2, <1>2 DEF Inv4, OutcomeJustified
  <2>3. QED
    BY <2>1, <2>2
<1>8. QED
  BY <1>3, <1>4, <1>6, <1>7 DEF Inv4

\* The event in the worker's hands has no record, and no attempt brought a final answer.
LEMMA InHand ==
  ASSUME Inv1, Inv3, Inv4, ev \in Events
  PROVE  /\ ev \in offered /\ log[ev] = <<>>
         /\ \A i \in 1..Len(queue) : queue[i] # ev
         /\ \A p \in Producers : sending[p] # NoEvent => sending[p] # ev
         /\ attempt = Len(tries[ev])
         /\ \A i \in 1..Len(tries[ev]) : tries[ev][i] \notin {"ok", "client_error"}
<1>1. ev # NoEvent
  BY ConfigAssumption DEF ConfigAssumption
<1>2. ev \in offered /\ log[ev] = <<>>
  BY DEF Inv3, OneRecord, Places, InPipe
<1>3. QED
  BY <1>1, <1>2 DEF Inv3, Places, Inv4, Counted, OutcomeJustified

\* No more deliveries than attempts, the one under way included.
LEMMA Bounded ==
  ASSUME Inv1, Inv4, NEW f \in Events
  PROVE  /\ delivered[f] \in Nat /\ stray[f] \in Nat /\ Len(tries[f]) \in Nat
         /\ delivered[f] + stray[f] <= Len(tries[f]) + 1
         /\ f # ev \/ req \notin Answers => delivered[f] + stray[f] <= Len(tries[f])
<1>1. delivered[f] \in Nat /\ stray[f] \in Nat /\ Len(tries[f]) \in Nat
  BY DEF Inv1, TypeOK, CountsOK, RecordsOK
<1>2. delivered[f] + stray[f] <= Len(tries[f]) + (IF f = ev /\ req \in Answers THEN 1 ELSE 0)
  BY DEF Inv4, Delivered
<1>3. CASE f = ev /\ req \in Answers
  <2>1. delivered[f] + stray[f] <= Len(tries[f]) + 1
    BY <1>2, <1>3
  <2>2. QED
    BY <1>1, <1>3, <2>1
<1>4. CASE f # ev \/ req \notin Answers
  <2>1. delivered[f] + stray[f] <= Len(tries[f]) + 0
    BY <1>2, <1>4
  <2>2. QED
    BY <1>1, <2>1
<1>5. QED
  BY <1>3, <1>4

\* The records differ from one another and from none.
LEMMA RecordsDiffer ==
  /\ \A r \in Records : <<r>> # <<>>
  /\ \A r, t \in Records : <<r>> = <<t>> => r = t
OBVIOUS

\* An attempt ends without a final answer.
LEMMA AttemptEnds ==
  ASSUME Inv1, Inv3, Inv4, ev \in Events, wpc \in {"post", "inflight"},
         NEW r \in {"other", "error"}, NextAttempt(r), UNCHANGED delivered,
         \/ UNCHANGED stray
         \/ stray' = [stray EXCEPT ![ev] = @ + 1] /\ req = "sent"
  PROVE  Inv4'
<1> USE ConfigAssumption DEF ConfigAssumption, Validate
<1>1. /\ UNCHANGED <<queue, offered, sending, ev, log>>
      /\ attempt' = attempt + 1 /\ req' = "none" /\ wpc' = "loop"
      /\ tries' = [tries EXCEPT ![ev] = Append(@, r)]
  BY DEF NextAttempt, callers
<1>2. /\ Len(tries[ev]) \in Nat
      /\ Len(tries'[ev]) = Len(tries[ev]) + 1
      /\ tries'[ev][Len(tries[ev]) + 1] = r
      /\ \A i \in 1..Len(tries[ev]) : tries'[ev][i] = tries[ev][i]
      /\ \A f \in Events \ {ev} : tries'[f] = tries[f]
  BY <1>1, Tried DEF Results, Answers
<1>3. attempt \in Nat /\ attempt <= MaxRetries
  BY DEF Inv1, TypeOK, WorkerOK, Retriable
<1>4. Untried'
  <2>1. <<"overflow">> # <<>>
    OBVIOUS
  <2>2. \A i \in 1..Len(queue) : queue[i] \in Events \ {ev}
    BY InHand DEF Inv1, TypeOK, QueueOK
  <2>3. \A p \in Producers : sending[p] # NoEvent => sending[p] \in Events \ {ev}
    BY InHand DEF Inv1, TypeOK, CallersOK
  <2>4. QED
    BY <1>1, <1>2, <2>1, <2>2, <2>3, InHand DEF Inv4, Untried
<1>5. Counted'
  BY <1>1, <1>2, InHand DEF Counted
<1>6. Delivered'
  <2>1. ASSUME NEW f \in Events PROVE delivered'[f] + stray'[f] <= Len(tries'[f])
    <3>0. delivered[f] \in Nat /\ stray[f] \in Nat
      BY DEF Inv1, TypeOK, CountsOK
    <3>1. CASE f = ev
      <4>1. CASE UNCHANGED stray
        BY <3>1, <4>1, <1>2, Bounded
      <4>2. CASE stray' = [stray EXCEPT ![ev] = @ + 1] /\ req = "sent"
        <5>1. req \notin Answers
          BY <4>2 DEF Answers
        <5>2. stray'[ev] = stray[ev] + 1
          BY <4>2 DEF Inv1, TypeOK, CountsOK
        <5>3. QED
          BY <3>0, <3>1, <5>1, <5>2, <1>2, Bounded
      <4>3. QED
        BY <4>1, <4>2
    <3>2. CASE f # ev
      <4>1. stray'[f] = stray[f]
        BY <3>2 DEF Inv1, TypeOK, CountsOK
      <4>2. QED
        BY <3>2, <4>1, <1>2, Bounded
    <3>3. QED
      BY <3>1, <3>2
  <2>2. QED
    BY <2>1, <1>1 DEF Inv4, Delivered, Answers
<1>7. OutcomeJustified'
  <2> SUFFICES ASSUME NEW f \in Events
               PROVE  LET n == Len(tries'[f]) IN
                        /\ n <= MaxRetries + 1
                        /\ \A i \in 1..n : tries'[f][i] \in {"ok", "client_error"}
                                             => i = n /\ log'[f] # <<>>
                        /\ log'[f] = <<"success">> => n > 0 /\ tries'[f][n] = "ok"
                        /\ log'[f] = <<"failure">> =>
                             n > 0 /\ (tries'[f][n] = "client_error" \/ n = MaxRetries + 1)
    BY DEF OutcomeJustified
  <2>1. CASE f = ev
    <3>1. log'[f] = <<>>
      BY <2>1, <1>1, InHand
    <3>2. Len(tries'[f]) <= MaxRetries + 1
      BY <2>1, <1>2, <1>3, InHand
    <3>3. \A i \in 1..Len(tries'[f]) : tries'[f][i] \notin {"ok", "client_error"}
      BY <2>1, <1>2, InHand
    <3>4. QED
      BY <3>1, <3>2, <3>3
  <2>2. CASE f # ev
    BY <2>2, <1>1, <1>2 DEF Inv4, OutcomeJustified
  <2>3. QED
    BY <2>1, <2>2
<1>8. QED
  BY <1>4, <1>5, <1>6, <1>7 DEF Inv4

\* dispatch returns: with no record, with one that follows no final answer, or with
\* the final answer it has just received.
LEMMA DispatchEnds ==
  ASSUME Inv1, Inv3, Inv4, ev \in Events, Done, UNCHANGED <<delivered, stray>>,
         \/ UNCHANGED <<log, tries>> /\ wpc # "inflight"
         \/ Record(ev, "expired") /\ UNCHANGED tries /\ wpc # "inflight"
         \/ Record(ev, "failure") /\ UNCHANGED tries /\ wpc # "inflight" /\ attempt = MaxRetries + 1
         \/ /\ wpc = "inflight"
            /\ tries' = [tries EXCEPT ![ev] = Append(@, req)]
            /\ \/ req = "ok" /\ Record(ev, "success")
               \/ req = "client_error" /\ Record(ev, "failure")
  PROVE  Inv4'
<1> USE ConfigAssumption DEF ConfigAssumption, Validate
<1>1. /\ UNCHANGED <<queue, offered, sending>>
      /\ attempt' = 0 /\ req' = "none" /\ wpc' = "select" /\ ev' = NoEvent
  BY DEF Done, callers
<1>2. ASSUME NEW f \in Events \ {ev} PROVE tries'[f] = tries[f] /\ log'[f] = log[f]
  BY Tried, Recorded DEF Inv1, TypeOK, RecordsOK, Record
<1>3. /\ log'[ev] # <<"overflow">>
      /\ log'[ev] = <<"success">> => wpc = "inflight" /\ req = "ok"
      /\ tries'[ev] # tries[ev] => wpc = "inflight" /\ log'[ev] # <<>>
  <2>1. CASE UNCHANGED <<log, tries>>
    BY <2>1, InHand, RecordsDiffer DEF Records
  <2>2. ASSUME NEW r \in Records, Record(ev, r)
        PROVE  log'[ev] # <<>> /\ \A t \in Records : log'[ev] = <<t>> => t = r
    <3>1. log'[ev] = <<r>>
      BY <2>2, InHand, Recorded
    <3>2. QED
      BY <3>1, RecordsDiffer
  <2>3. CASE Record(ev, "expired") /\ UNCHANGED tries
    BY <2>2, <2>3 DEF Records
  <2>4. CASE Record(ev, "failure") /\ (UNCHANGED tries \/ wpc = "inflight")
    BY <2>2, <2>4 DEF Records
  <2>5. CASE Record(ev, "success") /\ wpc = "inflight" /\ req = "ok"
    BY <2>2, <2>5 DEF Records
  <2>6. QED
    BY <2>1, <2>3, <2>4, <2>5
<1>4. Untried'
  <2>2. \A i \in 1..Len(queue) : queue[i] \in Events \ {ev}
    BY InHand DEF Inv1, TypeOK, QueueOK
  <2>3. \A p \in Producers : sending[p] # NoEvent => sending[p] \in Events \ {ev}
    BY InHand DEF Inv1, TypeOK, CallersOK
  <2>4. QED
    BY <1>1, <1>2, <1>3, <2>2, <2>3, InHand DEF Inv4, Untried
<1>5. Counted'
  BY <1>1 DEF Counted
<1>6. /\ Len(tries[ev]) \in Nat
      /\ \/ wpc = "inflight" /\ Len(tries'[ev]) = Len(tries[ev]) + 1
         \/ wpc # "inflight" /\ tries'[ev] = tries[ev]
  <2>1. CASE UNCHANGED tries /\ wpc # "inflight"
    BY <2>1 DEF Inv1, TypeOK, RecordsOK
  <2>2. CASE /\ wpc = "inflight" /\ req \in Results
             /\ tries' = [tries EXCEPT ![ev] = Append(@, req)]
    <3>1. QED
      BY <2>2, Tried
  <2>3. QED
    BY <2>1, <2>2 DEF Results, Answers
<1>7. Delivered'
  <2>1. ASSUME NEW f \in Events PROVE delivered'[f] + stray'[f] <= Len(tries'[f])
    <3>0. delivered[f] \in Nat /\ stray[f] \in Nat
      BY DEF Inv1, TypeOK, CountsOK
    <3>1. CASE f = ev
      <4>1. wpc # "inflight" => req \notin Answers
        BY DEF Inv4, Counted, Answers
      <4>2. QED
        BY <3>0, <3>1, <4>1, <1>6, Bounded
    <3>2. CASE f # ev
      BY <3>2, <1>2, Bounded
    <3>3. QED
      BY <3>1, <3>2
  <2>2. \A f \in Events : log'[f] = <<"success">> => delivered'[f] >= 1
    BY <1>2, <1>3 DEF Inv4, Delivered
  <2>3. QED
    BY <2>1, <2>2, <1>1 DEF Delivered, Answers
<1>8. OutcomeJustified'
  <2> SUFFICES ASSUME NEW f \in Events
               PROVE  LET n == Len(tries'[f]) IN
                        /\ n <= MaxRetries + 1
                        /\ \A i \in 1..n : tries'[f][i] \in {"ok", "client_error"}
                                             => i = n /\ log'[f] # <<>>
                        /\ log'[f] = <<"success">> => n > 0 /\ tries'[f][n] = "ok"
                        /\ log'[f] = <<"failure">> =>
                             n > 0 /\ (tries'[f][n] = "client_error" \/ n = MaxRetries + 1)
    BY DEF OutcomeJustified
  <2>1. CASE f = ev /\ wpc # "inflight"
    <3>1. /\ tries'[f] = tries[f] /\ attempt = Len(tries[f])
          /\ \A i \in 1..Len(tries[f]) : tries[f][i] \notin {"ok", "client_error"}
          /\ Len(tries[f]) <= MaxRetries + 1
      BY <2>1, <1>6, InHand DEF Inv4, OutcomeJustified
    <3>2. log'[f] # <<"success">> /\ (log'[f] = <<"failure">> => attempt = MaxRetries + 1)
      <4>1. log'[f] # <<"success">>
        BY <2>1, <1>3
      <4>2. Record(ev, "expired") => log'[f] = <<"expired">>
        BY <2>1, InHand, Recorded DEF Records
      <4>3. UNCHANGED log => log'[f] = <<>>
        BY <2>1, InHand
      <4>4. QED
        BY <2>1, <4>1, <4>2, <4>3
    <3>3. QED
      BY <3>1, <3>2
  <2>2. CASE f = ev /\ wpc = "inflight"
    <3>1. req \in {"ok", "client_error"} /\ tries' = [tries EXCEPT ![ev] = Append(@, req)]
      BY <2>2
    <3>2. /\ Len(tries[f]) \in Nat
          /\ Len(tries'[f]) = Len(tries[f]) + 1
          /\ tries'[f][Len(tries[f]) + 1] = req
          /\ \A i \in 1..Len(tries[f]) : tries'[f][i] = tries[f][i]
      <4>1. ev = f /\ req \in Results
        BY <2>2, <3>1 DEF Results, Answers
      <4>2. QED
        BY <3>1, <4>1, Tried
    <3>3. attempt \in Nat /\ attempt <= MaxRetries
      BY <2>2 DEF Inv1, TypeOK, WorkerOK, Retriable
    <3>4. \/ req = "ok" /\ log'[f] = <<"success">>
          \/ req = "client_error" /\ log'[f] = <<"failure">>
      BY <2>2, InHand, Recorded DEF Records
    <3>5. Len(tries'[f]) <= MaxRetries + 1
      BY <2>2, <3>2, <3>3, InHand
    <3>6. \A i \in 1..Len(tries'[f]) : tries'[f][i] \in {"ok", "client_error"} => i = Len(tries'[f])
      BY <2>2, <3>2, InHand
    <3>7. /\ log'[f] # <<>>
          /\ log'[f] = <<"success">> => req = "ok"
          /\ log'[f] = <<"failure">> => req = "client_error"
      BY <3>4, RecordsDiffer DEF Records
    <3>8. QED
      BY <3>2, <3>5, <3>6, <3>7
  <2>3. CASE f # ev
    BY <2>3, <1>2 DEF Inv4, OutcomeJustified
  <2>4. QED
    BY <2>1, <2>2, <2>3
<1>9. QED
  BY <1>4, <1>5, <1>7, <1>8 DEF Inv4

\* The inductive invariant behind the next two theorems.
LEMMA Justified == Spec => []Inv4
<1> USE ConfigAssumption DEF ConfigAssumption, Validate
<1>1. Init => Inv4
  <2> SUFFICES ASSUME Init PROVE Inv4
    OBVIOUS
  <2>1. \A e \in Events : log[e] = <<>> /\ tries[e] = <<>> /\ stray[e] = 0 /\ delivered[e] = 0
    BY DEF Init
  <2>2. Untried
    BY <2>1 DEF Init, Untried
  <2>3. Counted
    BY DEF Init, Counted
  <2>4. Delivered
    BY <2>1, RecordsDiffer DEF Init, Delivered, Records, Answers
  <2>5. OutcomeJustified
    BY <2>1, RecordsDiffer DEF OutcomeJustified, Records
  <2>6. QED
    BY <2>2, <2>3, <2>4, <2>5 DEF Inv4
<1>2. Inv1 /\ Inv2 /\ Inv3 /\ Inv4 /\ [Next]_vars => Inv4'
  <2> SUFFICES ASSUME Inv1, Inv2, Inv3, Inv4, [Next]_vars PROVE Inv4'
    OBVIOUS
  <2>0. wpc \notin {"off", "select", "done"} => ev \in Events
    BY DEF Inv1, TypeOK, WorkerOK
  <2>1. CASE Start \/ CancelContext \/ Exit \/ Tick \/ UNCHANGED vars
    <3>1. /\ UNCHANGED <<queue, callers, tries, log, ev, attempt, req, delivered, stray>>
          /\ wpc' = wpc \/ Start \/ Exit
      BY <2>1 DEF Start, CancelContext, Exit, Tick, vars, flags, callers, worker, outside
    <3>2. Start \/ Exit => wpc # "inflight"
      BY DEF Start, Exit, Inv1, Launched
    <3>3. QED
      BY <3>1, <3>2, GoesOn
  <2>2. ASSUME NEW c \in Closers, CloseBegin(c) \/ CloseChan(c) \/ CloseReturn(c) PROVE Inv4'
    <3>1. /\ UNCHANGED <<tries, log, ev, attempt, req, wpc, delivered, stray>>
          /\ UNCHANGED <<queue, offered, sending>>
      BY <2>2 DEF CloseBegin, CloseChan, CloseReturn, worker, outside
    <3>2. QED
      BY <3>1, NoAttempt
  <2>3. ASSUME NEW e \in Events, EnqueueClosed(e) PROVE Inv4'
    <3>1. e \notin offered /\ log[e] = <<>> /\ tries[e] = <<>> /\ e # ev
      BY <2>3 DEF EnqueueClosed, Inv3, Places, InPipe, Inv4, Untried
    <3>2. QED
      BY <2>3, <3>1, Refused DEF EnqueueClosed, worker, outside
  <2>4. ASSUME NEW p \in Producers, NEW e \in Events, EnqueueOpen(p, e) PROVE Inv4'
    <3>1. /\ UNCHANGED <<tries, log, ev, attempt, req, wpc, delivered, stray, queue>>
          /\ offered \subseteq offered' /\ e \in Events \ offered
      BY <2>4 DEF EnqueueOpen, worker, outside
    <3>2. \A q \in Producers : sending'[q] = sending[q] \/ sending'[q] = e
      BY <2>4 DEF EnqueueOpen, Inv1, TypeOK, CallersOK
    <3>3. QED
      BY <3>1, <3>2, NoAttempt
  <2>5. ASSUME NEW p \in Producers, EnqueueSend(p) PROVE Inv4'
    <3>1. /\ UNCHANGED <<tries, ev, attempt, req, wpc, delivered, stray, offered>>
          /\ sending[p] # NoEvent /\ sending[p] \in Events
      BY <2>5 DEF EnqueueSend, worker, outside, Inv1, TypeOK, CallersOK
    <3>2. \A q \in Producers : sending'[q] = sending[q] \/ sending'[q] = NoEvent
      BY <2>5 DEF EnqueueSend, Inv1, TypeOK, CallersOK
    <3>3. CASE UNCHANGED <<queue, log>>
      BY <3>1, <3>2, <3>3, NoAttempt
    <3>4. CASE queue' = Append(queue, sending[p]) /\ UNCHANGED log
      <4>1. \A i \in 1..Len(queue') : queue'[i] = sending[p] \/ \E j \in 1..Len(queue) : queue'[i] = queue[j]
        BY <3>1, <3>4, AppendProperties DEF Inv1, TypeOK, QueueOK
      <4>2. QED
        BY <3>1, <3>2, <3>4, <4>1, NoAttempt
    <3>5. CASE Record(sending[p], "overflow") /\ UNCHANGED queue
      <4>1. log[sending[p]] = <<>> /\ tries[sending[p]] = <<>> /\ sending[p] # ev
        BY <3>1 DEF Inv3, OneRecord, Places, InPipe, Inv4, Untried
      <4>2. QED
        BY <3>1, <3>2, <3>5, <4>1, Refused
    <3>6. QED
      BY <2>5, <3>3, <3>4, <3>5 DEF EnqueueSend
  <2>6. CASE Receive
    <3>1. /\ ev = NoEvent /\ ev' = queue[1] /\ ev' \in Events
          /\ Len(queue') = Len(queue) - 1
          /\ \A i \in 1..Len(queue') : queue'[i] = queue[i + 1]
      BY <2>6, ReceiveKeeps
    <3>2. Len(queue) \in Nat /\ Len(queue) > 0
      BY <2>6, ReceiveKeeps
    <3>3. UNCHANGED <<offered, sending, log, attempt, req, tries, stray, delivered>>
      BY <2>6 DEF Receive, callers, outside
    <3>4. req = "none"
      BY <2>6 DEF Receive, Inv4, Counted
    <3>5. Untried'
      BY <3>1, <3>2, <3>3 DEF Inv4, Untried
    <3>6. Counted'
      <4>1. tries[queue[1]] = <<>> /\ attempt = 0
        BY <3>1, <3>2 DEF Inv4, Untried, Counted
      <4>2. QED
        BY <3>1, <3>3, <3>4, <4>1 DEF Counted
    <3>7. Delivered'
      <4>1. req \notin Answers
        BY <3>4 DEF Answers
      <4>2. QED
        BY <3>3, <3>4, <4>1 DEF Inv4, Delivered
    <3>8. OutcomeJustified'
      BY <3>3 DEF Inv4, OutcomeJustified
    <3>9. QED
      BY <3>5, <3>6, <3>7, <3>8 DEF Inv4
  <2>7. CASE CheckTTL
    <3>1. CASE Conclude("expired") /\ UNCHANGED outside
      BY <2>0, <2>7, <3>1, DispatchEnds DEF CheckTTL, Conclude, outside
    <3>2. CASE UNCHANGED <<callers, queue, ev, attempt, req, log, outside>>
      BY <2>7, <3>2, GoesOn DEF CheckTTL, outside
    <3>3. QED
      BY <2>7, <3>1, <3>2 DEF CheckTTL
  <2>8. CASE Post
    <3>1. CASE NextAttempt("error") /\ UNCHANGED <<stray, delivered>>
      BY <2>0, <2>8, <3>1, AttemptEnds DEF Post
    <3>2. CASE /\ wpc' = "inflight" /\ req' = "sent"
               /\ UNCHANGED <<callers, queue, ev, attempt, log, outside>>
      <4>1. Untried' /\ Counted' /\ OutcomeJustified'
        BY <3>2 DEF Inv4, Untried, Counted, OutcomeJustified, callers, outside
      <4>2. req \notin Answers /\ req' \notin Answers /\ req' # "ok"
        BY <2>8, <3>2 DEF Post, Inv4, Counted, Answers
      <4>3. Delivered'
        BY <3>2, <4>2 DEF Inv4, Delivered, outside
      <4>4. QED
        BY <4>1, <4>3 DEF Inv4
    <3>3. QED
      BY <2>8, <3>1, <3>2 DEF Post
  <2>9. CASE RequestError
    BY <2>0, <2>9, AttemptEnds DEF RequestError
  <2>10. CASE Respond
    <3>1. CASE req = "other"
      BY <2>0, <2>10, <3>1, AttemptEnds DEF Respond
    <3>2. CASE req # "other"
      BY <2>0, <2>10, <3>2, DispatchEnds DEF Respond, Conclude
    <3>3. QED
      BY <3>1, <3>2
  <2>11. CASE Loop
    <3>1. CASE Conclude("failure") /\ ~AttemptsLeft /\ UNCHANGED outside
      <4>1. attempt = MaxRetries + 1
        BY <3>1 DEF AttemptsLeft, Inv1, TypeOK, WorkerOK
      <4>2. QED
        BY <2>0, <2>11, <3>1, <4>1, DispatchEnds DEF Loop, Conclude, outside
    <3>2. CASE Conclude("expired") /\ UNCHANGED outside
      BY <2>0, <2>11, <3>2, DispatchEnds DEF Loop, Conclude, outside
    <3>3. CASE UNCHANGED <<callers, queue, ev, attempt, req, log, outside>>
      BY <2>11, <3>3, GoesOn DEF Loop, outside
    <3>4. QED
      BY <2>11, <3>1, <3>2, <3>3 DEF Loop
  <2>12. CASE Wake
    <3>1. CASE Conclude("expired") /\ UNCHANGED outside
      BY <2>0, <2>12, <3>1, DispatchEnds DEF Wake, Conclude, outside
    <3>2. CASE UNCHANGED <<callers, queue, ev, attempt, req, log, outside>>
      BY <2>12, <3>2, GoesOn DEF Wake, outside
    <3>3. QED
      BY <2>12, <3>1, <3>2 DEF Wake
  <2>13. CASE CancelWait
    BY <2>0, <2>13, DispatchEnds DEF CancelWait, outside
  <2>14. CASE HAAnswers
    <3>1. /\ UNCHANGED <<offered, sending, queue, wpc, ev, attempt, log, tries, stray>>
          /\ wpc = "inflight" /\ req = "sent" /\ req' \in Answers /\ ev \in Events
      BY <2>0, <2>14 DEF HAAnswers, callers
    <3>2. PICK n \in {0, 1} : /\ delivered' = [delivered EXCEPT ![ev] = @ + n]
                              /\ req' = "ok" => n = 1
      BY <2>14 DEF HAAnswers
    <3>3. Untried' /\ Counted' /\ OutcomeJustified'
      BY <3>1 DEF Inv4, Untried, Counted, OutcomeJustified
    <3>4. /\ delivered'[ev] = delivered[ev] + n
          /\ \A f \in Events \ {ev} : delivered'[f] = delivered[f]
      BY <3>1, <3>2 DEF Inv1, TypeOK, CountsOK
    <3>5. Delivered'
      <4>1. ASSUME NEW f \in Events
            PROVE  /\ delivered[f] + stray[f] <= Len(tries[f])
                   /\ delivered[f] \in Nat /\ stray[f] \in Nat /\ Len(tries[f]) \in Nat
        BY <3>1, Bounded DEF Answers
      <4>2. ASSUME NEW f \in Events
            PROVE  delivered'[f] + stray'[f] <= Len(tries'[f]) + (IF f = ev' /\ req' \in Answers THEN 1 ELSE 0)
        <5>1. CASE f = ev
          BY <3>1, <3>2, <3>4, <4>1, <5>1
        <5>2. CASE f # ev
          BY <3>1, <3>4, <4>1, <5>2
        <5>3. QED
          BY <5>1, <5>2
      <4>3. req' = "ok" => delivered'[ev'] >= 1
        BY <3>1, <3>2, <3>4, <4>1
      <4>4. ASSUME NEW f \in Events, log'[f] = <<"success">> PROVE delivered'[f] >= 1
        <5>1. delivered[f] >= 1 /\ delivered[f] \in Nat
          BY <3>1, <4>1, <4>4 DEF Inv4, Delivered
        <5>2. QED
          BY <5>1, <3>2, <3>4
      <4>5. QED
        BY <4>2, <4>3, <4>4 DEF Delivered
    <3>6. QED
      BY <3>3, <3>5 DEF Inv4
  <2>15. ASSUME NEW e \in Events, HALate(e) PROVE Inv4'
    <3>1. UNCHANGED <<offered, sending, queue, wpc, ev, attempt, req, log, tries>>
      BY <2>15 DEF HALate, callers, worker
    <3>2. Untried' /\ Counted' /\ OutcomeJustified'
      BY <3>1 DEF Inv4, Untried, Counted, OutcomeJustified
    <3>3. /\ stray'[e] = stray[e] - 1 /\ delivered'[e] = delivered[e] + 1
          /\ \A f \in Events \ {e} : delivered'[f] = delivered[f] /\ stray'[f] = stray[f]
          /\ \A f \in Events : delivered[f] \in Nat /\ stray[f] \in Nat
      BY <2>15 DEF HALate, Inv1, TypeOK, CountsOK
    <3>4. \A f \in Events : /\ delivered'[f] + stray'[f] = delivered[f] + stray[f]
                            /\ delivered[f] >= 1 => delivered'[f] >= 1
      BY <3>3
    <3>5. req = "ok" => ev \in Events
      BY <2>0 DEF Inv4, Counted
    <3>6. Delivered'
      BY <3>1, <3>4, <3>5 DEF Inv4, Delivered
    <3>7. QED
      BY <3>2, <3>6 DEF Inv4
  <2>16. QED
    BY <2>1, <2>2, <2>3, <2>4, <2>5, <2>6, <2>7, <2>8, <2>9, <2>10, <2>11, <2>12, <2>13,
       <2>14, <2>15 DEF Next, WorkerStep
<1>3. QED
  BY Typed, LockedOut, InOnePlace, <1>1, <1>2, PTL DEF Spec

\* No event is attempted more often than MaxRetries allows or after a final answer, and
\* the outcome on record is the one the answers justify, for any timing of answers,
\* timeouts and cancellation.
THEOREM OutcomesJustified == Spec => []OutcomeJustified
<1>1. Inv4 => OutcomeJustified
  BY DEF Inv4
<1>2. QED
  BY Justified, <1>1, PTL

\* However many answers are lost and however late requests arrive, Home Assistant acts
\* on an event at most once per attempt, on a success at least once and on an event
\* that was refused never.
THEOREM DeliveriesBounded == Spec => []DeliveryBound
<1>1. Inv1 /\ Inv3 /\ Inv4 => DeliveryBound
  <2> SUFFICES ASSUME Inv1, Inv3, Inv4, NEW e \in Events
               PROVE  /\ delivered[e] + stray[e] <= MaxRetries + 1
                      /\ log[e] = <<"success">> => delivered[e] >= 1
                      /\ log[e] = <<"overflow">> => delivered[e] = 0
    BY DEF DeliveryBound
  <2> USE ConfigAssumption DEF ConfigAssumption, Validate
  <2>0. log[e] = <<"success">> => delivered[e] >= 1
    BY DEF Inv4, Delivered
  <2>1. Len(tries[e]) <= MaxRetries + 1
    BY DEF Inv4, OutcomeJustified
  <2>2. CASE e = ev /\ req \in Answers
    <3>1. wpc = "inflight" /\ attempt = Len(tries[e])
      BY <2>2 DEF Inv4, Counted, Answers
    <3>2. Len(tries[e]) <= MaxRetries
      BY <3>1 DEF Inv1, Retriable
    <3>3. log[e] # <<"overflow">>
      BY <2>2, InHand, RecordsDiffer DEF Records
    <3>4. QED
      BY <2>0, <3>2, <3>3, Bounded
  <2>3. CASE e # ev \/ req \notin Answers
    <3>1. log[e] = <<"overflow">> => Len(tries[e]) = 0
      BY DEF Inv4, Untried
    <3>2. QED
      BY <2>0, <2>1, <2>3, <3>1, Bounded
  <2>4. QED
    BY <2>2, <2>3
<1>2. QED
  BY Typed, InOnePlace, Justified, <1>1, PTL

-----------------------------------------------------------------------------
(* The refinement.                                                         *)

\* The line and the verdicts that the refinement mapping gives to EventRelay.
Line       == IF ev = NoEvent THEN queue ELSE <<ev>> \o queue
VerdictOf(e) == IF log[e] # <<>> THEN log[e][1]
                ELSE IF e \in offered /\ ~InPipe(e) THEN "lost" ELSE "none"
Verdict    == [e \in Events |-> VerdictOf(e)]

LEMMA LineShape ==
  ASSUME Inv1
  PROVE  /\ ev = NoEvent => Line = queue
         /\ ev # NoEvent => /\ Line # <<>> /\ Len(Line) = Len(queue) + 1
                            /\ Head(Line) = ev /\ Tail(Line) = queue
                            /\ \A i \in 1..Len(Line) : Line[i] = IF i = 1 THEN ev ELSE queue[i - 1]
         /\ Line \in Seq(Events) /\ queue \in Seq(Events) /\ Len(queue) \in Nat
<1>1. queue \in Seq(Events) /\ Len(queue) \in Nat /\ ev \in Events \cup {NoEvent}
  BY DEF Inv1, TypeOK, QueueOK, WorkerOK
<1>2. CASE ev = NoEvent
  BY <1>1, <1>2 DEF Line
<1>3. CASE ev # NoEvent
  <2>1. ev \in Events /\ <<ev>> \in Seq(Events) /\ Line = <<ev>> \o queue
    BY <1>1, <1>3 DEF Line
  <2>2. /\ Line \in Seq(Events) /\ Len(Line) = Len(queue) + 1
        /\ \A i \in 1..Len(Line) : Line[i] = IF i = 1 THEN ev ELSE queue[i - 1]
    BY <1>1, <2>1, ConcatProperties
  <2>3. Line # <<>> /\ Head(Line) = ev
    BY <1>1, <2>2
  <2>4. /\ Tail(Line) \in Seq(Events) /\ Len(Tail(Line)) = Len(queue)
        /\ \A i \in 1..Len(queue) : Tail(Line)[i] = queue[i]
    <3>1. /\ Tail(Line) \in Seq(Events) /\ Len(Tail(Line)) = Len(Line) - 1
          /\ \A i \in 1..Len(Tail(Line)) : Tail(Line)[i] = Line[i + 1]
      BY <2>2, <2>3, HeadTailProperties
    <3>2. \A i \in 1..Len(queue) : Line[i + 1] = queue[i]
      BY <1>1, <2>2
    <3>3. QED
      BY <1>1, <2>2, <3>1, <3>2
  <2>5. Tail(Line) = queue
    BY <1>1, <2>4, SeqEqual
  <2>6. QED
    BY <1>1, <1>3, <2>2, <2>3, <2>5
<1>4. QED
  BY <1>2, <1>3

\* What is appended to the queue is appended to the line.
LEMMA LineAppend ==
  ASSUME Inv1, NEW e \in Events, queue' = Append(queue, e), UNCHANGED ev
  PROVE  Line' = Append(Line, e)
<1>1. queue \in Seq(Events)
  BY LineShape
<1>2. CASE ev = NoEvent
  BY <1>2 DEF Line
<1>3. CASE ev # NoEvent
  <2>1. ev \in Events
    BY <1>3 DEF Inv1, TypeOK, WorkerOK
  <2>2. <<ev>> \o Append(queue, e) = Append(<<ev>> \o queue, e)
    BY <1>1, <2>1
  <2>3. QED
    BY <1>3, <2>2 DEF Line
<1>4. QED
  BY <1>2, <1>3

\* A sequence is its head followed by its tail.
LEMMA HeadThenTail ==
  ASSUME NEW S, NEW s \in Seq(S), s # <<>>
  PROVE  <<Head(s)>> \o Tail(s) = s
<1> DEFINE t == <<Head(s)>> \o Tail(s)
<1>1. /\ Head(s) \in S /\ Head(s) = s[1] /\ Tail(s) \in Seq(S) /\ Len(s) \in Nat /\ Len(s) > 0
      /\ Len(Tail(s)) = Len(s) - 1
      /\ \A i \in 1..Len(Tail(s)) : Tail(s)[i] = s[i + 1]
  BY HeadTailProperties
<1>2. <<Head(s)>> \in Seq(S) /\ Len(<<Head(s)>>) = 1 /\ <<Head(s)>>[1] = s[1]
  BY <1>1
<1>3. /\ t \in Seq(S) /\ Len(t) = Len(s)
      /\ \A i \in 1..Len(s) : t[i] = IF i <= 1 THEN s[1] ELSE Tail(s)[i - 1]
  BY <1>1, <1>2, ConcatProperties
<1>4. \A i \in 1..Len(s) : t[i] = s[i]
  BY <1>1, <1>3
<1>5. QED
  BY <1>3, <1>4, SeqEqual

\* A step that changes the fate of no event.
LEMMA VerdictSame ==
  ASSUME \A f \in Events : /\ log'[f] = log[f]
                           /\ (f \in offered /\ ~InPipe(f))' <=> f \in offered /\ ~InPipe(f)
  PROVE  Verdict' = Verdict
BY DEF Verdict, VerdictOf

\* A step that changes the fate of one.
LEMMA VerdictStep ==
  ASSUME NEW e \in Events, NEW v, VerdictOf(e)' = v,
         \A f \in Events \ {e} : /\ log'[f] = log[f]
                                 /\ (f \in offered /\ ~InPipe(f))' <=> f \in offered /\ ~InPipe(f)
  PROVE  Verdict' = [Verdict EXCEPT ![e] = v]
<1>1. \A f \in Events \ {e} : VerdictOf(f)' = VerdictOf(f)
  BY DEF VerdictOf
<1>2. QED
  BY <1>1 DEF Verdict

\* The steps of EventRelay in terms of Line and Verdict.
LEMMA MapStutter ==
  ASSUME Line' = Line, Verdict' = Verdict, UNCHANGED <<ctxDone, closed>>
  PROVE  UNCHANGED Relay!rvars
BY DEF Relay!rvars, Line, Verdict, VerdictOf

LEMMA MapHalt ==
  ASSUME Line' = Line, Verdict' = Verdict, ctxDone' \in {ctxDone, TRUE}, closed' \in {closed, TRUE}
  PROVE  Relay!Halt
BY DEF Relay!Halt, Line, Verdict, VerdictOf

LEMMA MapAccept ==
  ASSUME NEW e \in Events, Line' = Append(Line, e), Verdict' = Verdict,
         UNCHANGED <<ctxDone, closed>>, ~closed, Len(Line) <= BufferSize,
         Verdict[e] = "none", \A i \in 1..Len(Line) : Line[i] # e
  PROVE  Relay!Accept(e)
BY DEF Relay!Accept, Relay!Waiting, Line, Verdict, VerdictOf

LEMMA MapReject ==
  ASSUME NEW e \in Events, Line' = Line, Verdict' = [Verdict EXCEPT ![e] = "overflow"],
         UNCHANGED <<ctxDone, closed>>, closed \/ Len(Line) >= BufferSize,
         Verdict[e] = "none", \A i \in 1..Len(Line) : Line[i] # e
  PROVE  Relay!Reject(e)
BY DEF Relay!Reject, Relay!Waiting, Line, Verdict, VerdictOf

LEMMA MapSettle ==
  ASSUME Line # <<>>, Line' = Tail(Line), NEW v \in {"success", "failure", "expired", "lost"},
         Verdict' = [Verdict EXCEPT ![Head(Line)] = v], v = "lost" => ctxDone,
         UNCHANGED <<ctxDone, closed>>
  PROVE  Relay!Settle
BY DEF Relay!Settle, Line, Verdict, VerdictOf

\* dispatch lets go of the event at the head of the line.
LEMMA DispatchSettles ==
  ASSUME Inv1, Inv3, NEW e \in Events, e = ev, Done,
         \/ \E r \in {"success", "failure", "expired"} : Record(e, r)
         \/ UNCHANGED log /\ ctxDone
  PROVE  Relay!Settle
<1>1. ev # NoEvent /\ e \in offered /\ log[e] = <<>>
  BY ConfigAssumption DEF Inv3, OneRecord, Places, InPipe, ConfigAssumption
<1>2. UNCHANGED <<queue, offered, ctxDone, closed>> /\ ev' = NoEvent
  BY DEF Done, callers, flags
<1>3. Line # <<>> /\ Head(Line) = e /\ Tail(Line) = queue
  BY <1>1, LineShape
<1>4. Line' = Tail(Line)
  BY <1>2, <1>3 DEF Line
<1>5. \A f \in Events : InPipe(f)' <=> InPipe(f) /\ f # e
  BY DoneDrops
<1>6. ASSUME NEW r \in {"success", "failure", "expired"}, Record(e, r) PROVE Relay!Settle
  <2>1. log' = [log EXCEPT ![e] = <<r>>] /\ log'[e] = <<r>>
    BY <1>1, <1>6, Recorded DEF Records
  <2>2. VerdictOf(e)' = r
    BY <2>1 DEF VerdictOf
  <2>3. \A f \in Events \ {e} : log'[f] = log[f]
    BY <2>1 DEF Inv1, TypeOK, RecordsOK
  <2>4. Verdict' = [Verdict EXCEPT ![e] = r]
    BY <1>2, <1>5, <2>2, <2>3, VerdictStep
  <2>5. QED
    BY <1>2, <1>3, <1>4, <2>4, MapSettle
<1>7. CASE UNCHANGED log /\ ctxDone
  <2>1. VerdictOf(e)' = "lost"
    BY <1>1, <1>2, <1>5, <1>7 DEF VerdictOf
  <2>2. Verdict' = [Verdict EXCEPT ![e] = "lost"]
    BY <1>2, <1>5, <1>7, <2>1, VerdictStep
  <2>3. QED
    BY <1>2, <1>3, <1>4, <1>7, <2>2, MapSettle
<1>8. QED
  BY <1>6, <1>7

\* The dispatcher is a bounded line: events enter at its end or are refused, leave at its
\* head with one verdict for ever, and are lost only once the context is done.
THEOREM ImplementsRelay == Spec => RelaySpec
<1> USE ConfigAssumption DEF ConfigAssumption, Validate
<1>1. Init => Relay!RInit
  <2> SUFFICES ASSUME Init PROVE Relay!RInit
    OBVIOUS
  <2>1. \A e \in Events : log[e] = <<>> /\ e \notin offered
    BY DEF Init
  <2>2. Verdict = [e \in Events |-> "none"]
    BY <2>1 DEF Verdict, VerdictOf
  <2>3. Line = <<>>
    BY DEF Init, Line
  <2>4. ctxDone = FALSE /\ closed = FALSE
    BY DEF Init
  <2>5. QED
    BY <2>2, <2>3, <2>4 DEF Relay!RInit, Line, Verdict, VerdictOf
<1>2. Inv1 /\ Inv2 /\ Inv3 /\ [Next]_vars => [Relay!RNext]_(Relay!rvars)
  <2> SUFFICES ASSUME Inv1, Inv2, Inv3, [Next]_vars
               PROVE  Relay!RNext \/ UNCHANGED Relay!rvars
    OBVIOUS
  <2>1. ASSUME UNCHANGED <<queue, ev, sending, offered, log>>
        PROVE  Line' = Line /\ Verdict' = Verdict
    <3>1. \A f \in Events : InPipe(f)' <=> InPipe(f)
      BY <2>1 DEF InPipe, InQueue
    <3>2. Line' = Line
      BY <2>1 DEF Line
    <3>3. QED
      BY <2>1, <3>1, <3>2, VerdictSame
  <2>2. ASSUME UNCHANGED <<queue, ev, sending, offered, log, ctxDone, closed>>
        PROVE  UNCHANGED Relay!rvars
    BY <2>1, <2>2, MapStutter
  <2>3. CASE Start \/ Exit \/ HAAnswers \/ Tick \/ UNCHANGED vars
    BY <2>2, <2>3 DEF Start, Exit, HAAnswers, Tick, vars, flags, callers, worker
  <2>4. ASSUME NEW e \in Events, HALate(e) PROVE UNCHANGED Relay!rvars
    BY <2>2, <2>4 DEF HALate, flags, callers, worker
  <2>5. CASE CancelContext
    BY <2>1, <2>5, MapHalt DEF CancelContext, callers, worker, Relay!RNext
  <2>6. ASSUME NEW c \in Closers, CloseBegin(c) PROVE Relay!RNext
    <3>1. /\ UNCHANGED <<queue, ev, sending, offered, log>>
          /\ ctxDone' \in {ctxDone, TRUE} /\ closed' \in {closed, TRUE}
      BY <2>6 DEF CloseBegin, worker, Inv1, TypeOK, FlagsOK
    <3>2. QED
      BY <2>1, <3>1, MapHalt DEF Relay!RNext
  <2>7. ASSUME NEW c \in Closers, CloseChan(c) \/ CloseReturn(c) PROVE UNCHANGED Relay!rvars
    BY <2>2, <2>7 DEF CloseChan, CloseReturn, flags, worker
  <2>8. ASSUME NEW e \in Events, EnqueueClosed(e) PROVE Relay!RNext
    <3>1. e \notin offered /\ log[e] = <<>> /\ ~InPipe(e)
      BY <2>8 DEF EnqueueClosed, Inv3, Places
    <3>2. /\ UNCHANGED <<queue, ev, sending, ctxDone, closed>> /\ closed
          /\ offered' = offered \cup {e}
      BY <2>8 DEF EnqueueClosed, flags, worker
    <3>3. log' = [log EXCEPT ![e] = <<"overflow">>] /\ log'[e] = <<"overflow">>
      BY <2>8, <3>1, Recorded DEF EnqueueClosed, Records
    <3>4. \A f \in Events \ {e} : log'[f] = log[f]
      BY <3>3 DEF Inv1, TypeOK, RecordsOK
    <3>5. \A f \in Events : InPipe(f)' <=> InPipe(f)
      BY <3>2 DEF InPipe, InQueue
    <3>6. VerdictOf(e)' = "overflow"
      BY <3>3 DEF VerdictOf
    <3>7. Verdict' = [Verdict EXCEPT ![e] = "overflow"]
      BY <3>2, <3>4, <3>5, <3>6, VerdictStep
    <3>8. Line' = Line
      BY <3>2 DEF Line
    <3>9. \A i \in 1..Len(Line) : Line[i] # e
      BY <3>1, LineShape DEF InPipe, InQueue
    <3>10. Verdict[e] = "none"
      BY <3>1 DEF Verdict, VerdictOf
    <3>11. QED
      BY <3>2, <3>7, <3>8, <3>9, <3>10, MapReject DEF Relay!RNext
  <2>9. ASSUME NEW p \in Producers, NEW e \in Events, EnqueueOpen(p, e)
        PROVE  UNCHANGED Relay!rvars
    <3>1. e \notin offered /\ ~InPipe(e)
      BY <2>9 DEF EnqueueOpen, Inv3, Places
    <3>2. /\ UNCHANGED <<queue, ev, log, ctxDone, closed>>
          /\ offered' = offered \cup {e}
          /\ sending' = [sending EXCEPT ![p] = e] /\ sending[p] = NoEvent
      BY <2>9 DEF EnqueueOpen, flags, worker
    <3>3. /\ sending'[p] = e
          /\ \A q \in Producers \ {p} : sending'[q] = sending[q]
      BY <3>2 DEF Inv1, TypeOK, CallersOK
    <3>4. \A f \in Events : InPipe(f)' <=> InPipe(f) \/ f = e
      BY <3>2, <3>3 DEF InPipe, InQueue
    <3>5. Verdict' = Verdict
      BY <3>1, <3>2, <3>4, VerdictSame
    <3>6. Line' = Line
      BY <3>2 DEF Line
    <3>7. QED
      BY <3>2, <3>5, <3>6, MapStutter
  <2>10. ASSUME NEW p \in Producers, EnqueueSend(p) PROVE Relay!RNext
    <3>1. PICK e \in Events : e = sending[p]
      BY <2>10 DEF EnqueueSend, Inv1, TypeOK, CallersOK
    <3>2. /\ InPipe(e) /\ e \in offered /\ log[e] = <<>> /\ e # ev
          /\ \A i \in 1..Len(queue) : queue[i] # e
      BY <2>10, <3>1 DEF EnqueueSend, InPipe, Inv3, OneRecord, Places
    <3>3. /\ UNCHANGED <<ev, offered, ctxDone, closed>> /\ ~closed /\ ~chanClosed
          /\ sending' = [sending EXCEPT ![p] = NoEvent]
      BY <2>10 DEF EnqueueSend, worker, Inv2, ReadLocked
    <3>4. Verdict[e] = "none" /\ \A i \in 1..Len(Line) : Line[i] # e
      <4>1. Verdict[e] = "none"
        BY <3>2 DEF Verdict, VerdictOf
      <4>2. \A i \in 1..Len(Line) : Line[i] # e
        BY <3>2, LineShape
      <4>3. QED
        BY <4>1, <4>2
    <3>5. CASE HasRoom /\ queue' = Append(queue, sending[p]) /\ UNCHANGED log
      <4>1. \A f \in Events : InPipe(f)' <=> InPipe(f)
        BY <3>1, <3>3, <3>5, SendKeeps
      <4>2. Verdict' = Verdict
        BY <3>3, <3>5, <4>1, VerdictSame
      <4>3. Line' = Append(Line, e)
        BY <3>1, <3>3, <3>5, LineAppend
      <4>4. Len(Line) <= BufferSize
        BY <3>5, LineShape DEF HasRoom
      <4>5. QED
        BY <3>3, <3>4, <4>2, <4>3, <4>4, MapAccept DEF Relay!RNext
    <3>6. CASE ~HasRoom /\ Record(sending[p], "overflow") /\ UNCHANGED queue
      <4>1. log' = [log EXCEPT ![e] = <<"overflow">>] /\ log'[e] = <<"overflow">>
        BY <3>1, <3>2, <3>6, Recorded DEF Records
      <4>2. \A f \in Events \ {e} : log'[f] = log[f]
        BY <4>1 DEF Inv1, TypeOK, RecordsOK
      <4>3. \A f \in Events : InPipe(f)' <=> InPipe(f) /\ f # e
        BY <3>1, <3>3, <3>6, SendDrops
      <4>4. VerdictOf(e)' = "overflow"
        BY <4>1 DEF VerdictOf
      <4>5. Verdict' = [Verdict EXCEPT ![e] = "overflow"]
        BY <3>3, <4>2, <4>3, <4>4, VerdictStep
      <4>6. Line' = Line
        BY <3>3, <3>6 DEF Line
      <4>7. Len(Line) >= BufferSize
        BY <3>6, LineShape DEF HasRoom
      <4>8. QED
        BY <3>3, <3>4, <4>5, <4>6, <4>7, MapReject DEF Relay!RNext
    <3>7. QED
      BY <2>10, <3>3, <3>5, <3>6 DEF EnqueueSend
  <2>11. CASE Receive
    <3>1. UNCHANGED <<sending, offered, log, ctxDone, closed>> /\ queue' = Tail(queue) /\ ev' = Head(queue)
      BY <2>11 DEF Receive, callers, flags
    <3>2. /\ ev = NoEvent /\ queue # <<>> /\ ev' \in Events
          /\ \A f \in Events : InPipe(f)' <=> InPipe(f)
      BY <2>11, ReceiveKeeps
    <3>3. Verdict' = Verdict
      BY <3>1, <3>2, VerdictSame
    <3>4. Line' = Line
      <4>1. Line' = <<Head(queue)>> \o Tail(queue)
        BY <3>1, <3>2 DEF Line
      <4>2. queue \in Seq(Events) /\ Line = queue
        BY <3>2, LineShape
      <4>3. QED
        BY <3>2, <4>1, <4>2, HeadThenTail
    <3>5. QED
      BY <3>1, <3>3, <3>4, MapStutter
  <2>12. ASSUME wpc \notin {"off", "select", "done"}, Done,
                \/ \E r \in {"success", "failure", "expired"} : Record(ev, r)
                \/ UNCHANGED log /\ ctxDone
         PROVE  Relay!RNext
    <3>1. PICK e \in Events : e = ev
      BY <2>12 DEF Inv1, TypeOK, WorkerOK
    <3>2. Relay!Settle
      BY <2>12, <3>1, DispatchSettles
    <3>3. QED
      BY <3>2 DEF Relay!RNext
  <2>13. ASSUME UNCHANGED <<flags, callers, queue, ev, log>> PROVE UNCHANGED Relay!rvars
    BY <2>2, <2>13 DEF flags, callers
  <2>14. ASSUME NEW r \in {"success", "failure", "expired"},
                wpc \notin {"off", "select", "done"}, Conclude(r)
         PROVE  Relay!RNext
    BY <2>12, <2>14 DEF Conclude
  <2>15. CASE CheckTTL \/ Wake \/ Loop
    BY <2>13, <2>14, <2>15 DEF CheckTTL, Wake, Loop
  <2>16. CASE Post \/ RequestError
    BY <2>13, <2>16 DEF Post, RequestError, NextAttempt
  <2>17. CASE Respond
    BY <2>13, <2>14, <2>17 DEF Respond, NextAttempt
  <2>18. CASE CancelWait
    BY <2>12, <2>18 DEF CancelWait
  <2>19. QED
    BY <2>3, <2>4, <2>5, <2>6, <2>7, <2>8, <2>9, <2>10, <2>11, <2>15, <2>16, <2>17, <2>18
       DEF Next, WorkerStep
<1>3. QED
  BY Typed, LockedOut, InOnePlace, <1>1, <1>2, PTL DEF Spec, RelaySpec, Relay!RSpec

-----------------------------------------------------------------------------
(* The end.  What CloseReturns needs beside fairness: the work that Close  *)
(* leaves to the worker is bounded, and every step of it takes some away.  *)

\* Steps that one event takes at most.
PerEvent == 4 * MaxRetries + 10

Offset == [at \in {"dispatch", "loop", "wait", "post", "inflight"} |->
             CASE at = "dispatch" -> 6 [] at = "loop" -> 5 [] at = "wait" -> 4
               [] at = "post" -> 3 [] OTHER -> 2]

\* Steps that the worker has left at most, if no event comes.
InDispatch == 4 * (MaxRetries + 1 - attempt) + Offset[wpc]
Left == IF wpc \in {"off", "done"} THEN 0
        ELSE PerEvent * Len(queue) + (IF wpc = "select" THEN 1 ELSE InDispatch)

\* The loop of dispatch begins to count anew with each event.
Anew == wpc \in {"off", "select", "dispatch"} => attempt = 0

\* Once Close has set its flag, nothing gives the worker more to do, and each of its steps
\* leaves it less.
WindsDown == [][closed => Left' <= Left /\ (WorkerStep => Left' < Left)]_vars

LEMMA OffsetIs == /\ Offset["dispatch"] = 6 /\ Offset["loop"] = 5 /\ Offset["wait"] = 4
                  /\ Offset["post"] = 3 /\ Offset["inflight"] = 2
  BY DEF Offset

\* Anew is kept by every step.
LEMMA CountsAnew == Spec => []Anew
<1>1. Init => Anew
  BY DEF Init, Anew
<1>2. Inv1 /\ Anew /\ [Next]_vars => Anew'
  <2> SUFFICES ASSUME Inv1, Anew, [Next]_vars PROVE Anew'
    OBVIOUS
  <2>1. ASSUME UNCHANGED <<wpc, attempt>> PROVE Anew'
    BY <2>1 DEF Anew
  <2>2. CASE Done
    BY <2>2 DEF Done, Anew
  <2>3. CASE Start \/ Receive \/ Exit
    BY <2>3 DEF Start, Receive, Exit, Anew, Inv1, Launched
  <2>4. CASE wpc' \in {"loop", "wait", "post", "inflight", "done"}
    BY <2>4 DEF Anew
  <2>5. CASE CheckTTL \/ Post \/ RequestError \/ Respond \/ Loop \/ Wake \/ CancelWait
    BY <2>2, <2>4, <2>5 DEF CheckTTL, Post, RequestError, Respond, Loop, Wake, CancelWait,
                            Conclude, NextAttempt
  <2>6. CASE \/ CancelContext \/ HAAnswers \/ Tick \/ UNCHANGED vars
             \/ \E e \in Events : EnqueueClosed(e) \/ HALate(e)
             \/ \E q \in Producers : EnqueueSend(q) \/ \E e \in Events : EnqueueOpen(q, e)
             \/ \E c \in Closers : CloseBegin(c) \/ CloseChan(c) \/ CloseReturn(c)
    BY <2>1, <2>6 DEF CancelContext, HAAnswers, Tick, vars, EnqueueClosed, HALate, EnqueueSend,
                      EnqueueOpen, CloseBegin, CloseChan, CloseReturn, worker
  <2>7. QED
    BY <2>3, <2>5, <2>6 DEF Next, WorkerStep
<1>3. QED
  BY Typed, <1>1, <1>2, PTL DEF Spec

\* What is left is a number, and bounded by the events in the queue and the one in hand.
LEMMA LeftIsBounded ==
  ASSUME Inv1, Anew
  PROVE  /\ Left \in Nat /\ Left <= PerEvent * (BufferSize + 1) + 1
         /\ PerEvent \in Nat /\ PerEvent * Len(queue) \in Nat
<1> USE ConfigAssumption DEF ConfigAssumption, Validate
<1>1. PerEvent \in Nat /\ MaxRetries \in Nat
  BY DEF PerEvent
<1>2. Len(queue) \in Nat /\ Len(queue) <= BufferSize /\ BufferSize \in Nat
  BY LenProperties DEF Inv1, TypeOK, QueueOK
<1>3. /\ PerEvent * Len(queue) \in Nat /\ PerEvent * Len(queue) <= PerEvent * BufferSize
      /\ PerEvent * (BufferSize + 1) = PerEvent * BufferSize + PerEvent
  BY <1>1, <1>2
<1>4. PerEvent * BufferSize \in Nat
  BY <1>1, <1>2
<1>5. wpc \notin {"off", "done", "select"} => InDispatch \in 2..PerEvent
  <2> SUFFICES ASSUME wpc \notin {"off", "done", "select"} PROVE InDispatch \in 2..PerEvent
    OBVIOUS
  <2>1. /\ wpc \in {"dispatch", "loop", "wait", "post", "inflight"}
        /\ attempt \in 0..(MaxRetries + 1)
    BY DEF Inv1, TypeOK, WorkerOK
  <2>2. Offset[wpc] \in 2..6
    BY <2>1, OffsetIs
  <2>3. 4 * (MaxRetries + 1 - attempt) \in 0..(4 * MaxRetries + 4)
    BY <1>1, <2>1
  <2>4. QED
    BY <1>1, <2>2, <2>3 DEF InDispatch, PerEvent
<1>6. QED
  BY <1>1, <1>3, <1>4, <1>5 DEF Left

\* Each step of the worker leaves it less to do.
LEMMA WorkerProgress ==
  ASSUME Inv1, Anew, WorkerStep
  PROVE  Left' \in Int /\ Left' < Left
<1> USE ConfigAssumption DEF ConfigAssumption, Validate
<1>1. /\ MaxRetries \in Nat /\ PerEvent = 4 * MaxRetries + 10
      /\ attempt \in Nat /\ attempt <= MaxRetries + 1
  BY DEF Inv1, TypeOK, WorkerOK, PerEvent
<1>2. /\ Left \in Nat /\ PerEvent \in Nat /\ PerEvent * Len(queue) \in Nat
  BY LeftIsBounded
<1>3. CASE Receive
  <2>1. Len(queue) \in Nat \ {0} /\ Len(queue') = Len(queue) - 1
    BY <1>3 DEF Receive, Inv1, TypeOK, QueueOK
  <2>2. PerEvent * Len(queue) = PerEvent * (Len(queue) - 1) + PerEvent
    BY <1>2, <2>1
  <2>3. Left = PerEvent * (Len(queue) - 1) + PerEvent + 1
    BY <1>3, <2>2 DEF Receive, Left
  <2>4. wpc' = "dispatch" /\ attempt' = attempt /\ attempt = 0
    BY <1>3 DEF Receive, Anew
  <2>5. InDispatch' = 4 * (MaxRetries + 1 - 0) + Offset["dispatch"]
    BY <2>4 DEF InDispatch
  <2>6. InDispatch' = PerEvent
    BY <1>1, <2>5, OffsetIs
  <2>7. Left' = PerEvent * (Len(queue) - 1) + PerEvent
    BY <2>1, <2>4, <2>6 DEF Left
  <2>8. PerEvent * (Len(queue) - 1) \in Nat
    BY <1>2, <2>1
  <2>9. QED
    BY <1>2, <2>3, <2>7, <2>8
<1>4. CASE Exit
  BY <1>2, <1>4 DEF Exit, Left
<1> DEFINE busy == {"dispatch", "loop", "wait", "post", "inflight"}
<1>5. ASSUME wpc \in busy, UNCHANGED queue,
             \/ wpc' = "select"
             \/ wpc' \in busy /\ attempt' = attempt /\ Offset[wpc'] < Offset[wpc]
             \/ wpc' = "loop" /\ attempt' = attempt + 1 /\ wpc \in {"post", "inflight"}
      PROVE  Left' \in Int /\ Left' < Left
  <2>1. Left = PerEvent * Len(queue) + InDispatch
    BY <1>5 DEF Left
  <2>2. Offset[wpc] \in 2..6 /\ 4 * (MaxRetries + 1 - attempt) \in Nat
    BY <1>1, <1>5, OffsetIs
  <2>3. CASE wpc' = "select"
    <3>1. Left' = PerEvent * Len(queue) + 1
      BY <1>5, <2>3 DEF Left
    <3>2. QED
      BY <1>2, <2>1, <2>2, <3>1 DEF InDispatch
  <2>4. CASE wpc' \in busy /\ attempt' = attempt /\ Offset[wpc'] < Offset[wpc]
    <3>1. Left' = PerEvent * Len(queue) + InDispatch'
      BY <1>5, <2>4 DEF Left
    <3>2. InDispatch' = 4 * (MaxRetries + 1 - attempt) + Offset[wpc'] /\ Offset[wpc'] \in 2..6
      BY <2>4, OffsetIs DEF InDispatch
    <3>3. InDispatch = 4 * (MaxRetries + 1 - attempt) + Offset[wpc]
      BY DEF InDispatch
    <3>4. InDispatch' < InDispatch /\ InDispatch' \in Int /\ InDispatch \in Int
      <4> HIDE DEF InDispatch
      <4> QED
        BY <2>2, <2>4, <3>2, <3>3
    <3>5. QED
      BY <1>2, <2>1, <3>1, <3>4
  <2>5. CASE wpc' = "loop" /\ attempt' = attempt + 1 /\ wpc \in {"post", "inflight"}
    <3>1. Left' = PerEvent * Len(queue) + InDispatch'
      BY <1>5, <2>5 DEF Left
    <3>2. InDispatch' = 4 * (MaxRetries - attempt) + 5
      BY <1>1, <2>5, OffsetIs DEF InDispatch
    <3>3. InDispatch >= 4 * (MaxRetries + 1 - attempt) + 2
      BY <1>1, <2>2, <2>5 DEF InDispatch
    <3>4. 4 * (MaxRetries + 1 - attempt) = 4 * (MaxRetries - attempt) + 4
      BY <1>1
    <3>5. InDispatch' < InDispatch
      BY <1>1, <2>2, <3>2, <3>3, <3>4 DEF InDispatch
    <3>6. InDispatch' \in Int /\ InDispatch \in Int
      BY <1>1, <2>2, <3>2 DEF InDispatch
    <3>7. QED
      BY <1>2, <2>1, <3>1, <3>5, <3>6
  <2>6. QED
    BY <1>5, <2>3, <2>4, <2>5
<1>6. CASE CheckTTL
  BY <1>5, <1>6, OffsetIs DEF CheckTTL, Conclude, Done
<1>7. CASE Post
  BY <1>5, <1>7, OffsetIs DEF Post, NextAttempt
<1>8. CASE RequestError
  BY <1>5, <1>8 DEF RequestError, NextAttempt
<1>9. CASE Respond
  BY <1>5, <1>9 DEF Respond, NextAttempt, Conclude, Done
<1>10. CASE Loop
  BY <1>5, <1>10, OffsetIs DEF Loop, Conclude, Done
<1>11. CASE Wake
  BY <1>5, <1>11, OffsetIs DEF Wake, Conclude, Done
<1>12. CASE CancelWait
  BY <1>5, <1>12 DEF CancelWait, Done
<1>13. QED
  BY <1>3, <1>4, <1>6, <1>7, <1>8, <1>9, <1>10, <1>11, <1>12 DEF WorkerStep

\* Close leaves the worker at most PerEvent steps for each event in the queue and for the one
\* in hand, retries and backoffs included, and every step it takes is one of them (client.go,
\* Close and dispatch): with the fairness of the runs, Close returns.
THEOREM CloseWindsDown == Spec => WindsDown /\ [](Left \in 0..(PerEvent * (BufferSize + 1) + 1))
<1>1. Inv1 /\ Anew => Left \in 0..(PerEvent * (BufferSize + 1) + 1)
  <2>1. PerEvent * (BufferSize + 1) + 1 \in Int
    BY ConfigAssumption DEF ConfigAssumption, Validate, PerEvent
  <2>2. QED
    BY <2>1, LeftIsBounded
<1>2. Inv1 /\ Inv2 /\ Anew /\ [Next]_vars
        => [closed => Left' <= Left /\ (WorkerStep => Left' < Left)]_vars
  <2> SUFFICES ASSUME Inv1, Inv2, Anew, [Next]_vars, closed
               PROVE  Left' <= Left /\ (WorkerStep => Left' < Left)
    OBVIOUS
  <2>0. Left \in Nat
    BY LeftIsBounded
  <2>1. CASE WorkerStep
    <3>1. Left' \in Int /\ Left' < Left
      BY <2>1, WorkerProgress
    <3>2. QED
      BY <2>0, <3>1
  <2>2. CASE ~WorkerStep
    <3>1. UNCHANGED <<wpc, queue, attempt>>
      <4>1. \A q \in Producers : sending[q] = NoEvent
        BY DEF Inv2, ReadLocked
      <4>2. CASE \/ CancelContext \/ HAAnswers \/ Tick \/ UNCHANGED vars
                 \/ \E e \in Events : EnqueueClosed(e) \/ HALate(e)
                 \/ \E c \in Closers : CloseBegin(c) \/ CloseChan(c) \/ CloseReturn(c)
        BY <4>2 DEF CancelContext, HAAnswers, Tick, vars, EnqueueClosed, HALate, CloseBegin,
                    CloseChan, CloseReturn, worker
      <4>3. CASE \/ Start
                 \/ \E q \in Producers : EnqueueSend(q) \/ \E e \in Events : EnqueueOpen(q, e)
        BY <4>1, <4>3 DEF Start, EnqueueSend, EnqueueOpen
      <4>4. QED
        BY <2>2, <4>2, <4>3 DEF Next
    <3>2. Left' = Left
      BY <3>1 DEF Left, InDispatch
    <3>3. QED
      BY <2>0, <2>2, <3>2
  <2>3. QED
    BY <2>1, <2>2
<1>3. QED
  BY Typed, LockedOut, CountsAnew, <1>1, <1>2, PTL DEF Spec, WindsDown

\* The requests with an event that have reached Home Assistant or may still do so.
Sent(e) == delivered[e] + stray[e] + (IF e = ev /\ req = "sent" THEN 1 ELSE 0)

\* Once the context is done no request comes to those under way.
NothingSent == [][ctxDone => \A e \in Events : Sent(e)' <= Sent(e)]_vars

\* What a step of the worker sends once the context is done: nothing (client.go, dispatch).
LEMMA WorkerSendsNothing ==
  ASSUME Inv1, Inv4, ctxDone, WorkerStep, NEW e \in Events
  PROVE  Sent(e)' <= Sent(e)
<1>1. delivered[e] \in Nat /\ stray[e] \in Nat
  BY DEF Inv1, TypeOK, CountsOK
<1>2. req = "sent" => wpc = "inflight"
  BY DEF Inv4, Counted
<1>3. ASSUME UNCHANGED <<delivered, stray>>, req' # "sent" PROVE Sent(e)' <= Sent(e)
  BY <1>1, <1>3 DEF Sent
<1>4. CASE Receive \/ Exit
  BY <1>2, <1>3, <1>4 DEF Receive, Exit, outside
<1>5. CASE CheckTTL \/ Loop \/ Wake
  BY <1>2, <1>3, <1>5 DEF CheckTTL, Loop, Wake, Conclude, Done, outside
<1>6. CASE Post
  BY <1>3, <1>6 DEF Post, NextAttempt
<1>7. CASE RequestError
  <2>1. req' = "none" /\ ev' = ev /\ delivered' = delivered
    BY <1>7 DEF RequestError, NextAttempt
  <2>2. CASE req = "sent" /\ stray' = [stray EXCEPT ![ev] = @ + 1]
    <3>1. stray'[e] = IF e = ev THEN stray[e] + 1 ELSE stray[e]
      BY <2>2 DEF Inv1, TypeOK, CountsOK
    <3>2. QED
      BY <1>1, <2>1, <2>2, <3>1 DEF Sent
  <2>3. CASE UNCHANGED stray
    BY <1>3, <2>1, <2>3
  <2>4. QED
    BY <1>7, <2>2, <2>3 DEF RequestError
<1>8. CASE Respond
  BY <1>3, <1>8 DEF Respond, NextAttempt, Conclude, Done
<1>9. CASE CancelWait
  BY <1>3, <1>9 DEF CancelWait, Done, outside
<1>10. QED
  BY <1>4, <1>5, <1>6, <1>7, <1>8, <1>9 DEF WorkerStep

\* After the end of the context, by Close or by its owner, Home Assistant hears no more of
\* any event than was on its way then, whatever is left in the queue (client.go, dispatch:
\* each attempt is made with the worker's context).
THEOREM NothingSentOnceStopped == Spec => NothingSent
<1>1. Inv1 /\ Inv4 /\ [Next]_vars => [ctxDone => \A e \in Events : Sent(e)' <= Sent(e)]_vars
  <2> SUFFICES ASSUME Inv1, Inv4, [Next]_vars, ctxDone, NEW e \in Events
               PROVE  Sent(e)' <= Sent(e)
    OBVIOUS
  <2>0. delivered[e] \in Nat /\ stray[e] \in Nat
    BY DEF Inv1, TypeOK, CountsOK
  <2>1. CASE WorkerStep
    BY <2>1, WorkerSendsNothing
  <2>2. ASSUME UNCHANGED <<delivered, stray, ev, req>> PROVE Sent(e)' <= Sent(e)
    BY <2>0, <2>2 DEF Sent
  <2>3. CASE \/ Start \/ CancelContext \/ Tick \/ UNCHANGED vars
             \/ \E f \in Events : EnqueueClosed(f)
             \/ \E q \in Producers : EnqueueSend(q) \/ \E f \in Events : EnqueueOpen(q, f)
             \/ \E c \in Closers : CloseBegin(c) \/ CloseChan(c) \/ CloseReturn(c)
    BY <2>2, <2>3 DEF Start, CancelContext, Tick, vars, EnqueueClosed, EnqueueSend,
                      EnqueueOpen, CloseBegin, CloseChan, CloseReturn, worker, outside
  <2>4. CASE HAAnswers
    <3>1. req = "sent" /\ req' # "sent" /\ ev' = ev /\ stray' = stray
      BY <2>4 DEF HAAnswers, Answers
    <3>2. PICK n \in {0, 1} : delivered' = [delivered EXCEPT ![ev] = @ + n]
      BY <2>4 DEF HAAnswers
    <3>3. delivered'[e] = IF e = ev THEN delivered[e] + n ELSE delivered[e]
      BY <3>2 DEF Inv1, TypeOK, CountsOK
    <3>4. QED
      BY <2>0, <3>1, <3>3 DEF Sent
  <2>5. ASSUME NEW f \in Events, HALate(f) PROVE Sent(e)' <= Sent(e)
    <3>1. /\ stray[f] > 0 /\ ev' = ev /\ req' = req
          /\ stray'[e] = IF e = f THEN stray[e] - 1 ELSE stray[e]
          /\ delivered'[e] = IF e = f THEN delivered[e] + 1 ELSE delivered[e]
      BY <2>5 DEF HALate, worker, Inv1, TypeOK, CountsOK
    <3>2. QED
      BY <2>0, <3>1 DEF Sent
  <2>6. QED
    BY <2>1, <2>3, <2>4, <2>5 DEF Next
<1>2. QED
  BY Typed, Justified, <1>1, PTL DEF Spec, NothingSent
=============================================================================
