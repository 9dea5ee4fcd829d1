-------------------------- MODULE PushClientProofs --------------------------
(***************************************************************************)
(* Theorems about PushClient, for any number of goroutines that push,      *)
(* any number that close, and any number of frames: its safety, that it    *)
(* implements LatestMailbox, and that it winds down once it has been       *)
(* closed.                                                                 *)
(***************************************************************************)
EXTENDS PushClient, TLAPS

\* At most one pusher is inside PushFrame.
Mutex == \A p, q \in Pushers : pushing[p] # "idle" /\ pushing[q] # "idle" => p = q

\* The worker holds a frame exactly while it transmits.
Hand == cur # 0 <=> wpc \in {"transmit", "sending"}

Inv == TypeOK /\ Mutex /\ InsertNeverBlocks /\ Accounted /\ Hand

\* The inductive invariant.
LEMMA Inductive == Spec => []Inv
<1> USE PushAssumption DEF PushAssumption
<1>1. Init => Inv
  <2>1. ASSUME Init PROVE TypeOK
    <3>1. slot \in 0..accepted /\ cur \in 0..accepted
      BY <2>1 DEF Init
    <3>2. /\ pushing \in [Pushers -> {"idle", "try", "evict", "insert"}]
          /\ closing \in [Closers -> {"idle", "flagged", "waiting", "returned"}]
      BY <2>1 DEF Init
    <3>3. QED
      BY <2>1, <3>1, <3>2 DEF Init, TypeOK
  <2>2. Init => Mutex /\ InsertNeverBlocks
    BY DEF Init, Mutex, InsertNeverBlocks
  <2>3. Init => Accounted /\ Hand
    BY DEF Init, Accounted, Hand
  <2>4. QED
    BY <2>1, <2>2, <2>3 DEF Inv
<1>2. Inv /\ [Next]_vars => Inv'
  <2> SUFFICES ASSUME Inv, [Next]_vars PROVE Inv'
    OBVIOUS
  <2> USE DEF Inv, TypeOK, Mutex, InsertNeverBlocks, Accounted, Hand
  <2>1. CASE StartFlag \/ StartCancel \/ CancelContext \/ UNCHANGED vars
    BY <2>1 DEF StartFlag, StartCancel, CancelContext, mailbox, sender, lifecycle, vars
  <2>2. CASE StartLaunch
    BY <2>2 DEF StartLaunch, lifecycle, mailbox
  <2>3. ASSUME NEW p \in Pushers, PushBegin(p) PROVE Inv'
    BY <2>3 DEF PushBegin, Locked, lifecycle, sender
  <2>4. ASSUME NEW p \in Pushers, PushTry(p) PROVE Inv'
    BY <2>4 DEF PushTry, Put, lifecycle, sender
  <2>5. ASSUME NEW p \in Pushers, PushEvict(p) PROVE Inv'
    BY <2>5 DEF PushEvict, RecordPushDrop, lifecycle, sender
  <2>6. ASSUME NEW p \in Pushers, PushInsert(p) PROVE Inv'
    BY <2>6 DEF PushInsert, Put, lifecycle, sender
  <2>7. CASE Take
    BY <2>7 DEF Take, lifecycle
  <2>8. CASE Attempt
    BY <2>8 DEF Attempt, RecordPushAttempt, lifecycle, mailbox
  <2>9. CASE Result
    BY <2>9 DEF Result, RecordPushResult, lifecycle, mailbox
  <2>10. CASE Exit
    BY <2>10 DEF Exit, lifecycle, mailbox
  <2>11. ASSUME NEW c \in Closers, CloseFlag(c) PROVE Inv'
    BY <2>11 DEF CloseFlag, mailbox, sender
  <2>12. ASSUME NEW c \in Closers, CloseCancel(c) PROVE Inv'
    BY <2>12 DEF CloseCancel, mailbox, sender
  <2>13. ASSUME NEW c \in Closers, CloseReturn(c) PROVE Inv'
    BY <2>13 DEF CloseReturn, mailbox, sender
  <2>14. QED
    BY <2>1, <2>2, <2>3, <2>4, <2>5, <2>6, <2>7, <2>8, <2>9, <2>10, <2>11, <2>12,
       <2>13 DEF Next
<1>3. QED
  BY <1>1, <1>2, PTL DEF Spec

\* PushFrame's blocking send never blocks, whatever races with it.
THEOREM NeverBlocks == Spec => []InsertNeverBlocks
<1>1. Inv => InsertNeverBlocks
  BY DEF Inv
<1>2. QED
  BY Inductive, <1>1, PTL

\* No frame is lost or counted twice: the telemetry counters account for every
\* frame that entered the mailbox and for the result of every attempt.
THEOREM CountersAgree == Spec => []Accounted
<1>1. Inv => Accounted
  BY DEF Inv
<1>2. QED
  BY Inductive, <1>1, PTL

\* The variables keep their types.
THEOREM TypeCorrect == Spec => []TypeOK
<1>1. Inv => TypeOK
  BY DEF Inv
<1>2. QED
  BY Inductive, <1>1, PTL

-----------------------------------------------------------------------------
(* The push client implements the mailbox of LatestMailbox.                *)

\* The new frame counts as put as soon as the older one has been taken out.
Inserting == \E p \in Pushers : pushing[p] = "insert"

\* The newest frame wins: PushFrame replaces nothing but an older frame, and the
\* frames reach the worker in the order in which they were pushed.
THEOREM ImplementsMailbox == Spec => MailboxSpec
<1>1. Init => Mailbox!MInit
  BY DEF Init, Mailbox!MInit
<1>2. Inv /\ Inv' /\ [Next]_vars
        => [Mailbox!MPut \/ Mailbox!MTake \/ Mailbox!MFinish]_(Mailbox!mvars)
  <2> SUFFICES ASSUME Inv, Inv', [Next]_vars
               PROVE  \/ Mailbox!MPut \/ Mailbox!MTake \/ Mailbox!MFinish
                      \/ UNCHANGED Mailbox!mvars
    OBVIOUS
  <2> USE DEF Inv, TypeOK
  <2>1. ASSUME UNCHANGED <<pushing, slot, accepted, dropped, cur>>
        PROVE  UNCHANGED Mailbox!mvars
    BY <2>1 DEF Mailbox!mvars
  <2>2. CASE StartFlag \/ StartCancel \/ StartLaunch \/ CancelContext \/ Attempt \/ Exit \/ UNCHANGED vars
    BY <2>1, <2>2 DEF StartFlag, StartCancel, StartLaunch, CancelContext, Attempt, Exit, mailbox,
                      sender, vars
  <2>3. ASSUME NEW c \in Closers, CloseFlag(c) \/ CloseCancel(c) \/ CloseReturn(c)
        PROVE  UNCHANGED Mailbox!mvars
    BY <2>1, <2>3 DEF CloseFlag, CloseCancel, CloseReturn, mailbox, sender
  <2>4. ASSUME NEW p \in Pushers, PushBegin(p) PROVE UNCHANGED Mailbox!mvars
    <3>1. ~Inserting /\ ~Inserting'
      BY <2>4 DEF PushBegin, Locked, Inserting
    <3>2. QED
      BY <2>4, <3>1 DEF PushBegin, sender, Inserting, Mailbox!mvars
  <2>5. ASSUME NEW p \in Pushers, PushTry(p)
        PROVE  Mailbox!MPut \/ UNCHANGED Mailbox!mvars
    <3>1. ~Inserting /\ ~Inserting'
      BY <2>5 DEF PushTry, Put, Mutex, Inserting
    <3>2. QED
      BY <2>5, <3>1 DEF PushTry, Put, sender, Inserting, Mailbox!mvars, Mailbox!MPut
  <2>6. ASSUME NEW p \in Pushers, PushEvict(p) PROVE Mailbox!MPut
    <3>1. ~Inserting /\ Inserting'
      BY <2>6 DEF PushEvict, Mutex, Inserting
    <3>2. QED
      BY <2>6, <3>1 DEF PushEvict, RecordPushDrop, sender, Inserting, Mailbox!MPut
  <2>7. ASSUME NEW p \in Pushers, PushInsert(p) PROVE UNCHANGED Mailbox!mvars
    <3>1. Inserting /\ ~Inserting'
      BY <2>7 DEF PushInsert, Put, Mutex, Inserting
    <3>2. QED
      BY <2>7, <3>1 DEF PushInsert, Put, sender, Inserting, Mailbox!mvars
  <2>8. CASE Take
    <3>1. ~Inserting /\ ~Inserting'
      BY <2>8 DEF Take, InsertNeverBlocks, Inserting
    <3>2. Mailbox!MTake
      BY <2>8, <3>1 DEF Take, Hand, Inserting, Mailbox!MTake
    <3>3. QED
      BY <3>2
  <2>9. CASE Result
    <3>1. Mailbox!MFinish
      BY <2>9 DEF Result, Hand, mailbox, Mailbox!MFinish
    <3>2. QED
      BY <3>1
  <2>10. QED
    BY <2>2, <2>3, <2>4, <2>5, <2>6, <2>7, <2>8, <2>9 DEF Next
<1>3. QED
  BY Inductive, <1>1, <1>2, PTL DEF Spec, MailboxSpec, Mailbox!MSpec

-----------------------------------------------------------------------------
(* The end.  What CloseReturns needs beside fairness: after Close has set  *)
(* its flag the worker and whoever is inside PushFrame have a bounded      *)
(* number of steps left, and few requests go to the device.                *)

At(where) == \E p \in Pushers : pushing[p] = where

\* Steps left at most: of the worker, for the frame in the slot, of the pusher inside.
WorkerLeft == CASE wpc = "transmit" -> 3 [] wpc \in {"off", "sending"} -> 2
                [] wpc = "select" -> 1 [] OTHER -> 0
SlotLeft   == IF slot # 0 THEN 4 ELSE 0
PusherLeft == IF At("try") THEN 7 ELSE IF At("evict") THEN 6 ELSE IF At("insert") THEN 5 ELSE 0
Left       == WorkerLeft + SlotLeft + PusherLeft

WorkerStep    == StartLaunch \/ Take \/ Attempt \/ Result \/ Exit
PusherStep(p) == PushTry(p) \/ PushEvict(p) \/ PushInsert(p)

\* Once Close has set its flag, every step of the worker or of a pusher leaves them less,
\* and no other step leaves them more.
WindsDown == [][closed => /\ Left' <= Left
                          /\ WorkerStep \/ (\E p \in Pushers : PusherStep(p)) => Left' < Left]_vars

\* Requests that are still to come: of the frame in hand, in the slot, and being pushed.
Coming == (IF wpc = "transmit" THEN 1 ELSE 0) + (IF slot # 0 THEN 1 ELSE 0)
            + (IF Locked THEN 1 ELSE 0)
LastRequests == [][closed => attempts' + Coming' <= attempts + Coming]_vars

\* Where the pushers are when one of them has made its step: nowhere, but for that one.
LEMMA Moves ==
  ASSUME Inv, NEW p \in Pushers, pushing[p] # "idle",
         NEW where \in {"idle", "try", "evict", "insert"},
         pushing' = [pushing EXCEPT ![p] = where]
  PROVE  /\ \A w \in {"try", "evict", "insert"} : At(w) <=> pushing[p] = w
         /\ \A w \in {"try", "evict", "insert"} : At(w)' <=> where = w
         /\ Locked /\ (Locked' <=> where # "idle")
<1>1. \A q \in Pushers : q # p => pushing[q] = "idle" /\ pushing'[q] = "idle"
  BY DEF Inv, TypeOK, Mutex
<1>2. pushing'[p] = where
  BY DEF Inv, TypeOK
<1>3. QED
  BY <1>1, <1>2 DEF At, Locked

\* A pusher that makes a step has less to do, and sends no more than it was going to.
LEMMA PusherProgress ==
  ASSUME Inv, NEW p \in Pushers, PusherStep(p)
  PROVE  Left' < Left /\ attempts' + Coming' <= attempts + Coming
<1> USE DEF Left, WorkerLeft, SlotLeft, PusherLeft, Coming, sender
<1>0. attempts \in Nat
  BY DEF Inv, TypeOK
<1>1. CASE PushTry(p)
  <2>1. CASE Put(p) /\ UNCHANGED dropped
    <3>1. pushing[p] = "try" /\ pushing' = [pushing EXCEPT ![p] = "idle"] /\ slot = 0
          /\ UNCHANGED <<wpc, attempts>>
      BY <1>1, <2>1 DEF PushTry, Put
    <3>2. /\ At("try") /\ ~At("evict") /\ ~At("insert")
          /\ ~At("try")' /\ ~At("evict")' /\ ~At("insert")'
          /\ Locked /\ ~Locked'
      BY <3>1, Moves
    <3>3. QED
      BY <1>0, <3>1, <3>2
  <2>2. CASE slot # 0
    <3>1. pushing[p] = "try" /\ pushing' = [pushing EXCEPT ![p] = "evict"]
          /\ UNCHANGED <<wpc, attempts, slot>>
      BY <1>1, <2>2 DEF PushTry, Put
    <3>2. /\ At("try") /\ ~At("evict") /\ ~At("insert")
          /\ ~At("try")' /\ At("evict")' /\ ~At("insert")'
          /\ Locked /\ Locked'
      BY <3>1, Moves
    <3>3. QED
      BY <1>0, <3>1, <3>2
  <2>3. QED
    BY <1>1, <2>1, <2>2 DEF PushTry
<1>2. CASE PushEvict(p)
  <2>1. pushing[p] = "evict" /\ pushing' = [pushing EXCEPT ![p] = "insert"] /\ slot' = 0
        /\ UNCHANGED <<wpc, attempts>>
    BY <1>2 DEF PushEvict
  <2>2. /\ ~At("try") /\ At("evict") /\ ~At("insert")
        /\ ~At("try")' /\ ~At("evict")' /\ At("insert")'
        /\ Locked /\ Locked'
    BY <2>1, Moves
  <2>3. QED
    BY <1>0, <2>1, <2>2
<1>3. CASE PushInsert(p)
  <2>1. pushing[p] = "insert" /\ pushing' = [pushing EXCEPT ![p] = "idle"] /\ slot = 0
        /\ UNCHANGED <<wpc, attempts>>
    BY <1>3 DEF PushInsert, Put
  <2>2. /\ ~At("try") /\ ~At("evict") /\ At("insert")
        /\ ~At("try")' /\ ~At("evict")' /\ ~At("insert")'
        /\ Locked /\ ~Locked'
    BY <2>1, Moves
  <2>3. QED
    BY <1>0, <2>1, <2>2
<1>4. QED
  BY <1>1, <1>2, <1>3 DEF PusherStep

\* So has the worker, and a request to come becomes one that was made.
LEMMA WorkerProgress ==
  ASSUME Inv, WorkerStep
  PROVE  Left' < Left /\ attempts' + Coming' <= attempts + Coming
<1> USE DEF Left, WorkerLeft, SlotLeft, PusherLeft, Coming, At, Locked, lifecycle, mailbox
<1>0. attempts \in Nat
  BY DEF Inv, TypeOK
<1>1. CASE StartLaunch
  BY <1>0, <1>1 DEF StartLaunch
<1>2. CASE Take
  BY <1>0, <1>2 DEF Take
<1>3. CASE Attempt
  BY <1>0, <1>3 DEF Attempt, RecordPushAttempt
<1>4. CASE Result
  BY <1>0, <1>4 DEF Result
<1>5. CASE Exit
  BY <1>0, <1>5 DEF Exit
<1>6. QED
  BY <1>1, <1>2, <1>3, <1>4, <1>5 DEF WorkerStep

\* The other steps after Close has set its flag: none of them enters PushFrame.
LEMMA OthersIdle ==
  ASSUME Inv, [Next]_vars, closed, ~WorkerStep, \A p \in Pushers : ~PusherStep(p)
  PROVE  Left' = Left /\ attempts' = attempts /\ Coming' = Coming
<1>1. UNCHANGED <<wpc, slot, pushing, attempts>>
  <2>1. CASE StartFlag \/ StartCancel \/ CancelContext \/ UNCHANGED vars
    BY <2>1 DEF StartFlag, StartCancel, CancelContext, mailbox, sender, vars
  <2>2. ASSUME NEW c \in Closers, CloseFlag(c) \/ CloseCancel(c) \/ CloseReturn(c)
        PROVE  UNCHANGED <<wpc, slot, pushing, attempts>>
    BY <2>2 DEF CloseFlag, CloseCancel, CloseReturn, mailbox, sender
  <2>3. ASSUME NEW p \in Pushers PROVE ~PushBegin(p)
    BY DEF PushBegin
  <2>4. QED
    BY <2>1, <2>2, <2>3 DEF Next, WorkerStep, PusherStep
<1>2. QED
  BY <1>1 DEF Left, WorkerLeft, SlotLeft, PusherLeft, At, Coming, Locked

\* Close leaves the worker and a pusher at most fourteen steps between them, whatever the
\* other pushers try, and each step they take is one of these (push.go, Close and the
\* worker): with the fairness of the runs, Close returns.
THEOREM CloseWindsDown == Spec => WindsDown /\ [](Left \in 0..14)
<1>1. Left \in 0..14
  BY DEF Left, WorkerLeft, SlotLeft, PusherLeft
<1>2. Inv /\ [Next]_vars
        => [closed => /\ Left' <= Left
                      /\ WorkerStep \/ (\E p \in Pushers : PusherStep(p)) => Left' < Left]_vars
  <2>1. Left' \in 0..14
    BY DEF Left, WorkerLeft, SlotLeft, PusherLeft
  <2>2. QED
    BY <1>1, <2>1, PusherProgress, WorkerProgress, OthersIdle
<1>3. QED
  BY Inductive, <1>1, <1>2, PTL DEF Spec, WindsDown

\* After Close has set its flag at most three more requests go to the device, that of a
\* PushFrame which had passed the test of the flag included (push.go).
THEOREM FewRequestsAfterClose == Spec => LastRequests /\ [](Coming \in 0..3)
<1>1. Coming \in 0..3
  BY DEF Coming
<1>2. Inv /\ [Next]_vars => [closed => attempts' + Coming' <= attempts + Coming]_vars
  <2>1. Coming' \in 0..3
    BY DEF Coming
  <2>2. Inv => attempts \in Nat
    BY DEF Inv, TypeOK
  <2>3. QED
    BY <1>1, <2>1, <2>2, PusherProgress, WorkerProgress, OthersIdle
<1>3. QED
  BY Inductive, <1>1, <1>2, PTL DEF Spec, LastRequests
=============================================================================
