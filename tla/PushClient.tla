----------------------------- MODULE PushClient -----------------------------
(***************************************************************************)
(* internal/busybar/push.go: PushFrame puts a frame into a channel of one  *)
(* slot, replacing the frame still in it; one worker goroutine POSTs the   *)
(* frames to the device.  Neither waits for the other: the worker does not *)
(* take mailboxMu, and Close takes no lock at all.                         *)
(*                                                                         *)
(* A frame is its number in the order in which frames enter the mailbox.   *)
(* What a frame shows and how it is encoded is left out, as are the calls  *)
(* of PushFrame that a disabled client or an empty frame ends at once.     *)
(***************************************************************************)
EXTENDS Naturals

CONSTANTS Pushers,    \* goroutines that call PushFrame
          Closers,    \* goroutines that call Close
          MaxFrames   \* bound on the frames pushed

ASSUME PushAssumption == MaxFrames \in Nat

VARIABLES
  started, cancelSet,  \* Start has swapped the flag; has stored c.cancel
  closed,              \* the closed flag
  ctxDone,             \* the worker's context is done
  pushing,             \* per pusher: "idle", or where it is inside PushFrame
  closing,             \* per caller of Close
  slot,                \* the frame in the mailbox, 0 if none
  wpc,                 \* where the worker is
  cur,                 \* the frame it transmits, 0 if none
  accepted,            \* frames that entered the mailbox
  dropped, attempts, successes, failures   \* the telemetry counters

lifecycle == <<started, cancelSet, closed, ctxDone, closing>>
mailbox   == <<pushing, slot, accepted, dropped>>
sender    == <<wpc, cur, attempts, successes, failures>>
vars      == <<lifecycle, mailbox, sender>>

-----------------------------------------------------------------------------

Init == /\ started = FALSE /\ cancelSet = FALSE /\ closed = FALSE /\ ctxDone = FALSE
        /\ pushing = [p \in Pushers |-> "idle"]
        /\ closing = [c \in Closers |-> "idle"]
        /\ slot = 0 /\ wpc = "off" /\ cur = 0
        /\ accepted = 0 /\ dropped = 0 /\ attempts = 0 /\ successes = 0 /\ failures = 0

\* Start swaps the flag, then stores the cancel function, then launches the worker.
\* Close reads c.cancel without synchronisation: it may see it or not.
StartFlag == /\ ~started
             /\ started' = TRUE
             /\ UNCHANGED <<cancelSet, closed, ctxDone, closing, mailbox, sender>>

StartCancel == /\ started /\ ~cancelSet
               /\ cancelSet' = TRUE
               /\ UNCHANGED <<started, closed, ctxDone, closing, mailbox, sender>>

StartLaunch == /\ cancelSet /\ wpc = "off"
               /\ wpc' = "select"
               /\ UNCHANGED <<lifecycle, mailbox, cur, attempts, successes, failures>>

\* The owner cancels the context it gave to Start.
CancelContext == /\ cancelSet /\ ~ctxDone
                 /\ ctxDone' = TRUE
                 /\ UNCHANGED <<started, cancelSet, closed, closing, mailbox, sender>>

\* Mutant: PushFrame without the mutex.
LockedNever == FALSE

\* mailboxMu is held by the pusher inside PushFrame.
Locked == \E p \in Pushers : pushing[p] # "idle"

\* PushFrame takes mailboxMu and finds the client open; otherwise it returns
\* ErrClientClosed and changes nothing.
PushBegin(p) == /\ pushing[p] = "idle" /\ ~Locked /\ ~closed
                /\ accepted < MaxFrames
                /\ pushing' = [pushing EXCEPT ![p] = "try"]
                /\ UNCHANGED <<lifecycle, slot, accepted, dropped, sender>>

\* Mutant: the numbering of the frames falls behind.
PutUncounted(p) == /\ slot = 0
                   /\ slot' = accepted + 1
                   /\ pushing' = [pushing EXCEPT ![p] = "idle"]
                   /\ UNCHANGED accepted

\* The frame enters the empty slot, and the mutex is released.
Put(p) == /\ slot = 0
          /\ accepted' = accepted + 1
          /\ slot' = accepted + 1
          /\ pushing' = [pushing EXCEPT ![p] = "idle"]

\* Mutant: a full mailbox turns the new frame away.
PushTryDropNew(p) == /\ pushing[p] = "try"
                     /\ \/ Put(p) /\ UNCHANGED dropped
                        \/ /\ slot # 0
                           /\ pushing' = [pushing EXCEPT ![p] = "idle"]
                           /\ dropped' = dropped + 1
                           /\ UNCHANGED <<slot, accepted>>
                     /\ UNCHANGED <<lifecycle, sender>>

\* The counters of telemetry.Store.
RecordPushDrop            == dropped' = dropped + 1
RecordPushAttempt         == attempts' = attempts + 1
RecordPushResult(success) == IF success THEN successes' = successes + 1 /\ UNCHANGED failures
                                        ELSE failures' = failures + 1 /\ UNCHANGED successes

\* The first, non-blocking send.
PushTry(p) == /\ pushing[p] = "try"
              /\ \/ Put(p)
                 \/ /\ slot # 0
                    /\ pushing' = [pushing EXCEPT ![p] = "evict"]
                    /\ UNCHANGED <<slot, accepted>>
              /\ UNCHANGED <<lifecycle, dropped, sender>>

\* Mutant: the drop is counted although the worker has emptied the slot.
PushEvictAlways(p) == /\ pushing[p] = "evict"
                      /\ pushing' = [pushing EXCEPT ![p] = "insert"]
                      /\ slot' = 0
                      /\ dropped' = dropped + 1
                      /\ UNCHANGED <<lifecycle, accepted, sender>>

\* The older frame is taken out, unless the worker has been faster.
PushEvict(p) == /\ pushing[p] = "evict"
                /\ pushing' = [pushing EXCEPT ![p] = "insert"]
                /\ slot' = 0
                /\ IF slot # 0 THEN RecordPushDrop ELSE UNCHANGED dropped
                /\ UNCHANGED <<lifecycle, accepted, sender>>

\* The second send, which would wait for room.
PushInsert(p) == /\ pushing[p] = "insert"
                 /\ Put(p)
                 /\ UNCHANGED <<lifecycle, dropped, sender>>

\* The worker's select takes the frame, possibly although ctx is done.
Take == /\ wpc = "select" /\ slot # 0
        /\ cur' = slot /\ slot' = 0
        /\ wpc' = "transmit"
        /\ UNCHANGED <<lifecycle, pushing, accepted, dropped, attempts, successes, failures>>

\* transmit counts the attempt and sends the request.
Attempt == /\ wpc = "transmit"
           /\ RecordPushAttempt
           /\ wpc' = "sending"
           /\ UNCHANGED <<lifecycle, mailbox, cur, successes, failures>>

\* The one result of the attempt: 200 or 204, or any failure: encoding, another
\* status, a network error, the timeout, or the context's end.
Result == /\ wpc = "sending"
          /\ \E success \in BOOLEAN : RecordPushResult(success)
          /\ wpc' = "select" /\ cur' = 0
          /\ UNCHANGED <<lifecycle, mailbox, attempts>>

\* Mutant: the worker returns as soon as it sees the mailbox empty.
ExitWhenIdle == /\ wpc = "select" /\ slot = 0
                /\ wpc' = "done"
                /\ UNCHANGED <<lifecycle, mailbox, cur, attempts, successes, failures>>

Exit == /\ wpc = "select" /\ ctxDone
        /\ wpc' = "done"
        /\ UNCHANGED <<lifecycle, mailbox, cur, attempts, successes, failures>>

\* Close, in closeOnce: the flag ...
CloseFlag(c) == /\ closing[c] = "idle" /\ ~closed
                /\ closed' = TRUE
                /\ closing' = [closing EXCEPT ![c] = "flagged"]
                /\ UNCHANGED <<started, cancelSet, ctxDone, mailbox, sender>>

\* Mutant: Close waits for the worker without cancelling its context.
CloseCancelNot(c) == /\ closing[c] = "flagged"
                     /\ closing' = [closing EXCEPT ![c] = "waiting"]
                     /\ UNCHANGED <<started, cancelSet, closed, ctxDone, mailbox, sender>>

\* ... then the cancellation, if Start has got that far ...
CloseCancel(c) == /\ closing[c] = "flagged"
                  /\ ctxDone' = (ctxDone \/ cancelSet)
                  /\ closing' = [closing EXCEPT ![c] = "waiting"]
                  /\ UNCHANGED <<started, cancelSet, closed, mailbox, sender>>

\* ... then wg.Wait.  Any other call of Close waits for the first to return.
CloseReturn(c) == /\ \/ closing[c] = "waiting" /\ wpc \in {"off", "done"}
                     \/ /\ closing[c] = "idle"
                        /\ \E d \in Closers : closing[d] = "returned"
                  /\ closing' = [closing EXCEPT ![c] = "returned"]
                  /\ UNCHANGED <<started, cancelSet, closed, ctxDone, mailbox, sender>>

-----------------------------------------------------------------------------

Next == \/ StartFlag \/ StartCancel \/ StartLaunch \/ CancelContext
        \/ \E p \in Pushers : PushBegin(p) \/ PushTry(p) \/ PushEvict(p) \/ PushInsert(p)
        \/ Take \/ Attempt \/ Result \/ Exit
        \/ \E c \in Closers : CloseFlag(c) \/ CloseCancel(c) \/ CloseReturn(c)

Spec == Init /\ [][Next]_vars

\* Goroutines run; the request timeout bounds every request.
Fairness ==
  /\ WF_vars(Take \/ Attempt \/ Result \/ Exit)
  /\ WF_vars(StartCancel \/ StartLaunch)
  /\ \A p \in Pushers : WF_vars(PushTry(p) \/ PushEvict(p) \/ PushInsert(p))
  /\ \A c \in Closers : WF_vars(CloseCancel(c) \/ (closing[c] = "waiting" /\ CloseReturn(c)))

FairSpec == Spec /\ Fairness

-----------------------------------------------------------------------------
(* Properties.                                                             *)

TypeOK == /\ started \in BOOLEAN /\ cancelSet \in BOOLEAN /\ closed \in BOOLEAN
          /\ ctxDone \in BOOLEAN
          /\ pushing \in [Pushers -> {"idle", "try", "evict", "insert"}]
          /\ closing \in [Closers -> {"idle", "flagged", "waiting", "returned"}]
          /\ wpc \in {"off", "select", "transmit", "sending", "done"}
          /\ slot \in 0..accepted /\ cur \in 0..accepted
          /\ accepted \in Nat /\ dropped \in Nat
          /\ attempts \in Nat /\ successes \in Nat /\ failures \in Nat

\* PushFrame never blocks: when it comes to its second, blocking send, the slot is
\* empty, whatever the worker and the other pushers have done since the first.
InsertNeverBlocks == \A p \in Pushers : pushing[p] = "insert" => slot = 0

\* Every frame that entered the mailbox is in it, or was superseded, or is with the
\* worker, or has been attempted; and every attempt has exactly one result, but for
\* the one under way.
Accounted ==
  /\ accepted = dropped + attempts + (IF slot # 0 THEN 1 ELSE 0)
                                   + (IF wpc = "transmit" THEN 1 ELSE 0)
  /\ attempts = successes + failures + (IF wpc = "sending" THEN 1 ELSE 0)

\* The newest frame wins: it is superseded by nothing but a newer one, and frames are
\* taken and sent in the order in which they were pushed (when the device gets what a
\* request of an earlier frame carries is not the client's doing).
Mailbox == INSTANCE LatestMailbox WITH
             newest     <- IF \E p \in Pushers : pushing[p] = "insert"
                             THEN accepted + 1 ELSE accepted,
             cell       <- IF \E p \in Pushers : pushing[p] = "insert"
                             THEN accepted + 1 ELSE slot,
             inHand     <- cur,
             superseded <- dropped
MailboxSpec == Mailbox!MSpec

\* While the worker runs, a frame in the mailbox leaves it: it is transmitted, or a
\* newer frame takes its place.
MailboxDrains ==
  \A f \in 1..MaxFrames : (slot = f /\ wpc # "off") ~> (slot # f \/ ctxDone)

\* Close returns although requests fail or hang, if it can see Start's context.
CloseReturns ==
  \A c \in Closers : (closing[c] = "flagged" /\ cancelSet) ~> (closing[c] = "returned")

\* What the comment on Close says: once it has returned the worker is gone, or its context
\* is done and it is about to go.  Start does not look at the closed flag, and a Close that
\* comes before Start has stored the cancel function cancels nothing, so this fails: the
\* worker then runs with a live context.
CloseTerminatesWorker ==
  (\E c \in Closers : closing[c] = "returned") => wpc \in {"off", "done"} \/ ctxDone
=============================================================================
