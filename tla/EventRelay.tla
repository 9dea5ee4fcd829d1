----------------------------- MODULE EventRelay -----------------------------
(***************************************************************************)
(* What internal/hass promises to its callers, with no goroutine, lock,    *)
(* timer or HTTP request in sight: a bounded FIFO line of events.  An      *)
(* offered event is either rejected at once or joins the end of the line;  *)
(* only the event at the head of the line leaves it, with one verdict that *)
(* never changes.  An event may leave without a verdict ("lost") only once *)
(* the relay has been stopped.                                             *)
(*                                                                         *)
(* HassDispatcher implements this specification.                           *)
(***************************************************************************)
EXTENDS Naturals, Sequences

CONSTANTS Events,    \* the events producers may offer
          Capacity   \* that many may wait, besides the one being delivered

VARIABLES line,      \* the events waiting, head first
          verdict,   \* what became of each event
          stopped,   \* the relay's context is done
          shut       \* no further event is accepted

rvars == <<line, verdict, stopped, shut>>

Verdicts == {"none", "overflow", "success", "failure", "expired", "lost"}

RTypeOK == /\ line \in Seq(Events)
           /\ verdict \in [Events -> Verdicts]
           /\ stopped \in BOOLEAN
           /\ shut \in BOOLEAN

Waiting == {line[i] : i \in 1..Len(line)}

RInit == /\ line = <<>>
         /\ verdict = [e \in Events |-> "none"]
         /\ stopped = FALSE
         /\ shut = FALSE

\* Enqueue returned true.
Accept(e) == /\ ~shut /\ Len(line) <= Capacity
             /\ verdict[e] = "none" /\ e \notin Waiting
             /\ line' = Append(line, e)
             /\ UNCHANGED <<verdict, stopped, shut>>

\* Enqueue returned false: the line is long enough or the client is closed.
Reject(e) == /\ shut \/ Len(line) >= Capacity
             /\ verdict[e] = "none" /\ e \notin Waiting
             /\ verdict' = [verdict EXCEPT ![e] = "overflow"]
             /\ UNCHANGED <<line, stopped, shut>>

\* The head of the line gets its verdict.
Settle == /\ line # <<>>
          /\ \E v \in {"success", "failure", "expired", "lost"} :
                /\ v = "lost" => stopped
                /\ verdict' = [verdict EXCEPT ![Head(line)] = v]
          /\ line' = Tail(line)
          /\ UNCHANGED <<stopped, shut>>

\* The context is cancelled, the client is closed, or both at once.
Halt == /\ stopped' \in {stopped, TRUE}
        /\ shut' \in {shut, TRUE}
        /\ UNCHANGED <<line, verdict>>

RNext == \/ \E e \in Events : Accept(e) \/ Reject(e)
         \/ Settle
         \/ Halt

RSpec == RInit /\ [][RNext]_rvars
=============================================================================
