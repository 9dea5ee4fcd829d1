--------------------------- MODULE CalendarEvents ---------------------------
(***************************************************************************)
(* The pure part of internal/calendar/poller.go and of FormatDisplayState: *)
(* which calendar items count, which of them is shown, and what is shown.  *)
(*                                                                         *)
(* Times are natural numbers; an item whose time is missing (an all-day    *)
(* event) or does not parse has NoTime.  A summary is its position in the  *)
(* order of strings.  E-mail addresses and states are compared regardless  *)
(* of case, so one value stands for all spellings.                         *)
(***************************************************************************)
EXTENDS Integers

CONSTANT Minute   \* units of time in a minute

ASSUME MinuteAssumption == Minute \in Nat \ {0}

NoTime == -1

\* activeEvent = ActiveEvent{Idle: true}
Idle == [idle |-> TRUE]

\* An attendee answers for the user: Google marks it, or it has the bound address.
IsUser(a, email) == a.self \/ (email # "" /\ a.email = email)

\* The user's answer decides; where nobody answers for the user, anybody's does.
IsDeclined(attendees, email) ==
  LET users == {a \in attendees : IsUser(a, email)}
      asked == IF users = {} THEN attendees ELSE users
  IN  \E a \in asked : a.response = "declined"

Eligible(item, email) == /\ item.status # "cancelled"
                         /\ item.transparency # "transparent"
                         /\ item.start # NoTime /\ item.end # NoTime
                         /\ ~IsDeclined(item.attendees, email)

Runs(ev, t) == ev.start <= t /\ t < ev.end

\* Mutant: the event that ends last comes first.
PrecedesLast(a, b) ==
  \/ a.end > b.end
  \/ a.end = b.end /\ a.start > b.start
  \/ a.end = b.end /\ a.start = b.start /\ a.summary < b.summary

\* The order the active events are sorted by.
Precedes(a, b) ==
  \/ a.end < b.end
  \/ a.end = b.end /\ a.start > b.start
  \/ a.end = b.end /\ a.start = b.start /\ a.summary < b.summary

ActiveEvent(item) ==
  [idle |-> FALSE, summary |-> item.summary, start |-> item.start, end |-> item.end]

\* What a poll at time t caches, given the items of the answer: the first of the
\* sorted active events.
Winner(items, email, t) ==
  LET active == {ActiveEvent(i) : i \in {j \in items : Eligible(j, email) /\ Runs(j, t)}}
  IN  IF active = {} THEN Idle
      ELSE CHOOSE w \in active : \A o \in active : ~Precedes(o, w)

\* Mutant: the countdown is rounded down.
FormatCountdownFloor(remaining) ==
  LET minutes == IF remaining <= 0 THEN 0 ELSE remaining \div Minute
  IN  <<minutes \div 60, minutes % 60>>

\* Hours and minutes left, rounded up to the minute.
FormatCountdown(remaining) ==
  LET minutes == IF remaining <= 0 THEN 0 ELSE (remaining + Minute - 1) \div Minute
  IN  <<minutes \div 60, minutes % 60>>

\* Mutant: the cached event is shown past its end.
CurrentEventLate(cached, t) ==
  IF cached.idle \/ t < cached.start THEN Idle ELSE cached

\* GetCurrentEvent: the cached event, if it runs at the time of the question.
CurrentEvent(cached, t) ==
  IF cached.idle THEN Idle
  ELSE IF t >= cached.end \/ t < cached.start THEN Idle ELSE cached

\* FormatDisplayState: the date and the minute of the day, or the title and the
\* countdown, which GetCurrentEvent has computed for the same t.
DisplayState(ev, t) ==
  IF ev.idle THEN [mode |-> "idle", top |-> 0, bottom |-> <<0, t \div Minute>>]
  ELSE [mode |-> "busy", top |-> ev.summary, bottom |-> FormatCountdown(ev.end - t)]
=============================================================================
