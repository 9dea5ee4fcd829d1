------------------------ MODULE CalendarDisplayProofs ------------------------
(***************************************************************************)
(* Theorems about CalendarDisplay and the choice of CalendarEvents, for    *)
(* every calendar, horizon and keep-alive.                                 *)
(*                                                                         *)
(* The invariant behind them is Inv: what is cached is a meeting to be     *)
(* seen, and every frame was composed from such a meeting while it ran.    *)
(* StairIsKept is the part of the screen's convergence that is safety.     *)
(***************************************************************************)
EXTENDS CalendarDisplay, DisplayRendering, SequenceTheorems,
        WellFoundedInduction, TLAPS

LEMMA Least == ASSUME NEW S \in SUBSET Nat, S # {}
               PROVE  \E n \in S : \A m \in S : n <= m
  <1>. DEFINE R == OpToRel(<, Nat)
  <1>1. IsWellFoundedOn(R, Nat)
    BY NatLessThanWellFounded DEF OpToRel
  <1>2. PICK n \in S : \A m \in S : <<m, n>> \notin R
    <2>. HIDE DEF R
    <2>. QED BY <1>1, WFMin
  <1>3. \A m \in S : ~(m < n)
    BY <1>2 DEF OpToRel
  <1>. QED BY <1>3

Timed(e) == e.summary \in Nat /\ e.start \in Nat /\ e.end \in Nat /\ e.start < e.end

\* Of the events that run one comes before the others (poller.go, the sort).
LEMMA FirstExists == ASSUME NEW A, A # {}, \A e \in A : Timed(e)
                     PROVE  \E w \in A : \A o \in A : ~Precedes(o, w)
  <1>. DEFINE Ends == {e.end : e \in A}
  <1>1. PICK n \in Ends : \A m \in Ends : n <= m
    <2>1. Ends \in SUBSET Nat /\ Ends # {} BY DEF Timed
    <2>. HIDE DEF Ends
    <2>. QED BY <2>1, Least
  <1>. DEFINE B == {e \in A : e.end = n}
              Left == {e.end - e.start : e \in B}
  <1>2. PICK k \in Left : \A m \in Left : k <= m
    <2>1. B # {} BY <1>1
    <2>2. Left \in SUBSET Nat /\ Left # {} BY <2>1 DEF Timed
    <2>. HIDE DEF Left
    <2>. QED BY <2>2, Least
  <1>. DEFINE C == {e \in B : e.end - e.start = k}
              Names == {e.summary : e \in C}
  <1>3. PICK s \in Names : \A m \in Names : s <= m
    <2>1. C # {} BY <1>2
    <2>2. Names \in SUBSET Nat /\ Names # {} BY <2>1 DEF Timed
    <2>. HIDE DEF Names
    <2>. QED BY <2>2, Least
  <1>4. PICK w \in C : w.summary = s
    BY <1>3
  <1>5. ASSUME NEW o \in A PROVE ~Precedes(o, w)
    <2>1. w \in A /\ w.end = n /\ w.end - w.start = k
      BY <1>4
    <2>2. ~(o.end < w.end)
      BY <1>1, <2>1 DEF Timed
    <2>3. ~(o.end = w.end /\ o.start > w.start)
      <3>1. SUFFICES ASSUME o.end = w.end, o.start > w.start PROVE FALSE
        OBVIOUS
      <3>2. o.end - o.start \in Left
        BY <3>1, <2>1
      <3>3. k <= o.end - o.start
        BY <3>2, <1>2
      <3>. QED BY <3>1, <3>3, <2>1 DEF Timed
    <2>4. ~(o.end = w.end /\ o.start = w.start /\ o.summary < w.summary)
      <3>1. SUFFICES ASSUME o.end = w.end, o.start = w.start, o.summary < w.summary
                     PROVE FALSE
        OBVIOUS
      <3>2. o \in C
        BY <3>1, <2>1
      <3>3. s <= o.summary
        BY <3>2, <1>3
      <3>. QED BY <3>1, <3>3, <2>1, <1>4 DEF Timed
    <2>. QED BY <2>2, <2>3, <2>4 DEF Precedes
  <1>. QED BY <1>4, <1>5

\* The order in which Google lists the items, and that the sort is not stable, cannot
\* matter (poller.go, Poll): two events neither of which precedes the other are the same.
THEOREM OrderIsTotal ==
  ASSUME NEW i \in Items, NEW j \in Items, NEW t \in Nat, Runs(i, t), Runs(j, t),
         i.start # NoTime, j.start # NoTime,
         ~Precedes(ActiveEvent(i), ActiveEvent(j)), ~Precedes(ActiveEvent(j), ActiveEvent(i))
  PROVE  ActiveEvent(i) = ActiveEvent(j)
  <1>1. /\ i.summary \in Nat /\ i.start \in Nat /\ i.end \in Nat
        /\ j.summary \in Nat /\ j.start \in Nat /\ j.end \in Nat
    BY ItemsAssumption DEF Runs, NoTime
  <1>2. i.end = j.end /\ i.start = j.start /\ i.summary = j.summary
    BY <1>1 DEF Precedes, ActiveEvent
  <1>. QED BY <1>2 DEF ActiveEvent

Chosen(ev, t) == \E i \in Items : Eligible(i, Email) /\ Runs(i, t) /\ ev = ActiveEvent(i)

\* What a poll caches is idle or an eligible item that runs at its now.
LEMMA WinnerChosen == ASSUME NEW items \in SUBSET Items, NEW t \in Nat
                      PROVE  Winner(items, Email, t) = Idle \/ Chosen(Winner(items, Email, t), t)
  <1>. DEFINE Good == {j \in items : Eligible(j, Email) /\ Runs(j, t)}
              active == {ActiveEvent(i) : i \in Good}
  <1>1. CASE active = {}
    BY <1>1 DEF Winner
  <1>2. CASE active # {}
    <2>1. \A e \in active : Timed(e)
      BY ItemsAssumption DEF Timed, ActiveEvent, Eligible, Runs, NoTime
    <2>2. \E w \in active : \A o \in active : ~Precedes(o, w)
      <3>. HIDE DEF active
      <3>. QED BY <1>2, <2>1, FirstExists
    <2>3. Winner(items, Email, t) \in active
      BY <1>2, <2>2 DEF Winner
    <2>. QED BY <2>3 DEF Chosen
  <1>. QED BY <1>1, <1>2

\* Rounded up, what is left of a meeting that runs is never nothing.
LEMMA CountdownPositive == ASSUME NEW r \in Nat, r > 0 PROVE FormatCountdown(r) # <<0, 0>>
  <1>. DEFINE a == r + Minute - 1
              q == a \div Minute
  <1>1. Minute \in Nat /\ Minute > 0 /\ a \in Nat /\ a >= Minute
    BY MinuteAssumption
  <1>2. q \in Nat /\ q > 0
    <2>. HIDE DEF a
    <2>. QED BY <1>1
  <1>3. ~(q \div 60 = 0 /\ q % 60 = 0)
    <2>. HIDE DEF q
    <2>. QED BY <1>2
  <1>. QED BY <1>3 DEF FormatCountdown

Seen(f, c) == f.mode = "busy" =>
  /\ f.bottom # <<0, 0>>
  /\ \E i \in Items, t \in 0..c :
       /\ Wanted(i) /\ i.start <= t /\ t < i.end
       /\ f = [mode |-> "busy", top |-> i.summary, bottom |-> FormatCountdown(i.end - t)]

Everything == {state, lastState, cell, inHand, late, screen}

Cached == activeEvent = Idle \/ \E t \in Nat : Chosen(activeEvent, t)

Inv == /\ TypeOK
       /\ Cached
       /\ ~bound => activeEvent = Idle /\ ppc = "poll"
       /\ ReportedIsCached
       /\ \A f \in Everything : Seen(f, clock)

LEMMA ChosenIsWanted == ASSUME NEW i \in Items, Eligible(i, Email) PROVE Wanted(i)
  BY DEF Eligible, IsDeclined, Wanted

\* What Step is about to show is a screen, and it was composed now.
LEMMA ShownSeen == ASSUME Inv PROVE Shown \in Screens /\ Seen(Shown, clock)
  <1>. DEFINE ev == CurrentEvent(activeEvent, clock)
  <1>1. CASE ev = Idle
    <2>1. Shown = DisplayState(Idle, clock) /\ Shown.mode = "idle"
      BY <1>1 DEF Shown, DisplayState, Idle
    <2>2. clock \in 0..Horizon
      BY DEF Inv, TypeOK
    <2>. QED BY <2>1, <2>2 DEF Screens, Seen
  <1>2. CASE ev # Idle
    <2>1. /\ ev = activeEvent /\ ~activeEvent.idle
          /\ activeEvent.start <= clock /\ clock < activeEvent.end
          /\ activeEvent # Idle /\ clock \in Nat /\ clock \in 0..Horizon
      <3>1. ~activeEvent.idle /\ ~(clock >= activeEvent.end \/ clock < activeEvent.start)
            /\ ev = activeEvent
        BY <1>2 DEF CurrentEvent
      <3>2. activeEvent # Idle /\ clock \in Nat /\ clock \in 0..Horizon
        BY <3>1, DisplayAssumption DEF Inv, TypeOK, Idle
      <3>3. activeEvent.start \in Int /\ activeEvent.end \in Int
        BY <3>2, ItemsAssumption DEF Inv, Cached, Chosen, ActiveEvent, NoTime
      <3>. QED BY <3>1, <3>2, <3>3
    <2>2. PICK i \in Items : Eligible(i, Email) /\ activeEvent = ActiveEvent(i)
      BY <2>1 DEF Inv, Cached, Chosen
    <2>3. /\ i.start \in Nat /\ i.end \in Nat
          /\ i.start <= clock /\ clock < i.end
          /\ Shown = [mode |-> "busy", top |-> i.summary,
                      bottom |-> FormatCountdown(i.end - clock)]
      BY <2>1, <2>2, ItemsAssumption DEF ActiveEvent, Eligible, NoTime, Shown, DisplayState
    <2>4. FormatCountdown(i.end - clock) # <<0, 0>>
      BY <2>1, <2>3, CountdownPositive
    <2>5. Wanted(i)
      BY <2>2, ChosenIsWanted
    <2>6. Shown \in Screens
      BY <2>1, <2>3 DEF Screens
    <2>7. Shown.bottom # <<0, 0>>
      BY <2>3, <2>4
    <2>. QED BY <2>1, <2>3, <2>5, <2>6, <2>7 DEF Seen
  <1>. QED BY <1>1, <1>2

LEMMA SeenLater == ASSUME NEW c \in Nat, NEW d \in Nat, c <= d, NEW f, Seen(f, c)
                   PROVE  Seen(f, d)
  <1>1. 0..c \subseteq 0..d
    OBVIOUS
  <1>. QED BY <1>1 DEF Seen

LEMMA BlankSeen == ASSUME NEW c PROVE Seen(Blank, c)
  BY DEF Seen, Blank

LEMMA InvInit == Init => Inv
  <1>. SUFFICES ASSUME Init PROVE Inv
    OBVIOUS
  <1>1. TypeOK
    BY DisplayAssumption DEF Init, TypeOK, Events
  <1>2. \A f \in Everything : f = Blank
    BY DEF Init, Everything
  <1>3. ReportedIsCached
    BY DEF Init, ReportedIsCached, Idle
  <1>. QED BY <1>1, <1>2, <1>3, BlankSeen DEF Init, Inv, Cached

\* A step of the world outside: only the clock and the screen matter.
LEMMA OutsideStep ==
  ASSUME Inv, TypeOK', clock <= clock', bound => bound', UNCHANGED <<poller, orch>>,
         {cell', inHand', late', screen'} \subseteq {cell, inHand, late, screen, Blank}
  PROVE  Inv'
  <1>1. clock \in Nat /\ clock' \in Nat
    BY DisplayAssumption DEF Inv, TypeOK
  <1>2. \A f \in Everything' : f \in Everything \/ f = Blank
    BY DEF Everything, orch
  <1>3. \A f \in Everything' : Seen(f, clock')
    BY <1>1, <1>2, SeenLater, BlankSeen DEF Inv
  <1>. QED BY <1>3 DEF Inv, Cached, ReportedIsCached, poller

LEMMA InvStep == Inv /\ [Next]_vars => Inv'
  <1>. SUFFICES ASSUME Inv, [Next]_vars PROVE Inv'
    OBVIOUS
  <1>. USE DisplayAssumption
  <1>1. CASE Tick
    BY <1>1, OutsideStep DEF Tick, Inv, TypeOK, poller, orch, wire
  <1>2. CASE Edit
    <2>1. TypeOK'
      BY <1>2 DEF Edit, Inv, TypeOK, poller, orch, wire
    <2>. QED BY <1>2, <2>1, OutsideStep DEF Edit, Inv, TypeOK, poller, orch, wire
  <1>3. CASE Bind
    BY <1>3, OutsideStep DEF Bind, Inv, TypeOK, poller, orch, wire
  <1>4. CASE Google
    BY <1>4, OutsideStep DEF Google, Inv, TypeOK, poller, orch, wire
  <1>5. CASE Device
    BY <1>5, OutsideStep DEF Device, Inv, TypeOK, poller, orch, wire
  <1>6. CASE PollBegin
    BY <1>6 DEF PollBegin, Inv, TypeOK, Cached, ReportedIsCached, Everything, Events, Idle,
                outside, orch, wire
  <1>7. CASE PollStore
    <2>1. pnow \in Nat /\ calendar \in SUBSET Items
      BY DEF Inv, TypeOK
    <2>2. activeEvent' = Idle \/ Chosen(activeEvent', pnow)
      BY <1>7, <2>1, WinnerChosen DEF PollStore
    <2>3. activeEvent' \in Events
      BY <2>2 DEF Chosen, Events
    <2>4. Cached'
      BY <2>1, <2>2 DEF Cached, Chosen
    <2>5. TypeOK' /\ bound'
      BY <1>7, <2>3 DEF PollStore, Inv, TypeOK, outside, orch, wire
    <2>. QED BY <1>7, <2>4, <2>5 DEF PollStore, RecordCalendarPoll, Inv, ReportedIsCached, Everything,
                                     outside, orch, wire
  <1>8. CASE PollFail
    BY <1>8 DEF PollFail, Outage, RecordCalendarPoll, Inv, TypeOK, Cached, ReportedIsCached, Everything, Events,
                outside, orch, wire
  <1>9. CASE PollHang
    BY <1>9 DEF PollHang, Inv, TypeOK, Cached, ReportedIsCached, Everything,
                outside, orch, wire
  <1>10. CASE StepRead
    <2>1. TypeOK'
      BY <1>10, ShownSeen DEF StepRead, Inv, TypeOK, outside, poller, wire
    <2>2. \A f \in Everything' : Seen(f, clock')
      BY <1>10, ShownSeen DEF StepRead, Inv, Everything, outside, wire
    <2>. QED BY <1>10, <2>1, <2>2 DEF StepRead, Inv, Cached, ReportedIsCached,
                                      outside, poller
  <1>11. CASE StepPush
    <2>1. TypeOK'
      BY <1>11 DEF StepPush, Inv, TypeOK, poller
    <2>2. \A f \in Everything' : f \in Everything \/ f = Blank
      BY <1>11 DEF StepPush, Everything
    <2>. QED BY <1>11, <2>1, <2>2, BlankSeen DEF StepPush, Inv, Cached, ReportedIsCached, poller
  <1>12. ASSUME UNCHANGED <<outside, poller, orch>>,
                {cell', inHand', late', screen'} \subseteq {cell, inHand, late, screen, Blank}
         PROVE  Inv'
    <2>1. TypeOK'
      BY <1>12 DEF Inv, TypeOK, outside, poller, orch
    <2>2. clock \in Nat
      BY DEF Inv, TypeOK
    <2>. QED BY <1>12, <2>1, <2>2, OutsideStep DEF outside
  <1>13. CASE Take
    BY <1>12, <1>13 DEF Take
  <1>14. CASE Transmit
    BY <1>12, <1>14 DEF Transmit
  <1>15. CASE LateFrame
    BY <1>12, <1>15 DEF LateFrame
  <1>16. CASE UNCHANGED vars
    BY <1>12, <1>16 DEF vars, wire
  <1>. QED BY <1>1, <1>2, <1>3, <1>4, <1>5, <1>6, <1>7, <1>8, <1>9, <1>10, <1>11,
              <1>13, <1>14, <1>15, <1>16 DEF Next, Poll, Step, Push

\* The state of the poller, the orchestrator and the wire has its type.
THEOREM Typed == Spec => []TypeOK
  <1>1. Inv => TypeOK
    BY DEF Inv
  <1>. QED BY <1>1, InvInit, InvStep, PTL DEF Spec

\* What the telemetry reports as the active event is what the poller has cached
\* (poller.go, Poll and handlePollFailure).
THEOREM Reported == Spec => []ReportedIsCached
  <1>1. Inv => ReportedIsCached
    BY DEF Inv
  <1>. QED BY <1>1, InvInit, InvStep, PTL DEF Spec

\* No frame shows a meeting that was not to be seen when it was composed, however old the
\* poll (poller.go, display.go).
THEOREM Overdue == Spec => []NeverOverdue
  <1>1. Inv => NeverOverdue
    BY DEF Inv, NeverOverdue, Frames, Everything, Seen
  <1>. QED BY <1>1, InvInit, InvStep, PTL DEF Spec

\* Only an answer of Google takes a running meeting off the screen (poller.go,
\* handlePollFailure, which weighs the end against a now that is not later).
THEOREM OutageKeeps == Spec => OutageKeepsMeeting
  <1>. DEFINE Keeps == ~activeEvent.idle /\ clock < activeEvent.end /\ activeEvent' # activeEvent
                        => ppc = "asking" /\ activeEvent' = Winner(calendar, Email, pnow)
  <1>1. Inv /\ [Next]_vars => [Keeps]_vars
    <2>. SUFFICES ASSUME Inv, [Next]_vars, ~activeEvent.idle, clock < activeEvent.end,
                         activeEvent' # activeEvent
                  PROVE  ppc = "asking" /\ activeEvent' = Winner(calendar, Email, pnow)
      OBVIOUS
    <2>1. CASE PollBegin
      BY <2>1 DEF PollBegin, Inv, Idle
    <2>2. CASE PollStore
      BY <2>2 DEF PollStore
    <2>3. CASE PollFail
      <3>1. activeEvent # Idle
        BY DEF Idle
      <3>2. activeEvent.end \in Int /\ pnow \in Nat /\ clock \in Nat /\ pnow <= clock
        BY <3>1, ItemsAssumption, DisplayAssumption
           DEF Inv, Cached, Chosen, ActiveEvent, TypeOK, NoTime
      <3>3. pnow < activeEvent.end
        BY <3>2
      <3>. QED BY <2>3, <3>3 DEF PollFail, Outage
    <2>. QED BY <2>1, <2>2, <2>3 DEF Next, Poll, Step, Push, Tick, Edit, Bind, Google, Device,
            PollHang, StepRead, StepPush, Take, Transmit, LateFrame, vars, poller
  <1>. QED BY <1>1, InvInit, InvStep, PTL DEF Spec, OutageKeepsMeeting

-----------------------------------------------------------------------------
(* The stair that ScreenConverges climbs.                                  *)

\* Google and the device are there; neither the calendar nor the clock says anything new.
Calm == googleUp /\ UNCHANGED <<clock, calendar, bound, googleUp, deviceUp>>

\* The screen for what the calendar says now.
Truth == DisplayState(IF bound THEN Winner(calendar, Email, clock) ELSE Idle, clock)

\* A frame that cannot lie.
True(f) == f \in {Blank, Truth}

\* From the poll to the screen: each step needs those below it.
Stair(n) == /\ n >= 1 => Shown = Truth /\ (ppc = "asking" => pnow = clock)
            /\ n >= 2 => (dpc = "push" => state = Truth)
            /\ n >= 3 => lastState = Truth /\ True(cell)
            /\ n >= 4 => True(inHand)
            /\ n >= 5 => True(late)
            /\ n >= 6 => screen = Truth

NeverDown == [][Calm => \A n \in 1..6 : Stair(n) => Stair(n)']_vars

\* The screen for what the calendar says shows the meeting that runs and ends first.
LEMMA TruthIsDue == ASSUME Inv, screen = Truth PROVE ShowsTruth
<1> DEFINE active == {ActiveEvent(i) : i \in {j \in calendar : Eligible(j, Email) /\ Runs(j, clock)}}
           w == Winner(calendar, Email, clock)
<1>0. calendar \in SUBSET Items /\ clock \in Nat /\ bound \in BOOLEAN
  BY DisplayAssumption DEF Inv, TypeOK
<1>1. CASE Due = {}
  <2>1. ~bound \/ active = {}
    BY <1>0, <1>1 DEF Due
  <2>2. Truth = DisplayState(Idle, clock)
    BY <2>1 DEF Truth, Winner
  <2>3. QED
    BY <1>1, <2>2 DEF ShowsTruth
<1>2. CASE Due # {}
  <2>1. bound /\ active # {}
    BY <1>2 DEF Due
  <2>2. w \in active /\ \A o \in active : ~Precedes(o, w)
    <3>1. \A e \in active : Timed(e)
      BY <1>0, ItemsAssumption DEF Timed, ActiveEvent, Eligible, Runs, NoTime
    <3>2. \E e \in active : \A o \in active : ~Precedes(o, e)
      <4> HIDE DEF active
      <4>1. QED
        BY <2>1, <3>1, FirstExists
    <3>3. QED
      BY <2>1, <3>2 DEF Winner
  <2>3. PICK i \in Due : w = ActiveEvent(i)
    BY <2>1, <2>2 DEF Due
  <2>4. \A j \in Due : i.end <= j.end
    <3>1. TAKE j \in Due
    <3>2. ActiveEvent(j) \in active
      BY DEF Due
    <3>3. ~(ActiveEvent(j).end < ActiveEvent(i).end)
      BY <2>2, <2>3, <3>2 DEF Precedes
    <3>4. i.end \in Int /\ j.end \in Int
      BY <1>0, ItemsAssumption DEF Due, NoTime
    <3>5. QED
      BY <3>3, <3>4 DEF ActiveEvent
  <2>5. Truth = [mode |-> "busy", top |-> i.summary, bottom |-> FormatCountdown(i.end - clock)]
    BY <2>1, <2>3 DEF Truth, DisplayState, ActiveEvent
  <2>6. QED
    BY <1>2, <2>4, <2>5 DEF ShowsTruth
<1>3. QED
  BY <1>1, <1>2

\* What a poll caches now is what GetCurrentEvent tells now.
LEMMA WinnerIsShown ==
  ASSUME NEW items \in SUBSET Items, NEW t \in Nat
  PROVE  CurrentEvent(Winner(items, Email, t), t) = Winner(items, Email, t)
<1> SUFFICES ASSUME NEW w, w = Winner(items, Email, t) PROVE CurrentEvent(w, t) = w
  OBVIOUS
<1>1. CASE w = Idle
  BY <1>1 DEF CurrentEvent, Idle
<1>2. CASE w # Idle
  <2>1. PICK i \in Items : Eligible(i, Email) /\ Runs(i, t) /\ w = ActiveEvent(i)
    BY <1>2, WinnerChosen DEF Chosen
  <2>2. i.start \in Int /\ i.end \in Int
    BY <2>1, ItemsAssumption DEF Eligible, NoTime
  <2>3. ~w.idle /\ w.start <= t /\ t < w.end /\ w.start \in Int /\ w.end \in Int
    BY <2>1, <2>2 DEF ActiveEvent, Runs
  <2>4. QED
    BY <2>3 DEF CurrentEvent
<1>3. QED
  BY <1>1, <1>2

\* While nothing new is said the poller does not unlearn the truth (poller.go, Poll).
LEMMA StaysFresh ==
  ASSUME Inv, Calm, [Next]_vars, Stair(1)
  PROVE  Stair(1)'
<1>0. Shown = Truth /\ (ppc = "asking" => pnow = clock) /\ clock \in Nat
  BY DisplayAssumption DEF Stair, Inv, TypeOK
<1>1. CASE PollBegin
  <2>1. activeEvent' = activeEvent
    BY <1>1 DEF PollBegin, Inv
  <2>2. Shown' = Shown /\ Truth' = Truth
    BY <2>1 DEF Calm, Shown, Truth
  <2>3. ppc' = "asking" => pnow' = clock'
    BY <1>0, <1>1 DEF PollBegin, Calm
  <2>4. QED
    BY <1>0, <2>2, <2>3 DEF Stair
<1>2. CASE PollStore
  <2>1. /\ activeEvent' = Winner(calendar, Email, clock) /\ bound /\ ppc' = "poll"
        /\ calendar \in SUBSET Items
    BY <1>0, <1>2 DEF PollStore, Inv, TypeOK
  <2>2. Shown' = DisplayState(CurrentEvent(Winner(calendar, Email, clock), clock), clock)
    BY <2>1 DEF Calm, Shown
  <2>3. Truth' = DisplayState(Winner(calendar, Email, clock), clock)
    BY <2>1 DEF Calm, Truth
  <2>4. QED
    BY <1>0, <2>1, <2>2, <2>3, WinnerIsShown DEF Stair
<1>3. CASE UNCHANGED <<activeEvent, ppc, pnow>>
  <2>1. Shown' = Shown /\ Truth' = Truth
    BY <1>3 DEF Calm, Shown, Truth
  <2>2. QED
    BY <1>0, <1>3, <2>1 DEF Stair, Calm
<1>4. QED
  BY <1>1, <1>2, <1>3
     DEF Next, Poll, Step, Push, Calm, Tick, Edit, Bind, Google, Device, PollFail, PollHang,
         StepRead, StepPush, Take, Transmit, LateFrame, vars, poller

\* While Google and the device can be reached and neither the time nor the calendar changes,
\* every step that the stair has climbed is kept: once the poller has seen the truth nothing
\* else is composed, the frames of before leave the mailbox, the worker and the network for
\* good, and a screen that shows the truth then, shows it for as long: the meeting that runs
\* and ends first (poller.go, display.go, push.go).  It is the half of ScreenConverges that is
\* not liveness.
THEOREM StairIsKept == Spec => NeverDown /\ [](Stair(6) => ShowsTruth)
<1>1. Inv /\ [Next]_vars => [Calm => \A n \in 1..6 : Stair(n) => Stair(n)']_vars
  <2> SUFFICES ASSUME Inv, [Next]_vars, Calm, NEW n \in 1..6, Stair(n)
               PROVE  Stair(n)'
    OBVIOUS
  <2>1. Stair(1) /\ Stair(1)'
    BY StaysFresh DEF Stair
  <2>2. Shown = Truth /\ Truth' = Truth
    BY <2>1 DEF Stair, Calm, Truth
  <2>3. CASE StepRead
    BY <2>1, <2>2, <2>3 DEF StepRead, Stair, True, wire
  <2>4. CASE StepPush
    BY <2>1, <2>2, <2>4 DEF StepPush, Stair, True
  <2>5. CASE Take
    BY <2>1, <2>2, <2>5 DEF Take, Stair, True, orch
  <2>6. CASE Transmit
    BY <2>1, <2>2, <2>6 DEF Transmit, Stair, True, orch
  <2>7. CASE LateFrame
    BY <2>1, <2>2, <2>7 DEF LateFrame, Stair, True, orch
  <2>8. CASE UNCHANGED <<orch, wire>>
    BY <2>1, <2>2, <2>8 DEF Stair, True, orch, wire
  <2>9. QED
    BY <2>3, <2>4, <2>5, <2>6, <2>7, <2>8
       DEF Next, Poll, Step, Push, Calm, Tick, Edit, Bind, Google, Device, PollBegin, PollStore,
           PollFail, PollHang, vars
<1>2. Inv => (Stair(6) => ShowsTruth)
  BY TruthIsDue DEF Stair
<1>3. QED
  BY <1>1, <1>2, InvInit, InvStep, PTL DEF Spec, NeverDown

-----------------------------------------------------------------------------
(* The countdown.                                                          *)

\* Division, with its remainder.
LEMMA Quotient == ASSUME NEW a \in Nat, NEW d \in Nat \ {0}
                  PROVE  a \div d \in Nat /\ d * (a \div d) <= a /\ a < d * (a \div d) + d
  OBVIOUS

\* The hours and minutes shown are m minutes, and m is the time left rounded up: no more than
\* m minutes are left, and more than m - 1 (display.go, FormatCountdown).
THEOREM CountdownRoundsUp ==
  ASSUME NEW r \in Nat, r > 0
  PROVE  \E m \in Nat : /\ FormatCountdown(r) = <<m \div 60, m % 60>>
                        /\ m % 60 \in 0..59
                        /\ r <= Minute * m /\ Minute * m < r + Minute
<1> DEFINE a == r + Minute - 1
           m == a \div Minute
<1>1. Minute \in Nat \ {0} /\ a \in Nat
  BY MinuteAssumption
<1>2. m \in Nat /\ Minute * m <= a /\ a < Minute * m + Minute
  <2> HIDE DEF a
  <2>1. QED
    BY <1>1, Quotient
<1>3. FormatCountdown(r) = <<m \div 60, m % 60>>
  BY DEF FormatCountdown
<1>4. Minute * m \in Nat
  <2> HIDE DEF m
  <2>1. QED
    BY <1>1, <1>2
<1>5. r <= Minute * m /\ Minute * m < r + Minute
  <2> HIDE DEF m
  <2>1. QED
    BY <1>1, <1>2, <1>4
<1>6. m % 60 \in 0..59
  <2> HIDE DEF m
  <2>1. QED
    BY <1>2
<1>7. QED
  BY <1>2, <1>3, <1>5, <1>6

-----------------------------------------------------------------------------
(* The drawing.                                                            *)

\* setPixel's index is within the buffer, and leads back to its pixel and its colour.
LEMMA IndexInverse ==
  ASSUME NEW x \in 0..DisplayWidth - 1, NEW y \in 0..DisplayHeight - 1, NEW c \in 1..3
  PROVE  LET k == Index(x, y) + c - 1
         IN  /\ k \in 0..DisplayBufferSize - 1
             /\ (k % DisplayBytesPerPixel) + 1 = c
             /\ (k \div DisplayBytesPerPixel) % DisplayWidth = x
             /\ (k \div DisplayBytesPerPixel) \div DisplayWidth = y
  BY DEF Index, DisplayWidth, DisplayHeight, DisplayBytesPerPixel, DisplayBufferSize

\* What the frame has at a pixel.
LEMMA FrameAt ==
  ASSUME NEW st, NEW x \in 0..DisplayWidth - 1, NEW y \in 0..DisplayHeight - 1,
         NEW c \in 1..3
  PROVE  RenderFrame(st)[Index(x, y) + c - 1] =
           IF <<x, y>> \in Drawn(st.bottomLine, 1, 9) THEN BottomColor(st.mode)[c]
           ELSE IF <<x, y>> \in Drawn(st.topLine, 1, 1) THEN TopColor(st.mode)[c] ELSE 0
  <1>. DEFINE k == Index(x, y) + c - 1
  <1>1. /\ k \in 0..DisplayBufferSize - 1
        /\ (k % DisplayBytesPerPixel) + 1 = c
        /\ (k \div DisplayBytesPerPixel) % DisplayWidth = x
        /\ (k \div DisplayBytesPerPixel) \div DisplayWidth = y
    BY IndexInverse
  <1>. HIDE DEF k
  <1>2. RenderFrame(st)[k] =
           IF <<x, y>> \in Drawn(st.bottomLine, 1, 9) THEN BottomColor(st.mode)[c]
           ELSE IF <<x, y>> \in Drawn(st.topLine, 1, 1) THEN TopColor(st.mode)[c] ELSE 0
    BY <1>1 DEF RenderFrame
  <1>. QED BY <1>2 DEF k

\* In a line that fits, a pixel in a character's box belongs to that character only.
LEMMA OwnBox ==
  ASSUME NEW C, NEW text \in Seq(C), Len(text) <= MaxDisplayChars, NEW startY \in {1, 9},
         NEW i \in 1..Len(text), NEW row \in 0..glyphHeight - 1, NEW col \in 0..glyphWidth - 1
  PROVE  LET x == 1 + glyphPitch * (i - 1) + col
         IN  /\ x \in 0..DisplayWidth - 1 /\ startY + row \in 0..DisplayHeight - 1
             /\ <<x, startY + row>> \in Drawn(text, 1, startY)
                  <=> Bit(Glyph(text[i]), row, col)
  <1>. DEFINE x == 1 + glyphPitch * (i - 1) + col
  <1>1. Len(text) \in Nat
    OBVIOUS
  <1>2. /\ x \in 0..DisplayWidth - 1 /\ startY + row \in 0..DisplayHeight - 1
        /\ 1 + glyphPitch * (i - 1) < DisplayWidth
    BY <1>1 DEF glyphPitch, glyphWidth, glyphHeight, DisplayWidth, DisplayHeight, MaxDisplayChars
  <1>3. ASSUME NEW j \in 1..Len(text), NEW w \in 0..glyphHeight - 1,
               NEW d \in 0..glyphWidth - 1,
               <<x, startY + row>> = <<1 + glyphPitch * (j - 1) + d, startY + w>>
        PROVE  j = i /\ w = row /\ d = col
    <2>1. 5 * (i - 1) + col = 5 * (j - 1) + d /\ w = row
      BY <1>3 DEF glyphPitch, glyphHeight, glyphWidth
    <2>. QED BY <2>1, <1>1 DEF glyphWidth
  <1>4. <<x, startY + row>> \in Drawn(text, 1, startY) <=> Bit(Glyph(text[i]), row, col)
    <2>1. ASSUME <<x, startY + row>> \in Drawn(text, 1, startY)
          PROVE  Bit(Glyph(text[i]), row, col)
      <3>1. PICK j \in 1..Len(text), w \in 0..glyphHeight - 1, d \in 0..glyphWidth - 1 :
              /\ <<x, startY + row>> = <<1 + glyphPitch * (j - 1) + d, startY + w>>
              /\ Bit(Glyph(text[j]), w, d)
        BY <2>1 DEF Drawn
      <3>. QED BY <3>1, <1>3
    <2>2. ASSUME Bit(Glyph(text[i]), row, col)
          PROVE  <<x, startY + row>> \in Drawn(text, 1, startY)
      <3>1. <<x, startY + row>> \in (0..DisplayWidth - 1) \X (0..DisplayHeight - 1)
        BY <1>2
      <3>2. /\ 1 + glyphPitch * (i - 1) < DisplayWidth
            /\ <<x, startY + row>> = <<1 + glyphPitch * (i - 1) + col, startY + row>>
        BY <1>2
      <3>. QED BY <2>2, <3>1, <3>2, Zenon DEF Drawn
    <2>. QED BY <2>1, <2>2
  <1>. QED BY <1>2, <1>4

\* The rows of a line are its own.
LEMMA OwnRows ==
  ASSUME NEW text, NEW startY \in Nat, NEW x, NEW y \in Nat, <<x, y>> \in Drawn(text, 1, startY)
  PROVE  startY <= y /\ y < startY + glyphHeight
  BY DEF Drawn, glyphHeight

\* Whatever two lines of at most 14 characters are drawn, each of their dots is where it
\* belongs (display.go, RenderFrame, drawString, drawGlyph and setPixel): the tests on the
\* coordinates never cut anything off, and no byte is written outside of the buffer.
THEOREM TextIsLegible ==
  ASSUME NEW C, NEW st, st.topLine \in Seq(C), st.bottomLine \in Seq(C),
         Len(st.topLine) <= MaxDisplayChars, Len(st.bottomLine) <= MaxDisplayChars
  PROVE  Legible(st)
  <1>. DEFINE frame == RenderFrame(st)
  <1>1. ASSUME NEW i \in 1..Len(st.topLine), NEW row \in 0..glyphHeight - 1,
               NEW col \in 0..glyphWidth - 1, NEW c \in 1..3
        PROVE  frame[Index(1 + glyphPitch * (i - 1) + col, 1 + row) + c - 1] =
                 IF Bit(Glyph(st.topLine[i]), row, col) THEN TopColor(st.mode)[c] ELSE 0
    <2>. DEFINE x == 1 + glyphPitch * (i - 1) + col
    <2>1. /\ x \in 0..DisplayWidth - 1 /\ 1 + row \in 0..DisplayHeight - 1
          /\ <<x, 1 + row>> \in Drawn(st.topLine, 1, 1)
               <=> Bit(Glyph(st.topLine[i]), row, col)
      BY OwnBox
    <2>. HIDE DEF x
    <2>2. <<x, 1 + row>> \notin Drawn(st.bottomLine, 1, 9)
      <3>1. row \in Nat /\ row < 6
        BY DEF glyphHeight
      <3>. QED BY <3>1, OwnRows
    <2>3. frame[Index(x, 1 + row) + c - 1] =
            IF Bit(Glyph(st.topLine[i]), row, col) THEN TopColor(st.mode)[c] ELSE 0
      BY <2>1, <2>2, FrameAt
    <2>. QED BY <2>3 DEF x
  <1>2. ASSUME NEW i \in 1..Len(st.bottomLine), NEW row \in 0..glyphHeight - 1,
               NEW col \in 0..glyphWidth - 1, NEW c \in 1..3
        PROVE  frame[Index(1 + glyphPitch * (i - 1) + col, 9 + row) + c - 1] =
                 IF Bit(Glyph(st.bottomLine[i]), row, col) THEN BottomColor(st.mode)[c]
                 ELSE 0
    <2>. DEFINE x == 1 + glyphPitch * (i - 1) + col
    <2>1. /\ x \in 0..DisplayWidth - 1 /\ 9 + row \in 0..DisplayHeight - 1
          /\ <<x, 9 + row>> \in Drawn(st.bottomLine, 1, 9)
               <=> Bit(Glyph(st.bottomLine[i]), row, col)
      BY OwnBox
    <2>. HIDE DEF x
    <2>2. <<x, 9 + row>> \notin Drawn(st.topLine, 1, 1)
      <3>1. row \in Nat /\ row < 6
        BY DEF glyphHeight
      <3>. QED BY <3>1, OwnRows DEF glyphHeight
    <2>3. frame[Index(x, 9 + row) + c - 1] =
            IF Bit(Glyph(st.bottomLine[i]), row, col) THEN BottomColor(st.mode)[c] ELSE 0
      BY <2>1, <2>2, FrameAt
    <2>. QED BY <2>3 DEF x
  <1>. HIDE DEF frame
  <1>3. Shows(frame, st.topLine, 1, TopColor(st.mode))
    BY <1>1 DEF Shows
  <1>4. Shows(frame, st.bottomLine, 9, BottomColor(st.mode))
    BY <1>2 DEF Shows
  <1>. QED BY <1>3, <1>4 DEF Legible, frame

LEMMA TrimmedIsText == ASSUME NEW C, NEW s \in Seq(C) PROVE TrimSpace(s) \in Seq(C)
  <1>. DEFINE solid == {i \in 1..Len(s) : s[i] \notin Spaces}
  <1>1. CASE solid = {}
    BY <1>1 DEF TrimSpace
  <1>2. CASE solid # {}
    <2>. DEFINE Above == {Len(s) - i : i \in solid}
    <2>1. Len(s) \in Nat /\ solid \in SUBSET Nat
      OBVIOUS
    <2>2. PICK low \in solid : \A i \in solid : low <= i
      <3>. HIDE DEF solid
      <3>. QED BY <1>2, <2>1, Least
    <2>3. PICK m \in Above : \A i \in Above : m <= i
      <3>1. Above \in SUBSET Nat /\ Above # {}
        BY <1>2, <2>1
      <3>. HIDE DEF Above
      <3>. QED BY <3>1, Least
    <2>4. PICK high \in solid : m = Len(s) - high
      BY <2>3
    <2>5. \A i \in solid : high >= i
      <3>1. TAKE i \in solid
      <3>2. m <= Len(s) - i
        BY <2>3
      <3>. QED BY <2>1, <2>4, <3>2
    <2>6. Min(solid) \in solid /\ Max(solid) \in solid /\ Min(solid) <= Max(solid)
      <3>. HIDE DEF solid
      <3>1. /\ Min(solid) \in solid /\ \A i \in solid : Min(solid) <= i
            /\ Max(solid) \in solid
        BY <2>2, <2>5 DEF Min, Max
      <3>. QED BY <3>1
    <2>7. TrimSpace(s) = SubSeq(s, Min(solid), Max(solid))
      BY <1>2 DEF TrimSpace
    <2>8. Min(solid) \in 1..Len(s) /\ Max(solid) \in 1..Len(s)
      BY <2>6
    <2>. HIDE DEF solid
    <2>. QED BY <2>1, <2>6, <2>7, <2>8, SubSeqProperties
  <1>. QED BY <1>1, <1>2

\* A title is never too long for the screen, nor missing (display.go, TruncateTitle).
THEOREM TitleFits ==
  ASSUME NEW C, Fallback \in Seq(C), NEW s \in Seq(C)
  PROVE  /\ TruncateTitle(s) \in Seq(C)
         /\ Len(TruncateTitle(s)) \in 1..MaxDisplayChars
  <1>. DEFINE t == TrimSpace(s)
  <1>1. CASE t = <<>>
    BY <1>1, RenderingAssumption DEF TruncateTitle
  <1>2. CASE t # <<>>
    <2>1. t \in Seq(C) /\ Len(t) \in Nat /\ Len(t) > 0
      BY <1>2, TrimmedIsText
    <2>2. TruncateTitle(s) = Cut(t)
      BY <1>2 DEF TruncateTitle
    <2>. HIDE DEF t
    <2>3. CASE Len(t) > MaxDisplayChars
      <3>1. SubSeq(t, 1, 14) \in Seq(C) /\ Len(SubSeq(t, 1, 14)) = 14
        BY <2>1, <2>3, SubSeqProperties DEF MaxDisplayChars
      <3>. QED BY <2>2, <2>3, <3>1 DEF Cut, MaxDisplayChars
    <2>4. CASE ~(Len(t) > MaxDisplayChars)
      <3>1. Cut(t) = t
        BY <2>4 DEF Cut
      <3>2. Len(t) \in 1..MaxDisplayChars
        <4>. DEFINE n == Len(t)
        <4>1. n \in Nat /\ n > 0 /\ ~(n > 14)
          BY <2>1, <2>4 DEF MaxDisplayChars
        <4>2. n \in 1..14
          <5>. HIDE DEF n
          <5>. QED BY <4>1
        <4>. QED BY <4>2 DEF MaxDisplayChars
      <3>. QED BY <2>1, <2>2, <3>1, <3>2
    <2>. QED BY <2>3, <2>4
  <1>. QED BY <1>1, <1>2
=============================================================================
