--------------------------- MODULE CalendarDisplay ---------------------------
(***************************************************************************)
(* From the Google calendar to the screen: the poller's goroutine          *)
(* (internal/calendar/poller.go), the display orchestrator's goroutine     *)
(* (display.go) and, behind the mailbox of PushClient, the worker that     *)
(* POSTs frames to the device.  They share activeEvent (under p.mu) and    *)
(* the mailbox; each reads a clock that the others do not wait for.        *)
(*                                                                         *)
(* Google and the device may each be unreachable for any time.  A poll has *)
(* no timeout of its own, so its request may also never be answered.  A    *)
(* frame whose request timed out may still reach the device later, and a   *)
(* device that restarts comes up with a blank screen.  The tickers are not *)
(* timed: a loop may come round at any moment, and does again and again.   *)
(***************************************************************************)
EXTENDS CalendarEvents, FiniteSets

CONSTANTS Items,      \* the items the calendar may hold
          Email,      \* the bound address
          KeepAlive,  \* units of time between two pushes of an unchanged screen
          Horizon,    \* bound on the clock
          MaxItems,   \* bound on the items that the calendar holds at a time
          MaxEdits    \* bound on the changes to the calendar

ASSUME DisplayAssumption == /\ KeepAlive \in Nat \ {0} /\ Horizon \in Nat
                            /\ MaxItems \in Nat /\ MaxEdits \in Nat
ASSUME ItemsAssumption == \A i \in Items : /\ i.summary \in Nat
                                          /\ i.start \in Nat \union {NoTime}
                                          /\ i.end \in Nat \union {NoTime}

VARIABLES
  clock, age,           \* the time; since lastPushAt, up to KeepAlive
  calendar, edits,      \* the items Google has; how often they have changed
  bound,                \* store.IsBound
  googleUp, deviceUp,   \* who can be reached
  ppc, pnow,            \* the poller: where it is, the now of the poll it is making
  activeEvent,          \* what the last poll has cached
  reported,             \* the summary in the telemetry, 0 if none
  dpc, state,           \* the orchestrator: where it is, what it is about to push
  lastState,            \* what it has last pushed, Blank if nothing (hasPushed)
  cell, inHand,         \* the mailbox, and the worker's frame
  late,                 \* a frame given up that may still arrive
  screen

outside == <<clock, age, calendar, edits, bound, googleUp, deviceUp>>
poller  == <<ppc, pnow, activeEvent, reported>>
orch    == <<dpc, state, lastState>>
wire    == <<cell, inHand, late, screen>>
vars    == <<outside, poller, orch, wire>>

Blank == [mode |-> "none"]
-----------------------------------------------------------------------------
Init == /\ clock = 0 /\ age = 0
        /\ calendar \in {k \in SUBSET Items : Cardinality(k) <= MaxItems} /\ edits = 0
        /\ bound \in BOOLEAN
        /\ googleUp = TRUE /\ deviceUp = TRUE
        /\ ppc = "poll" /\ pnow = 0 /\ activeEvent = Idle /\ reported = 0
        /\ dpc = "step" /\ state = Blank /\ lastState = Blank
        /\ cell = Blank /\ inHand = Blank /\ late = Blank /\ screen = Blank

\* Time passes; the screen of the clock stands still at the horizon, the tickers do not.
Tick == /\ clock < Horizon \/ age < KeepAlive
        /\ clock' = IF clock < Horizon THEN clock + 1 ELSE clock
        /\ age' = IF age < KeepAlive THEN age + 1 ELSE age
        /\ UNCHANGED <<calendar, edits, bound, googleUp, deviceUp, poller, orch, wire>>

Edit == /\ edits < MaxEdits
        /\ \E i \in Items :
             calendar' = IF i \in calendar THEN calendar \ {i} ELSE calendar \union {i}
        /\ Cardinality(calendar') <= MaxItems
        /\ edits' = edits + 1
        /\ UNCHANGED <<clock, age, bound, googleUp, deviceUp, poller, orch, wire>>

\* The OAuth callback saves a binding.
Bind == /\ ~bound
        /\ bound' = TRUE
        /\ UNCHANGED <<clock, age, calendar, edits, googleUp, deviceUp, poller, orch, wire>>

Google == /\ googleUp' = ~googleUp
          /\ UNCHANGED <<clock, age, calendar, edits, bound, deviceUp, poller, orch, wire>>

\* The device goes, comes back, or comes back having lost its screen.
Device == /\ deviceUp' = ~deviceUp
          /\ \/ UNCHANGED screen
             \/ deviceUp' /\ screen' = Blank
          /\ UNCHANGED <<clock, age, calendar, edits, bound, googleUp>>
          /\ UNCHANGED <<poller, orch, cell, inHand, late>>
-----------------------------------------------------------------------------
\* Poll takes its now; without a binding it goes idle at once.
PollBegin == /\ ppc = "poll"
             /\ IF bound
                  THEN ppc' = "asking" /\ pnow' = clock /\ UNCHANGED activeEvent
                  ELSE activeEvent' = Idle /\ UNCHANGED <<ppc, pnow>>
             /\ UNCHANGED <<outside, reported, orch, wire>>

\* Success or not, telemetry.Store is told what is active.
RecordCalendarPoll(event) == reported' = IF event.idle THEN 0 ELSE event.summary

\* Google's answer, as the calendar is when it comes, weighed against the now the poll
\* began with.
PollStore == /\ ppc = "asking" /\ googleUp
             /\ activeEvent' = Winner(calendar, Email, pnow)
             /\ RecordCalendarPoll(activeEvent')
             /\ ppc' = "poll" /\ pnow' = 0
             /\ UNCHANGED <<outside, orch, wire>>

\* Mutant: an outage hides the meeting that runs.
OutageForgets == activeEvent' = Idle /\ reported' = 0

\* handlePollFailure keeps the cached event until its end.
Outage ==
  /\ activeEvent' = IF activeEvent.idle \/ pnow < activeEvent.end THEN activeEvent ELSE Idle
  /\ RecordCalendarPoll(activeEvent')

\* No connection, another status, or an answer that does not decode.
PollFail == /\ ppc = "asking" /\ ~googleUp
            /\ Outage
            /\ ppc' = "poll" /\ pnow' = 0
            /\ UNCHANGED <<outside, orch, wire>>

\* The connection stays open and nothing comes: the loop waits until the context ends.
PollHang == /\ ppc = "asking" /\ ~googleUp
            /\ ppc' = "hung" /\ pnow' = 0
            /\ UNCHANGED <<outside, activeEvent, reported, orch, wire>>
-----------------------------------------------------------------------------
Shown == DisplayState(CurrentEvent(activeEvent, clock), clock)

NeedPush == Shown # lastState \/ age >= KeepAlive

\* Step reads the clock and the tracker; with nothing new to show it is over.
StepRead == /\ dpc = "step" /\ NeedPush
            /\ state' = Shown
            /\ dpc' = "push"
            /\ UNCHANGED <<outside, poller, lastState, wire>>

\* PushFrame replaces the frame in the mailbox, and the state is remembered.
StepPush == /\ dpc = "push"
            /\ cell' = state /\ lastState' = state
            /\ state' = Blank /\ age' = 0
            /\ dpc' = "step"
            /\ UNCHANGED <<clock, calendar, edits, bound, googleUp, deviceUp>>
            /\ UNCHANGED <<poller, inHand, late, screen>>

Take == /\ inHand = Blank /\ cell # Blank
        /\ inHand' = cell /\ cell' = Blank
        /\ UNCHANGED <<outside, poller, orch, late, screen>>

\* The POST arrives, or is lost, or times out with the frame still on its way.
Transmit == /\ inHand # Blank
            /\ \/ deviceUp /\ screen' = inHand /\ UNCHANGED late
               \/ ~deviceUp /\ UNCHANGED <<late, screen>>
               \/ ~deviceUp /\ late = Blank /\ late' = inHand /\ UNCHANGED screen
            /\ inHand' = Blank
            /\ UNCHANGED <<outside, poller, orch, cell>>

LateFrame == /\ late # Blank /\ deviceUp
             /\ screen' = late /\ late' = Blank
             /\ UNCHANGED <<outside, poller, orch, cell, inHand>>
-----------------------------------------------------------------------------
Poll  == PollBegin \/ PollStore \/ PollFail
Step  == StepRead \/ StepPush
Push  == Take \/ Transmit

Next == \/ Tick \/ Edit \/ Bind \/ Google \/ Device
        \/ Poll \/ PollHang \/ Step \/ Push \/ LateFrame

Spec == Init /\ [][Next]_vars

\* Tickers fire, goroutines run, a request that Google serves is answered, and a frame
\* on its way to a device that is there does not stay on its way.
FairSpec == Spec /\ WF_vars(Tick) /\ WF_vars(Poll) /\ WF_vars(Step) /\ WF_vars(Push)
                 /\ WF_vars(LateFrame)
-----------------------------------------------------------------------------
(* Properties.                                                             *)

Events  == {ActiveEvent(i) : i \in Items} \union {Idle}
Screens == {DisplayState(e, t) : e \in {Idle}, t \in 0..Horizon} \union
           {[mode |-> "busy", top |-> i.summary, bottom |-> FormatCountdown(i.end - t)] :
              i \in Items, t \in 0..Horizon}

TypeOK == /\ clock \in 0..Horizon /\ age \in 0..KeepAlive
          /\ calendar \subseteq Items
          /\ edits \in 0..MaxEdits
          /\ {bound, googleUp, deviceUp} \subseteq BOOLEAN
          /\ ppc \in {"poll", "asking", "hung"}
          /\ pnow \in 0..clock
          /\ activeEvent \in Events
          /\ dpc \in {"step", "push"}
          /\ {state, lastState, cell, inHand, late, screen} \subseteq Screens \union {Blank}

\* A meeting that is over, was called off, or that the user has declined, reaches no frame
\* (poller.go, display.go): whatever is on its way to the screen, however old the poll it
\* comes from and whether or not Google could be asked since, it was composed when a
\* meeting to be seen ran, and it shows time left.
Wanted(i) == /\ i.status # "cancelled" /\ i.end # NoTime
             /\ ~\E a \in i.attendees : IsUser(a, Email) /\ a.response = "declined"
Frames == {state, lastState, cell, inHand, late, screen} \ {Blank}
NeverOverdue == \A f \in Frames : f.mode = "busy" =>
                  /\ f.bottom # <<0, 0>>
                  /\ \E i \in Items, t \in 0..clock :
                       /\ Wanted(i) /\ i.start <= t /\ t < i.end
                       /\ f = [mode |-> "busy", top |-> i.summary,
                               bottom |-> FormatCountdown(i.end - t)]

\* What the telemetry reports as the active event is what the poller has cached: the
\* two are written together on every way out of a poll that was made.
ReportedIsCached == reported = IF activeEvent.idle THEN 0 ELSE activeEvent.summary

\* A meeting that still runs is given up only for what a new answer of Google says: no
\* failure of a poll, and no hung one, takes it off the screen early.
OutageKeepsMeeting ==
  [][~activeEvent.idle /\ clock < activeEvent.end /\ activeEvent' # activeEvent
       => ppc = "asking" /\ activeEvent' = Winner(calendar, Email, pnow)]_vars

\* Once Google and the device can be reached for good and no poll has hung, the screen
\* comes to show the meeting that runs and ends first, with the time left, or the idle
\* screen if none runs, and stays with it: lost frames, frames that come late and a
\* restarted device are repaired, because of the keep-alive.
Due == {i \in calendar : bound /\ Eligible(i, Email) /\ Runs(i, clock)}
ShowsTruth ==
  IF Due = {} THEN screen = DisplayState(Idle, clock)
  ELSE \E i \in Due : /\ \A j \in Due : i.end <= j.end
                      /\ screen = [mode |-> "busy", top |-> i.summary,
                                   bottom |-> FormatCountdown(i.end - clock)]
ScreenConverges ==
  (<>[](googleUp /\ deviceUp) /\ [](ppc # "hung")) => <>[]ShowsTruth

\* A meeting leaves the screen when it is over though Google is never heard of again:
\* all that is needed is the device.
MeetingsLeave ==
  <>[]deviceUp =>
     <>[](screen.mode = "busy" => \E i \in Items : i.summary = screen.top /\ Runs(i, clock))
=============================================================================
