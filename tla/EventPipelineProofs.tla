------------------------ MODULE EventPipelineProofs ------------------------
(***************************************************************************)
(* Theorems about EventPipeline and the EventRelay it uses, for every      *)
(* capacity of the line and of the ring and any number of events.          *)
(***************************************************************************)
EXTENDS EventPipeline, FiniteSetTheorems, TLAPS

-----------------------------------------------------------------------------
(* Types.                                                                  *)

LEMMA AppendTyped ==
  ASSUME NEW S, NEW s \in Seq(S), NEW t \in S
  PROVE  /\ Append(s, t) \in Seq(S)
         /\ Len(Append(s, t)) = Len(s) + 1
         /\ \A i \in 1..Len(s) : Append(s, t)[i] = s[i]
         /\ Append(s, t)[Len(s) + 1] = t
  OBVIOUS

LEMMA TailTyped ==
  ASSUME NEW S, NEW s \in Seq(S), s # <<>>
  PROVE  /\ Tail(s) \in Seq(S) /\ Head(s) \in S
         /\ Len(s) \in Nat /\ Len(s) > 0
         /\ Len(Tail(s)) = Len(s) - 1 /\ Head(s) = s[1]
         /\ \A i \in 1..Len(Tail(s)) : Tail(s)[i] = s[i + 1]
  OBVIOUS

\* Whatever the dispatcher does, its part of the state keeps its types.
LEMMA RelayTyped ==
  ASSUME RTypeOK,
         \/ \E e \in Events : Accept(e) \/ Reject(e)
         \/ Settle \/ Halt \/ UNCHANGED rvars
  PROVE  RTypeOK'
<1>1. ASSUME NEW e \in Events, Accept(e) PROVE RTypeOK'
  BY <1>1, AppendTyped DEF RTypeOK, Accept
<1>2. ASSUME NEW e \in Events, Reject(e) PROVE RTypeOK'
  BY <1>2 DEF RTypeOK, Reject, Verdicts
<1>3. CASE Settle
  BY <1>3, TailTyped DEF RTypeOK, Settle, Verdicts
<1>4. CASE Halt \/ UNCHANGED rvars
  BY <1>4 DEF RTypeOK, Halt, rvars
<1>5. QED
  BY <1>1, <1>2, <1>3, <1>4

\* Marking a trace changes neither the number of the traces nor their IDs.
LEMMA MarkTyped ==
  ASSUME ring \in Seq(Traces), NEW id, NEW o \in {"success", "failure"}, Mark(id, o)
  PROVE  /\ ring' \in Seq(Traces) /\ Len(ring') = Len(ring)
         /\ \A i \in 1..Len(ring) :
              /\ ring'[i].id = ring[i].id
              /\ ring'[i].outcome = IF ring[i].id = id THEN o ELSE ring[i].outcome
<1>1. /\ DOMAIN ring = 1..Len(ring) /\ Len(ring) \in Nat
      /\ \A i \in 1..Len(ring) : ring[i] \in Traces
  OBVIOUS
<1>2. \A i \in 1..Len(ring) : [ring[i] EXCEPT !.outcome = o] \in Traces
  BY <1>1 DEF Traces
<1>3. ring' \in [1..Len(ring) -> Traces]
  BY <1>1, <1>2 DEF Mark
<1>4. ring' \in Seq(Traces) /\ Len(ring') = Len(ring)
  BY <1>1, <1>3
<1>5. \A i \in 1..Len(ring) :
        /\ ring'[i].id = ring[i].id
        /\ ring'[i].outcome = IF ring[i].id = id THEN o ELSE ring[i].outcome
  BY <1>1 DEF Mark, Traces
<1>6. QED
  BY <1>4, <1>5

\* Counting one more keeps the counters typed.
LEMMA OneMore ==
  ASSUME NEW f \in [Inputs -> Nat], NEW k \in Inputs
  PROVE  [f EXCEPT ![k] = @ + 1] \in [Inputs -> Nat]
  OBVIOUS

\* The types hold at first.
LEMMA TypeInit == Init => TypeOK
<1> SUFFICES ASSUME Init PROVE TypeOK
  OBVIOUS
<1>1. RTypeOK
  <2>1. line \in Seq(Events)
    BY DEF Init, RInit
  <2>2. QED
    BY <2>1 DEF Init, RInit, RTypeOK, Verdicts
<1>2. frame \in Seq(Inputs \cup {Noise}) /\ ring \in Seq(Traces) /\ Len(frame) = 0
  BY DEF Init
<1>3. QED
  BY <1>1, <1>2, PipelineAssumption DEF Init, TypeOK, PipelineAssumption

\* Every step keeps them.
LEMMA TypeNext == TypeOK /\ [Next]_vars => TypeOK'
<1> SUFFICES ASSUME TypeOK, [Next]_vars PROVE TypeOK'
  OBVIOUS
<1> USE PipelineAssumption DEF PipelineAssumption
<1>1. CASE ReceiveFrame
  <2>1. PICK n \in 1..MaxUpdates : frame' \in [1..n -> Inputs \cup {Noise}]
    BY <1>1 DEF ReceiveFrame
  <2>2. frame' \in Seq(Inputs \cup {Noise})
    BY <2>1
  <2>3. QED
    BY <1>1, <2>2, RelayTyped DEF ReceiveFrame, TypeOK, traces, tally
<1>2. CASE Skip
  <2>1. Tail(frame) \in Seq(Inputs \cup {Noise}) /\ Len(Tail(frame)) = Len(frame) - 1
    BY <1>2, TailTyped DEF Skip, TypeOK
  <2>2. Len(frame) \in Nat
    BY DEF TypeOK
  <2>3. QED
    BY <1>2, <2>1, <2>2, RelayTyped DEF Skip, TypeOK, traces, tally
<1>3. CASE RecordEvent
  <2>1. /\ Tail(frame) \in Seq(Inputs \cup {Noise}) /\ Len(Tail(frame)) = Len(frame) - 1
        /\ Head(frame) \in Inputs /\ Len(frame) \in Nat
    BY <1>3, TailTyped DEF RecordEvent, Known, TypeOK
  <2>2. ring' \in Seq(Traces)
    <3> DEFINE t == [id |-> nextID', kind |-> Head(frame), outcome |-> "pending"]
    <3>1. t \in Traces
      BY <1>3, <2>1 DEF RecordEvent, Traces, TypeOK
    <3> HIDE DEF t
    <3>2. Len(ring) >= RingCapacity => ring # <<>>
      BY DEF TypeOK
    <3>3. AppendTrace(t) \in Seq(Traces)
      BY <3>1, <3>2, AppendTyped, TailTyped DEF AppendTrace, TypeOK
    <3>4. QED
      BY <1>3, <3>3 DEF RecordEvent, t
  <2>3. counters' \in [Inputs -> Nat]
    <3>1. counters \in [Inputs -> Nat]
      BY DEF TypeOK
    <3>2. counters' = [counters EXCEPT ![Head(frame)] = @ + 1]
      BY <1>3 DEF RecordEvent
    <3>3. QED
      BY <2>1, <3>1, <3>2, OneMore
  <2>4. QED
    BY <1>3, <2>1, <2>2, <2>3, RelayTyped DEF RecordEvent, TypeOK, tally
<1>4. CASE Enqueue
  <2>1. traced \in Events
    BY <1>4 DEF Enqueue, TypeOK
  <2>2. RTypeOK'
    BY <1>4, <2>1, RelayTyped DEF Enqueue, TypeOK
  <2>3. QED
    BY <1>4, <2>2 DEF Enqueue, TypeOK, traces
<1>5. CASE Forward
  <2>1. RTypeOK'
    BY <1>5, RelayTyped DEF Forward, TypeOK
  <2>2. ring' \in Seq(Traces)
    BY <1>5, MarkTyped DEF Forward, TypeOK
  <2>3. QED
    BY <1>5, <2>1, <2>2 DEF Forward, TypeOK, runner
<1>6. CASE Drop
  <2>1. RTypeOK'
    BY <1>6, RelayTyped DEF Drop, TypeOK
  <2>2. QED
    BY <1>6, <2>1 DEF Drop, TypeOK, runner, traces
<1>7. CASE Stop \/ UNCHANGED vars
  <2>1. RTypeOK'
    BY <1>7, RelayTyped DEF Stop, TypeOK, vars
  <2>2. QED
    BY <1>7, <2>1 DEF Stop, TypeOK, vars, runner, traces, tally
<1>8. QED
  BY <1>1, <1>2, <1>3, <1>4, <1>5, <1>6, <1>7 DEF Next

\* Every variable has its type; a frame never holds more than the bound allows.
THEOREM TypeCorrect == Spec => []TypeOK
  BY TypeInit, TypeNext, PTL DEF Spec

-----------------------------------------------------------------------------
(* The ring.                                                               *)

LEMMA RingNext == TypeOK /\ TypeOK' /\ RingIsNewest /\ [Next]_vars => RingIsNewest'
<1> SUFFICES ASSUME TypeOK, TypeOK', RingIsNewest, [Next]_vars PROVE RingIsNewest'
  OBVIOUS
<1> USE PipelineAssumption DEF PipelineAssumption
<1>1. CASE RecordEvent
  <2> DEFINE t == [id |-> nextID', kind |-> Head(frame), outcome |-> "pending"]
  <2>1. nextID' = nextID + 1 /\ ring' = AppendTrace(t) /\ t.id = nextID + 1
    BY <1>1 DEF RecordEvent
  <2>2. Len(ring) \in Nat /\ nextID \in Nat
    BY DEF TypeOK
  <2>3. t \in Traces
    <3>1. Head(frame) \in Inputs
      BY <1>1, TailTyped DEF RecordEvent, Known, TypeOK
    <3>2. QED
      BY <2>1, <2>2, <3>1 DEF Traces
  <2> HIDE DEF t
  <2>4. CASE Len(ring) >= RingCapacity
    <3>1. ring # <<>>
      BY <2>4 DEF TypeOK
    <3>2. /\ Tail(ring) \in Seq(Traces) /\ Len(Tail(ring)) = Len(ring) - 1
          /\ \A i \in 1..Len(Tail(ring)) : Tail(ring)[i] = ring[i + 1]
      BY <3>1, TailTyped DEF TypeOK
    <3>3. ring' = Append(Tail(ring), t)
      BY <2>1, <2>4 DEF AppendTrace
    <3>4. /\ Len(ring') = Len(ring) /\ ring'[Len(ring)] = t
          /\ \A i \in 1..(Len(ring) - 1) : ring'[i] = ring[i + 1]
      BY <2>2, <2>3, <3>2, <3>3, AppendTyped
    <3>5. Len(ring) = RingCapacity /\ nextID >= RingCapacity
      BY <2>2, <2>4 DEF RingIsNewest
    <3>6. Len(ring') = IF nextID' < RingCapacity THEN nextID' ELSE RingCapacity
      BY <2>1, <2>2, <3>4, <3>5
    <3>7. ASSUME NEW i \in 1..Len(ring') PROVE ring'[i].id = nextID' - Len(ring') + i
      <4>1. CASE i = Len(ring)
        BY <4>1, <2>1, <2>2, <3>4
      <4>2. CASE i # Len(ring)
        <5>1. i \in 1..(Len(ring) - 1) /\ i + 1 \in 1..Len(ring)
          BY <4>2, <2>2, <3>4
        <5>2. ring'[i] = ring[i + 1] /\ ring[i + 1].id = nextID - Len(ring) + (i + 1)
          BY <5>1, <3>4 DEF RingIsNewest
        <5>3. QED
          BY <5>1, <5>2, <2>1, <2>2, <3>4
      <4>3. QED
        BY <4>1, <4>2
    <3>8. QED
      BY <3>6, <3>7 DEF RingIsNewest
  <2>5. CASE Len(ring) < RingCapacity
    <3>1. ring' = Append(ring, t)
      BY <2>1, <2>2, <2>5 DEF AppendTrace
    <3>2. /\ Len(ring') = Len(ring) + 1 /\ ring'[Len(ring) + 1] = t
          /\ \A i \in 1..Len(ring) : ring'[i] = ring[i]
      BY <2>3, <3>1, AppendTyped DEF TypeOK
    <3>3. QED
      BY <2>1, <2>2, <2>5, <3>2 DEF RingIsNewest
  <2>6. QED
    BY <2>2, <2>4, <2>5
<1>2. CASE Forward
  BY <1>2, MarkTyped DEF Forward, TypeOK, RingIsNewest
<1>3. CASE ReceiveFrame \/ Skip \/ Enqueue \/ Drop \/ Stop \/ UNCHANGED vars
  BY <1>3 DEF ReceiveFrame, Skip, Enqueue, Drop, Stop, vars, traces, RingIsNewest
<1>4. QED
  BY <1>1, <1>2, <1>3 DEF Next

LEMMA RingInit == Init => RingIsNewest
  BY PipelineAssumption DEF Init, RingIsNewest, PipelineAssumption

\* The ring is the tail of the history: the newest events, without a gap.
THEOREM RingHoldsNewest == Spec => []RingIsNewest
<1>1. TypeOK /\ RingIsNewest /\ [Next]_vars => (TypeOK /\ RingIsNewest)'
  BY TypeNext, RingNext
<1>2. QED
  BY TypeInit, RingInit, <1>1, PTL DEF Spec

-----------------------------------------------------------------------------
(* The outcomes.                                                           *)

\* Only recorded events have a verdict or are in the line; those in the line have
\* none yet and are there once; so does the one about to be enqueued.
LineOK == /\ \A e \in Events : e > nextID => verdict[e] = "none"
          /\ \A i \in 1..Len(line) : line[i] <= nextID /\ verdict[line[i]] = "none"
          /\ \A i, j \in 1..Len(line) : line[i] = line[j] => i = j

Inv == TypeOK /\ RingIsNewest /\ LineOK /\ OutcomeOnItsTrace

\* What Settle does to the line and the verdicts.
LEMMA SettleEffect ==
  ASSUME TypeOK, LineOK, Settle, UNCHANGED nextID
  PROVE  /\ LineOK'
         /\ Head(line) \in Events /\ verdict[Head(line)] = "none"
         /\ \A e \in Events : e # Head(line) => verdict'[e] = verdict[e]
<1>1. line \in Seq(Events) /\ line # <<>> /\ line' = Tail(line) /\ nextID \in Nat
  BY DEF Settle, TypeOK, RTypeOK
<1>2. /\ Len(line) \in Nat /\ Len(line) > 0 /\ Len(line') = Len(line) - 1
      /\ Head(line) \in Events /\ Head(line) = line[1]
      /\ \A i \in 1..Len(line') : line'[i] = line[i + 1]
      /\ \A i \in 1..Len(line) : line[i] \in Events
  BY <1>1, TailTyped
<1>3. \A e \in Events : e # Head(line) => verdict'[e] = verdict[e]
  BY <1>2 DEF Settle, TypeOK, RTypeOK
<1>4. verdict[Head(line)] = "none" /\ Head(line) <= nextID
  BY <1>2 DEF LineOK
<1>5. \A e \in Events : e > nextID => verdict'[e] = "none"
  BY <1>3, <1>4, <1>1, PipelineAssumption DEF LineOK, PipelineAssumption
<1>6. \A i \in 1..Len(line') : line'[i] <= nextID /\ verdict'[line'[i]] = "none"
  <2> SUFFICES ASSUME NEW i \in 1..Len(line')
               PROVE  line'[i] <= nextID /\ verdict'[line'[i]] = "none"
    OBVIOUS
  <2>1. i + 1 \in 1..Len(line) /\ 1 \in 1..Len(line) /\ i + 1 # 1
    BY <1>2
  <2>2. line[i + 1] # line[1] /\ line[i + 1] \in Events
    BY <2>1, <1>2 DEF LineOK
  <2>3. QED
    BY <2>1, <2>2, <1>2, <1>3 DEF LineOK
<1>7. \A i, j \in 1..Len(line') : line'[i] = line'[j] => i = j
  BY <1>2 DEF LineOK
<1>8. QED
  BY <1>2, <1>3, <1>4, <1>5, <1>6, <1>7 DEF LineOK

LEMMA OutcomeNext == Inv /\ [Next]_vars => LineOK' /\ OutcomeOnItsTrace'
<1> SUFFICES ASSUME Inv, TypeOK', RingIsNewest', [Next]_vars
             PROVE  LineOK' /\ OutcomeOnItsTrace'
  BY TypeNext, RingNext DEF Inv
<1> USE PipelineAssumption DEF PipelineAssumption
<1>t. /\ TypeOK /\ RingIsNewest /\ LineOK /\ OutcomeOnItsTrace
      /\ nextID \in Nat /\ Len(ring) \in Nat /\ Len(line) \in Nat
      /\ line \in Seq(Events) /\ ring \in Seq(Traces)
      /\ verdict \in [Events -> Verdicts]
  <2>1. TypeOK /\ RingIsNewest /\ LineOK /\ OutcomeOnItsTrace
    BY DEF Inv
  <2>2. nextID \in Nat /\ ring \in Seq(Traces)
    BY <2>1 DEF TypeOK
  <2>3. line \in Seq(Events) /\ verdict \in [Events -> Verdicts]
    BY <2>1 DEF TypeOK, RTypeOK
  <2>4. Len(ring) \in Nat /\ Len(line) \in Nat
    BY <2>2, <2>3
  <2>5. QED
    BY <2>1, <2>2, <2>3, <2>4
\* The traces in the ring are those of recorded events.
<1>r. \A i \in 1..Len(ring) : ring[i].id \in Events /\ ring[i].id <= nextID
  <2>1. \A i \in 1..Len(ring) : ring[i].id \in 1..nextID
    BY <1>t DEF RingIsNewest
  <2>2. nextID <= MaxEvents
    BY <1>t DEF TypeOK
  <2>3. QED
    BY <1>t, <2>1, <2>2
<1>1. CASE RecordEvent
  <2>1. /\ nextID' = nextID + 1 /\ verdict' = verdict /\ line' = line
        /\ nextID' \in Events
    BY <1>1, <1>t DEF RecordEvent, rvars, TypeOK
  <2>2. LineOK'
    BY <1>t, <2>1 DEF LineOK
  <2> DEFINE t == [id |-> nextID', kind |-> Head(frame), outcome |-> "pending"]
  <2>3. ring' = AppendTrace(t) /\ t.outcome = "pending" /\ t.id = nextID'
    BY <1>1 DEF RecordEvent
  <2>4. t \in Traces
    <3>1. Head(frame) \in Inputs
      BY <1>1, <1>t, TailTyped DEF RecordEvent, Known, TypeOK
    <3>2. QED
      BY <2>1, <1>t, <3>1 DEF Traces
  <2> HIDE DEF t
  <2>5. \A i \in 1..Len(ring') : ring'[i] = t \/ \E j \in 1..Len(ring) : ring'[i] = ring[j]
    <3>1. CASE Len(ring) >= RingCapacity
      <4>1. /\ Tail(ring) \in Seq(Traces) /\ Len(Tail(ring)) = Len(ring) - 1
            /\ \A i \in 1..Len(Tail(ring)) : Tail(ring)[i] = ring[i + 1]
        BY <3>1, <1>t, TailTyped
      <4>2. ring' = Append(Tail(ring), t)
        BY <2>3, <3>1 DEF AppendTrace
      <4>3. /\ Len(ring') = Len(ring) /\ ring'[Len(ring)] = t
            /\ \A i \in 1..(Len(ring) - 1) : ring'[i] = ring[i + 1]
        BY <1>t, <2>4, <4>1, <4>2, AppendTyped
      <4>4. ASSUME NEW i \in 1..Len(ring), i # Len(ring)
            PROVE  i \in 1..(Len(ring) - 1) /\ i + 1 \in 1..Len(ring)
        BY <4>4, <1>t
      <4>5. QED
        BY <4>3, <4>4
    <3>2. CASE Len(ring) < RingCapacity
      <4>1. ring' = Append(ring, t)
        BY <2>3, <3>2, <1>t DEF AppendTrace
      <4>2. QED
        BY <1>t, <2>4, <4>1, AppendTyped
    <3>3. QED
      BY <3>1, <3>2, <1>t
  <2>6. verdict[t.id] = "none"
    BY <1>t, <2>1, <2>3 DEF LineOK
  <2>7. ASSUME NEW i \in 1..Len(ring')
        PROVE  ring'[i].outcome = IF verdict'[ring'[i].id] \in {"success", "failure"}
                                    THEN verdict'[ring'[i].id] ELSE "pending"
    <3>1. CASE ring'[i] = t
      BY <3>1, <2>1, <2>3, <2>6
    <3>2. ASSUME NEW j \in 1..Len(ring), ring'[i] = ring[j]
          PROVE  ring'[i].outcome = IF verdict'[ring'[i].id] \in {"success", "failure"}
                                      THEN verdict'[ring'[i].id] ELSE "pending"
      BY <3>2, <1>t, <2>1 DEF OutcomeOnItsTrace
    <3>3. QED
      BY <2>5, <3>1, <3>2
  <2>8. OutcomeOnItsTrace'
    BY <2>7 DEF OutcomeOnItsTrace
  <2>9. QED
    BY <2>2, <2>8
<1>2. CASE Enqueue
  <2>1. ring' = ring /\ nextID' = nextID /\ traced \in 1..nextID /\ traced \in Events
    BY <1>2, <1>t DEF Enqueue, traces, TypeOK
  <2>2. CASE Accept(traced)
    <3>1. /\ line' = Append(line, traced) /\ verdict' = verdict /\ verdict[traced] = "none"
          /\ \A i \in 1..Len(line) : line[i] # traced
      BY <2>2 DEF Accept, Waiting
    <3>2. /\ Len(line') = Len(line) + 1 /\ line'[Len(line) + 1] = traced
          /\ \A i \in 1..Len(line) : line'[i] = line[i]
      BY <1>t, <2>1, <3>1, AppendTyped
    <3>3. \A i \in 1..Len(line') : i = Len(line) + 1 \/ i \in 1..Len(line)
      BY <1>t, <3>2
    <3>4. traced <= nextID' /\ verdict'[traced] = "none"
      BY <1>t, <2>1, <3>1
    <3>5. \A i \in 1..Len(line') : line'[i] <= nextID' /\ verdict'[line'[i]] = "none"
      BY <1>t, <2>1, <3>1, <3>2, <3>3, <3>4 DEF LineOK
    <3>6. \A i, j \in 1..Len(line') : line'[i] = line'[j] => i = j
      BY <1>t, <3>1, <3>2, <3>3 DEF LineOK
    <3>7. LineOK'
      BY <1>t, <2>1, <3>1, <3>5, <3>6 DEF LineOK
    <3>8. QED
      BY <3>1, <3>7, <2>1, <1>t DEF OutcomeOnItsTrace
  <2>3. CASE Reject(traced)
    <3>1. /\ line' = line /\ verdict' = [verdict EXCEPT ![traced] = "overflow"]
          /\ verdict[traced] = "none" /\ \A i \in 1..Len(line) : line[i] # traced
      BY <2>3 DEF Reject, Waiting
    <3>2. LineOK'
      BY <1>t, <2>1, <3>1 DEF LineOK
    <3>3. OutcomeOnItsTrace'
      BY <1>t, <1>r, <2>1, <3>1 DEF OutcomeOnItsTrace
    <3>4. QED
      BY <3>2, <3>3
  <2>4. QED
    BY <1>2, <2>2, <2>3 DEF Enqueue
<1>3. CASE Forward
  <2>1. /\ LineOK'
        /\ Head(line) \in Events /\ verdict[Head(line)] = "none"
        /\ \A e \in Events : e # Head(line) => verdict'[e] = verdict[e]
    BY <1>3, <1>t, SettleEffect DEF Forward
  <2>2. /\ verdict'[Head(line)] \in {"success", "failure"}
        /\ Mark(Head(line), verdict'[Head(line)])
    BY <1>3 DEF Forward
  <2>3. /\ Len(ring') = Len(ring)
        /\ \A i \in 1..Len(ring) :
             /\ ring'[i].id = ring[i].id
             /\ ring'[i].outcome = IF ring[i].id = Head(line) THEN verdict'[Head(line)]
                                                              ELSE ring[i].outcome
    BY <1>t, <2>2, MarkTyped
  <2>4. ASSUME NEW i \in 1..Len(ring)
        PROVE  ring'[i].outcome = IF verdict'[ring'[i].id] \in {"success", "failure"}
                                    THEN verdict'[ring'[i].id] ELSE "pending"
    <3>1. CASE ring[i].id = Head(line)
      BY <3>1, <2>2, <2>3
    <3>2. CASE ring[i].id # Head(line)
      <4>1. verdict'[ring[i].id] = verdict[ring[i].id]
        BY <3>2, <1>r, <2>1
      <4>2. QED
        BY <3>2, <4>1, <1>t, <2>3 DEF OutcomeOnItsTrace
    <3>3. QED
      BY <3>1, <3>2
  <2>5. OutcomeOnItsTrace'
    BY <2>3, <2>4 DEF OutcomeOnItsTrace
  <2>6. QED
    BY <2>1, <2>5
<1>4. CASE Drop
  <2>1. /\ LineOK'
        /\ Head(line) \in Events /\ verdict[Head(line)] = "none"
        /\ \A e \in Events : e # Head(line) => verdict'[e] = verdict[e]
    BY <1>4, <1>t, SettleEffect DEF Drop, traces
  <2>2. verdict'[Head(line)] \in {"expired", "lost"} /\ ring' = ring
    BY <1>4 DEF Drop, traces
  <2>3. OutcomeOnItsTrace'
    BY <1>t, <1>r, <2>1, <2>2 DEF OutcomeOnItsTrace
  <2>4. QED
    BY <2>1, <2>3
<1>5. CASE ReceiveFrame \/ Skip \/ Stop \/ UNCHANGED vars
  BY <1>5, <1>t DEF ReceiveFrame, Skip, Stop, Halt, vars, rvars, traces, LineOK,
                    OutcomeOnItsTrace
<1>6. QED
  BY <1>1, <1>2, <1>3, <1>4, <1>5 DEF Next

LEMMA InvInductive == Spec => []Inv
<1>1. Init => Inv
  <2>1. ASSUME Init PROVE LineOK /\ OutcomeOnItsTrace
    BY <2>1 DEF Init, RInit, LineOK, OutcomeOnItsTrace
  <2>2. QED
    BY <2>1, TypeInit, RingInit DEF Inv
<1>2. Inv /\ [Next]_vars => Inv'
  BY TypeNext, RingNext, OutcomeNext DEF Inv
<1>3. QED
  BY <1>1, <1>2, PTL DEF Spec

\* A trace never shows the outcome of another event, nor loses its own.
THEOREM OutcomesInPlace == Spec => []OutcomeOnItsTrace
<1>1. Inv => OutcomeOnItsTrace
  BY DEF Inv
<1>2. QED
  BY InvInductive, <1>1, PTL

-----------------------------------------------------------------------------
(* The line.  What follows is said of EventRelay alone, so that it holds   *)
(* of whatever implements it, the dispatcher of HassDispatcher as well.    *)

\* Who waits, waits once, for a first verdict, and is one of Capacity + 1.
InLine == /\ Len(line) <= Capacity + 1
          /\ \A i \in 1..Len(line) : verdict[line[i]] = "none"
          /\ \A i, j \in 1..Len(line) : line[i] = line[j] => i = j

\* e waits ahead of f.
Ahead(e, f) == \E i, j \in 1..Len(line) : i < j /\ line[i] = e /\ line[j] = f

\* An event has one verdict and keeps it; none has its verdict before those that wait ahead
\* of it, nor overtakes them.
VerdictsStay == [][\A e \in Events : verdict[e] # "none" => verdict'[e] = verdict[e]]_rvars
FirstInFirstOut ==
  [][\A e, f \in Events : Ahead(e, f) => verdict'[f] = "none" /\ (e \in Waiting' => Ahead(e, f)')]_rvars

\* The line as Accept leaves it.
LEMMA AcceptEffect ==
  ASSUME RTypeOK, Capacity \in Nat, InLine, NEW e \in Events, Accept(e)
  PROVE  /\ InLine' /\ verdict' = verdict
         /\ \A d, f \in Events : Ahead(d, f) => verdict'[f] = "none" /\ Ahead(d, f)'
<1>1. /\ line \in Seq(Events) /\ line' = Append(line, e) /\ verdict' = verdict
      /\ Len(line) \in Nat /\ Len(line) <= Capacity
      /\ verdict[e] = "none" /\ \A i \in 1..Len(line) : line[i] # e
  BY DEF Accept, Waiting, RTypeOK
<1>2. /\ Len(line') = Len(line) + 1 /\ line'[Len(line) + 1] = e
      /\ \A i \in 1..Len(line) : line'[i] = line[i]
      /\ \A i \in 1..Len(line') : i = Len(line) + 1 \/ i \in 1..Len(line)
      /\ 1..Len(line) \subseteq 1..Len(line')
  <2>1. /\ Len(line') = Len(line) + 1 /\ line'[Len(line) + 1] = e
        /\ \A i \in 1..Len(line) : line'[i] = line[i]
    BY <1>1, AppendTyped
  <2>2. QED
    BY <1>1, <2>1
<1>3. InLine'
  BY <1>1, <1>2 DEF InLine
<1>4. ASSUME NEW d \in Events, NEW f \in Events, Ahead(d, f)
      PROVE  verdict'[f] = "none" /\ Ahead(d, f)'
  <2>1. PICK i \in 1..Len(line), j \in 1..Len(line) : i < j /\ line[i] = d /\ line[j] = f
    BY <1>4 DEF Ahead
  <2>2. i \in 1..Len(line') /\ j \in 1..Len(line') /\ line'[i] = d /\ line'[j] = f
    BY <1>2, <2>1
  <2>3. QED
    BY <1>1, <2>1, <2>2 DEF InLine, Ahead
<1>5. QED
  BY <1>1, <1>3, <1>4

\* The line and the verdicts as Settle leaves them.
LEMMA SettleKeepsOrder ==
  ASSUME RTypeOK, Capacity \in Nat, InLine, Settle
  PROVE  /\ InLine'
         /\ \A e \in Events : verdict[e] # "none" => verdict'[e] = verdict[e]
         /\ \A d, f \in Events : Ahead(d, f) =>
              verdict'[f] = "none" /\ (d \in Waiting' => Ahead(d, f)')
<1>1. line \in Seq(Events) /\ line # <<>> /\ line' = Tail(line)
  BY DEF Settle, RTypeOK
<1>2. /\ Len(line) \in Nat /\ Len(line) > 0 /\ Len(line') = Len(line) - 1
      /\ Head(line) \in Events /\ Head(line) = line[1]
      /\ \A i \in 1..Len(line') : line'[i] = line[i + 1]
      /\ \A i \in 1..Len(line) : line[i] \in Events
  BY <1>1, TailTyped
<1>3. \A e \in Events : e # line[1] => verdict'[e] = verdict[e]
  BY <1>2 DEF Settle, RTypeOK
<1>4. 1 \in 1..Len(line) /\ verdict[line[1]] = "none"
  BY <1>2 DEF InLine
<1>5. \A i \in 1..Len(line') : i + 1 \in 1..Len(line) /\ i + 1 # 1
  BY <1>2
<1>6. \A i \in 1..Len(line) : i # 1 => i - 1 \in 1..Len(line')
  BY <1>2
<1>7. \A i \in 1..Len(line) : i # 1 => verdict'[line[i]] = "none" /\ line'[i - 1] = line[i]
  <2> SUFFICES ASSUME NEW i \in 1..Len(line), i # 1
               PROVE  verdict'[line[i]] = "none" /\ line'[i - 1] = line[i]
    OBVIOUS
  <2>1. line[i] # line[1] /\ line[i] \in Events /\ verdict[line[i]] = "none"
    BY <1>2, <1>4 DEF InLine
  <2>2. line'[i - 1] = line[(i - 1) + 1] /\ (i - 1) + 1 = i
    BY <1>2, <1>6
  <2>3. QED
    BY <1>3, <2>1, <2>2
<1>8. InLine'
  <2>1. Len(line') <= Capacity + 1
    BY <1>2 DEF InLine
  <2>2. \A i \in 1..Len(line') : verdict'[line'[i]] = "none"
    BY <1>2, <1>5, <1>7
  <2>3. \A i, j \in 1..Len(line') : line'[i] = line'[j] => i = j
    <3> SUFFICES ASSUME NEW i \in 1..Len(line'), NEW j \in 1..Len(line'), line'[i] = line'[j]
                 PROVE  i = j
      OBVIOUS
    <3>1. line[i + 1] = line[j + 1] /\ i + 1 \in 1..Len(line) /\ j + 1 \in 1..Len(line)
      BY <1>2, <1>5
    <3>2. i + 1 = j + 1
      BY <3>1 DEF InLine
    <3>3. QED
      BY <3>2
  <2>4. QED
    BY <2>1, <2>2, <2>3 DEF InLine
<1>9. ASSUME NEW d \in Events, NEW f \in Events, Ahead(d, f)
      PROVE  verdict'[f] = "none" /\ (d \in Waiting' => Ahead(d, f)')
  <2>1. PICK i \in 1..Len(line), j \in 1..Len(line) : i < j /\ line[i] = d /\ line[j] = f
    BY <1>9 DEF Ahead
  <2>2. j # 1 /\ verdict'[f] = "none" /\ j - 1 \in 1..Len(line') /\ line'[j - 1] = f
    <3>1. j # 1
      BY <2>1
    <3>2. QED
      BY <1>6, <1>7, <2>1, <3>1
  <2>3. ASSUME d \in Waiting' PROVE i # 1
    <3>1. PICK k \in 1..Len(line') : line'[k] = d
      BY <2>3 DEF Waiting
    <3>2. line[k + 1] = line[i] /\ k + 1 \in 1..Len(line) /\ k + 1 # 1
      BY <1>2, <1>5, <2>1, <3>1
    <3>3. QED
      BY <3>2 DEF InLine
  <2>4. ASSUME i # 1 PROVE Ahead(d, f)'
    <3>1. i - 1 \in 1..Len(line') /\ line'[i - 1] = d /\ i - 1 < j - 1
      BY <1>6, <1>7, <2>1, <2>4
    <3>2. QED
      BY <2>2, <3>1 DEF Ahead
  <2>5. QED
    BY <2>2, <2>3, <2>4
<1>10. QED
  BY <1>3, <1>4, <1>8, <1>9

\* The order in which the events are accepted is the order in which they have their
\* verdicts, which are final; and the line is never longer than its Capacity and the one
\* that is being delivered (client.go of internal/hass, Enqueue and worker).
THEOREM LineInOrder ==
  Capacity \in Nat => (RSpec => [](RTypeOK /\ InLine) /\ VerdictsStay /\ FirstInFirstOut)
<1> SUFFICES ASSUME Capacity \in Nat
             PROVE  RSpec => [](RTypeOK /\ InLine) /\ VerdictsStay /\ FirstInFirstOut
  OBVIOUS
<1>1. RInit => RTypeOK /\ InLine
  <2> SUFFICES ASSUME RInit PROVE RTypeOK /\ InLine
    OBVIOUS
  <2>1. line = <<>> /\ line \in Seq(Events) /\ Len(line) = 0
    BY DEF RInit
  <2>2. RTypeOK
    BY <2>1 DEF RInit, RTypeOK, Verdicts
  <2>3. InLine
    BY <2>1 DEF InLine
  <2>4. QED
    BY <2>2, <2>3
<1> DEFINE Stays == \A e \in Events : verdict[e] # "none" => verdict'[e] = verdict[e]
           Ordered == \A e, f \in Events :
                        Ahead(e, f) => verdict'[f] = "none" /\ (e \in Waiting' => Ahead(e, f)')
<1>2. RTypeOK /\ InLine /\ [RNext]_rvars => RTypeOK' /\ InLine' /\ [Stays /\ Ordered]_rvars
  <2> SUFFICES ASSUME RTypeOK, InLine, [RNext]_rvars
               PROVE  RTypeOK' /\ InLine' /\ ((Stays /\ Ordered) \/ UNCHANGED rvars)
    OBVIOUS
  <2>1. RTypeOK'
    BY RelayTyped DEF RNext
  <2>2. ASSUME NEW e \in Events, Accept(e) PROVE InLine' /\ Stays /\ Ordered
    BY <2>2, AcceptEffect
  <2>3. ASSUME NEW e \in Events, Reject(e) PROVE InLine' /\ Stays /\ Ordered
    <3>1. /\ line' = line /\ verdict[e] = "none" /\ \A i \in 1..Len(line) : line[i] # e
          /\ \A d \in Events : d # e => verdict'[d] = verdict[d]
          /\ \A i \in 1..Len(line) : line[i] \in Events
      BY <2>3 DEF Reject, Waiting, RTypeOK
    <3>2. QED
      BY <3>1 DEF InLine, Ahead
  <2>4. CASE Settle
    BY <2>1, <2>4, SettleKeepsOrder
  <2>5. CASE Halt
    <3>1. line' = line /\ verdict' = verdict
      BY <2>5 DEF Halt
    <3>2. InLine' /\ Stays
      BY <3>1 DEF InLine
    <3>3. Ordered
      BY <3>1 DEF Ahead, InLine
    <3>4. QED
      BY <2>1, <3>2, <3>3
  <2>6. CASE UNCHANGED rvars
    <3>1. InLine'
      BY <2>6 DEF rvars, InLine
    <3>2. QED
      BY <2>1, <2>6, <3>1
  <2>7. QED
    BY <2>1, <2>2, <2>3, <2>4, <2>5, <2>6 DEF RNext
<1>3. RSpec => [](RTypeOK /\ InLine) /\ [][Stays /\ Ordered]_rvars
  BY <1>1, <1>2, PTL DEF RSpec
<1>4. [Stays /\ Ordered]_rvars => [Stays]_rvars /\ [Ordered]_rvars
  OBVIOUS
<1>5. QED
  BY <1>3, <1>4, PTL DEF VerdictsStay, FirstInFirstOut

\* The pipeline does with the dispatcher what EventRelay says and no more (runner.go,
\* handleFrame): the dispatcher of HassDispatcher is one that it can be built on.
THEOREM UsesRelay == Spec => RSpec
<1>1. Init => RInit
  BY DEF Init
<1>2. TypeOK /\ [Next]_vars => [RNext]_rvars
  <2> SUFFICES ASSUME TypeOK, [Next]_vars PROVE RNext \/ UNCHANGED rvars
    OBVIOUS
  <2>1. CASE Enqueue
    <3>1. traced \in Events
      BY <2>1, PipelineAssumption DEF Enqueue, TypeOK, PipelineAssumption
    <3>2. QED
      BY <2>1, <3>1 DEF Enqueue, RNext
  <2>2. CASE Forward \/ Drop \/ Stop
    BY <2>2 DEF Forward, Drop, Stop, RNext
  <2>3. CASE ReceiveFrame \/ Skip \/ RecordEvent \/ UNCHANGED vars
    BY <2>3 DEF ReceiveFrame, Skip, RecordEvent, vars
  <2>4. QED
    BY <2>1, <2>2, <2>3 DEF Next
<1>3. QED
  BY <1>1, <1>2, TypeCorrect, PTL DEF Spec, RSpec

-----------------------------------------------------------------------------
(* The books.                                                              *)

\* The lost events can be counted, for there are finitely many events.
LEMMA LostFinite == IsFiniteSet(Lost) /\ Cardinality(Lost) \in Nat
<1>1. IsFiniteSet(Events)
  BY FS_Interval, PipelineAssumption DEF PipelineAssumption
<1>2. Lost \subseteq Events
  BY DEF Lost
<1>3. QED
  BY <1>1, <1>2, FS_Subset, FS_CardinalityType

\* A step that gives no event the verdict "lost" and takes none away.
LEMMA SameLost ==
  ASSUME \A e \in Events : verdict'[e] = "lost" <=> verdict[e] = "lost"
  PROVE  Cardinality(Lost') = Cardinality(Lost)
<1>1. Lost' = Lost
  BY DEF Lost
<1>2. QED
  BY <1>1

\* Every event the status page has counted can be found again: it is dispatched, dropped,
\* lost to the shutdown, in the line or about to be enqueued, and in one of them only.
THEOREM BooksBalance == Spec => []Books
<1> USE PipelineAssumption DEF PipelineAssumption
<1>1. Init => Books
  <2> SUFFICES ASSUME Init PROVE Books
    OBVIOUS
  <2>1. Lost = {} /\ Len(line) = 0
    BY DEF Init, RInit, Lost
  <2>2. QED
    BY <2>1, FS_EmptySet DEF Init, Books
<1>2. Inv /\ Books /\ [Next]_vars => Books'
  <2> SUFFICES ASSUME Inv, Books, [Next]_vars PROVE Books'
    OBVIOUS
  <2> DEFINE lost == Cardinality(Lost)
             handed == IF traced = 0 THEN 0 ELSE 1
  <2>t. /\ dispatched \in Nat /\ acked \in Nat /\ failed \in Nat /\ dropCount \in Nat
        /\ nextID \in Nat /\ lost \in Nat /\ line \in Seq(Events) /\ Len(line) \in Nat
        /\ verdict \in [Events -> Verdicts] /\ traced \in 0..nextID
        /\ dispatched = acked + failed
        /\ nextID = dispatched + dropCount + lost + Len(line) + handed
    BY LostFinite DEF Inv, TypeOK, RTypeOK, Books
  <2>1. CASE RecordEvent
    <3>1. /\ nextID' = nextID + 1 /\ traced' = nextID + 1 /\ traced = 0
          /\ UNCHANGED <<line, verdict, dispatched, acked, failed, dropCount>>
      BY <2>1 DEF RecordEvent, rvars, tally
    <3>2. lost' = lost
      BY <3>1, SameLost
    <3>3. QED
      BY <2>t, <3>1, <3>2 DEF Books
  <2>2. CASE Enqueue
    <3>1. /\ traced \in Events /\ traced # 0 /\ traced' = 0
          /\ UNCHANGED <<nextID, dispatched, acked, failed>>
      BY <2>2 DEF Enqueue, traces, Inv, TypeOK
    <3>2. CASE Accept(traced) /\ UNCHANGED dropCount
      <4>1. UNCHANGED verdict /\ Len(line') = Len(line) + 1
        BY <2>t, <3>1, <3>2, AppendTyped DEF Accept
      <4>2. lost' = lost
        BY <4>1, SameLost
      <4>3. QED
        BY <2>t, <3>1, <3>2, <4>1, <4>2 DEF Books
    <3>3. CASE Reject(traced) /\ dropCount' = dropCount + 1
      <4>1. /\ UNCHANGED line /\ verdict[traced] = "none"
            /\ verdict' = [verdict EXCEPT ![traced] = "overflow"]
        BY <3>3 DEF Reject
      <4>2. lost' = lost
        BY <2>t, <3>1, <4>1, SameLost
      <4>3. QED
        BY <2>t, <3>1, <3>3, <4>1, <4>2 DEF Books
    <3>4. QED
      BY <2>2, <3>2, <3>3 DEF Enqueue
  <2>3. ASSUME Settle, UNCHANGED <<nextID, traced>>
        PROVE  /\ Len(line) > 0 /\ Len(line') = Len(line) - 1
               /\ verdict'[Head(line)] # "lost" => lost' = lost
               /\ verdict'[Head(line)] = "lost" => lost' = lost + 1
    <3>1. /\ Head(line) \in Events /\ verdict[Head(line)] = "none"
          /\ \A e \in Events : e # Head(line) => verdict'[e] = verdict[e]
      BY <2>3, SettleEffect DEF Inv
    <3>2. Len(line) > 0 /\ Len(line') = Len(line) - 1
      BY <2>t, <2>3, TailTyped DEF Settle
    <3>3. CASE verdict'[Head(line)] # "lost"
      BY <3>1, <3>2, <3>3, SameLost
    <3>4. CASE verdict'[Head(line)] = "lost"
      <4>1. Lost' = Lost \cup {Head(line)} /\ Head(line) \notin Lost
        BY <3>1, <3>4 DEF Lost
      <4>2. QED
        BY <3>2, <3>4, <4>1, LostFinite, FS_AddElement
    <3>5. QED
      BY <3>3, <3>4
  <2>4. CASE Forward
    <3>1. /\ Settle /\ UNCHANGED <<nextID, traced, dropCount>>
          /\ dispatched' = dispatched + 1
          /\ verdict'[Head(line)] # "lost"
          /\ \/ acked' = acked + 1 /\ failed' = failed
             \/ acked' = acked /\ failed' = failed + 1
      BY <2>4 DEF Forward, runner
    <3>2. Len(line) > 0 /\ Len(line') = Len(line) - 1 /\ lost' = lost
      BY <2>3, <3>1
    <3>3. handed' = handed /\ handed \in Nat
      BY <3>1
    <3>4. dispatched' = acked' + failed'
      <4>1. dispatched \in Nat /\ acked \in Nat /\ failed \in Nat /\ dispatched = acked + failed
        BY <2>t
      <4>2. CASE acked' = acked + 1 /\ failed' = failed
        BY <3>1, <4>1, <4>2
      <4>3. CASE acked' = acked /\ failed' = failed + 1
        BY <3>1, <4>1, <4>3
      <4>4. QED
        BY <3>1, <4>2, <4>3
    <3>5. nextID' = dispatched' + dropCount' + lost' + Len(line') + handed'
      BY <2>t, <3>1, <3>2, <3>3
    <3>6. QED
      BY <3>4, <3>5 DEF Books
  <2>5. CASE Drop
    <3>1. /\ Settle /\ UNCHANGED <<nextID, traced, dispatched, acked, failed>>
          /\ \/ verdict'[Head(line)] = "expired" /\ dropCount' = dropCount + 1
             \/ verdict'[Head(line)] = "lost" /\ dropCount' = dropCount
      BY <2>5 DEF Drop, runner, traces
    <3>2. /\ Len(line) > 0 /\ Len(line') = Len(line) - 1
          /\ \/ lost' = lost /\ dropCount' = dropCount + 1
             \/ lost' = lost + 1 /\ dropCount' = dropCount
      BY <2>3, <3>1
    <3>3. handed' = handed
      BY <3>1
    <3>4. QED
      BY <2>t, <3>1, <3>2, <3>3 DEF Books
  <2>6. CASE ReceiveFrame \/ Skip \/ Stop \/ UNCHANGED vars
    <3>1. UNCHANGED <<nextID, traced, line, verdict, dispatched, acked, failed, dropCount>>
      BY <2>6 DEF ReceiveFrame, Skip, Stop, Halt, vars, rvars, runner, traces, tally
    <3>2. lost' = lost
      BY <3>1, SameLost
    <3>3. QED
      BY <2>t, <3>1, <3>2 DEF Books
  <2>7. QED
    BY <2>1, <2>2, <2>4, <2>5, <2>6 DEF Next
<1>3. QED
  BY InvInductive, <1>1, <1>2, PTL DEF Spec

-----------------------------------------------------------------------------
(* The shapes of an event: the conversions of EventSchema agree for every  *)
(* device with a name, every update and every time.                        *)

\* A time that Decode has stamped is positive: later conversions leave it alone.
LEMMA StampPositive ==
  ASSUME NEW ts \in Int
  PROVE  /\ Stamp(ts) \in Int /\ Stamp(ts) > 0
         /\ Stamp(Stamp(ts)) = Stamp(ts)
         /\ ts <= MaxInt => Stamp(ts) <= MaxInt
  BY SchemaAssumption DEF Stamp, MaxInt

\* The time of an event is an int64 when the one that came with it is.
LEMMA StampInRange ==
  ASSUME NEW ts \in Int, ts <= MaxInt
  PROVE  Stamp(ts) \in 1..MaxInt
<1>1. Stamp(ts) \in Int /\ Stamp(ts) > 0 /\ Stamp(ts) <= MaxInt
  BY StampPositive
<1>2. MaxInt \in Int
  BY SchemaAssumption DEF MaxInt
<1>3. QED
  BY <1>1, <1>2

\* An event with another time.
Retime(event, time) == [event EXCEPT !.timestamp = time]

\* A button event that has been read, as a payload and as an event again.
LEMMA ButtonAgain ==
  ASSUME NEW d, NEW ts, NEW time, NEW b, NEW a, NEW event, NEW read,
         event = [device |-> d, type |-> "button", timestamp |-> ts,
                  data |-> [button |-> b, action |-> a]],
         read = [device |-> d, type |-> "button", timestamp |-> time,
                 data |-> [button |-> b, action |-> a]]
  PROVE  ToEvent(ToPayload(read)) = Retime(event, time)
<1> DEFINE again == [device |-> d, type |-> "button", timestamp |-> time,
                     data |-> [button |-> b, action |-> a]]
<1>1. Retime(event, time) = again
  BY DEF Retime
<1>2. ToEvent(ToPayload(read)) = again
  BY DEF ToEvent, ToPayload
<1>3. QED
  BY <1>1, <1>2

\* A switch event that has been read, as a payload and as an event again.
LEMMA SwitchAgain ==
  ASSUME NEW d, NEW ts, NEW time, NEW a, NEW event, NEW read,
         event = [device |-> d, type |-> "switch", timestamp |-> ts,
                  data |-> [position |-> a]],
         read = [device |-> d, type |-> "switch", timestamp |-> time,
                 data |-> [position |-> a]]
  PROVE  ToEvent(ToPayload(read)) = Retime(event, time)
<1> DEFINE again == [device |-> d, type |-> "switch", timestamp |-> time,
                     data |-> [position |-> a]]
<1>1. Retime(event, time) = again
  BY DEF Retime
<1>2. ToEvent(ToPayload(read)) = again
  BY DEF ToEvent, ToPayload
<1>3. QED
  BY <1>1, <1>2

\* A encoder event that has been read, as a payload and as an event again.
LEMMA EncoderAgain ==
  ASSUME NEW d, NEW ts, NEW time, NEW a, NEW event, NEW read,
         event = [device |-> d, type |-> "encoder", timestamp |-> ts,
                  data |-> [delta |-> [go |-> "int", n |-> a]]],
         read = [device |-> d, type |-> "encoder", timestamp |-> time,
                 data |-> [delta |-> [go |-> "float64", n |-> a]]]
  PROVE  ToEvent(ToPayload(read)) = Retime(event, time)
<1> DEFINE again == [device |-> d, type |-> "encoder", timestamp |-> time,
                     data |-> [delta |-> [go |-> "int", n |-> a]]]
<1>1. Retime(event, time) = again
  BY DEF Retime
<1>2. ToEvent(ToPayload(read)) = again
  BY DEF ToEvent, ToPayload
<1>3. QED
  BY <1>1, <1>2

\* The two tables of names are the same.
LEMMA SameNames == \A value : Word(value) = Name(value)
  BY DEF Word, Name

\* What TranslateEvent makes of a decoded update: the envelope is the decoder's.
LEMMA Translated ==
  ASSUME NEW deviceID, deviceID # "", NEW ts \in Int, NEW u
  PROVE  TranslateEvent(Decode(deviceID, ts, u)) =
           [device |-> deviceID, type |-> u.kind, timestamp |-> Stamp(ts),
            data |-> Data(Decode(deviceID, ts, u))]
  BY StampPositive DEF TranslateEvent, Decode

-----------------------------------------------------------------------------
(* Numbers that have been a float64.                                       *)

LEMMA LessTimes == ASSUME NEW a \in Nat, NEW b \in Nat, NEW c \in Nat, a <= b
                   PROVE  c * a <= c * b
  OBVIOUS

\* Between two powers of two there is one gap between floats.
LEMMA SpacingIs ==
  ASSUME NEW n \in 0..MaxInt
  PROVE  LET s == Spacing(n) IN
         /\ s \in Spacings
         /\ s = 1 \/ n > Precision * (s \div 2)
<1> DEFINE Fits(s) == n <= Precision * s /\ (s = 1 \/ n > Precision * (s \div 2))
<1>1. n \in Nat /\ Precision \in Nat /\ n <= Precision * 1024
  BY SchemaAssumption DEF MaxInt
<1>2. \/ Fits(1) \/ Fits(2) \/ Fits(4) \/ Fits(8) \/ Fits(16) \/ Fits(32)
      \/ Fits(64) \/ Fits(128) \/ Fits(256) \/ Fits(512) \/ Fits(1024)
  BY <1>1
<1>3. \E s \in Spacings : Fits(s)
  <2> HIDE DEF Fits
  <2>1. QED
    BY <1>2 DEF Spacings
<1>4. Spacing(n) \in Spacings /\ Fits(Spacing(n))
  BY <1>3 DEF Spacing
<1>5. QED
  BY <1>4

\* Rounding leaves a number up to Precision as it is, and moves a larger one by less than
\* one part in Precision.
LEMMA NearestIs ==
  ASSUME NEW n \in 0..MaxInt
  PROVE  /\ Nearest(n) \in Nat
         /\ n <= Precision => Nearest(n) = n
         /\ n > 0 => (n - Nearest(n)) * Precision < n /\ (Nearest(n) - n) * Precision < n
<1> DEFINE s == Spacing(n)
           h == s \div 2
           rest == n % s
<1>0. n \in Nat /\ Precision \in Nat /\ Precision > 0
  BY SchemaAssumption DEF MaxInt
<1>1. s \in Spacings /\ (s = 1 \/ n > Precision * h)
  BY SpacingIs
<1>2. Nearest(n) \in {n - rest, n - rest + s}
      /\ (Nearest(n) = n - rest => rest = 0 \/ 2 * rest <= s \/ s = 0)
      /\ (Nearest(n) # n - rest => 2 * rest >= s)
  <2>1. s \in Nat /\ s > 0
    BY <1>1 DEF Spacings
  <2>2. rest \in Nat
    <3> HIDE DEF s
    <3>1. QED
      BY <1>0, <2>1
  <2> HIDE DEF rest, s
  <2>3. QED
    BY <1>0, <2>1, <2>2 DEF Nearest, rest, s
<1>3. CASE s = 1
  <2>1. rest = 0
    BY <1>0, <1>3
  <2>2. Nearest(n) = n
    BY <1>0, <1>2, <1>3, <2>1
  <2>3. (n - n) * Precision = 0
    BY <1>0
  <2>4. QED
    BY <1>0, <2>2, <2>3
<1>4. CASE s # 1
  <2>1. h \in Nat /\ h >= 1 /\ s = 2 * h
    BY <1>1, <1>4 DEF Spacings
  <2>2. n > Precision * h /\ Precision <= Precision * h
    <3> HIDE DEF h, s
    <3>1. Precision * 1 <= Precision * h
      BY <1>0, <2>1, LessTimes
    <3>2. QED
      BY <1>0, <1>1, <1>4, <3>1
  <2>3. rest \in Nat /\ rest < s /\ rest <= n
    <3> HIDE DEF h, s
    <3>1. QED
      BY <1>0, <2>1
  <2> HIDE DEF h, s, rest
  <2>4. PICK e \in 0..h : Nearest(n) = n - e \/ Nearest(n) = n + e
    <3>1. CASE Nearest(n) = n - rest
      BY <1>0, <1>2, <2>1, <2>3, <3>1
    <3>2. CASE Nearest(n) # n - rest
      <4>1. s - rest \in 0..h /\ Nearest(n) = n + (s - rest)
        BY <1>0, <1>2, <2>1, <2>3, <3>2
      <4>2. QED
        BY <4>1
    <3>3. QED
      BY <3>1, <3>2
  <2>5. Precision * e <= Precision * h /\ Precision * e \in Nat /\ Precision * h \in Nat
    BY <1>0, <2>1, <2>4, LessTimes
  <2>6. Nearest(n) \in Nat
    BY <1>0, <1>2, <2>1, <2>3
  <2>7. (n - Nearest(n)) * Precision < n /\ (Nearest(n) - n) * Precision < n
    <3>1. e * Precision < n /\ (-e) * Precision < n
      BY <1>0, <2>2, <2>4, <2>5
    <3>2. n - Nearest(n) \in {e, -e} /\ Nearest(n) - n \in {e, -e}
      BY <1>0, <2>4, <2>6
    <3>3. QED
      BY <3>1, <3>2
  <2>8. QED
    BY <1>0, <2>1, <2>2, <2>6, <2>7
<1>5. QED
  BY <1>3, <1>4

\* A delta of 32 bits is a float64 unchanged.
LEMMA DeltaIsExact == ASSUME NEW d \in Deltas PROVE Float64(d) = d
<1>1. d \in Int /\ -Precision <= d /\ d <= Precision /\ Precision \in Nat \ {0}
  BY SchemaAssumption
<1>2. \A n \in Nat : n <= Precision => Nearest(n) = n
  BY <1>1, NearestIs DEF MaxInt
<1>3. QED
  BY <1>1, <1>2 DEF Float64

\* What is read of a timestamp is within the bounds that ReadBack gives it.
LEMMA TimeIsNear ==
  ASSUME NEW t \in 1..MaxInt, NEW r, r = Int64(Float64(t))
  PROVE  LET error == IF r > t THEN r - t ELSE t - r
         IN  /\ t <= Precision => r = t
             /\ Float64(t) <= MaxInt => error * Precision < t
<1>1. t \in Nat /\ t > 0 /\ Precision \in Nat \ {0} /\ t <= MaxInt
  BY SchemaAssumption DEF MaxInt
<1>2. Float64(t) = Nearest(t)
  BY <1>1 DEF Float64
<1>3. Float64(t) <= MaxInt => r = Nearest(t)
  BY <1>2 DEF Int64
<1>4. t <= Precision => r = t
  BY <1>1, <1>2, <1>3, NearestIs DEF MaxInt
<1>5. ASSUME Float64(t) <= MaxInt
      PROVE  (r - t) * Precision < t /\ (t - r) * Precision < t
  BY <1>1, <1>3, <1>5, NearestIs
<1>6. QED
  BY <1>4, <1>5

-----------------------------------------------------------------------------
(* The JSON object of each type of event, and the event read from it.      *)

\* MarshalJSON of a button event.
LEMMA ButtonSent ==
  ASSUME NEW d, NEW ts, NEW a, NEW b
  PROVE  MarshalJSON([device |-> d, type |-> "button", timestamp |-> ts,
                      data |-> [button |-> a, action |-> b]])
           = [device |-> d, type |-> "button", button |-> a, action |-> b, timestamp |-> ts]
<1> DEFINE data     == [button |-> a, action |-> b]
           envelope == [device |-> d, type |-> "button", timestamp |-> ts]
           event    == [device |-> d, type |-> "button", timestamp |-> ts, data |-> data]
           object   == [device |-> d, type |-> "button", button |-> a, action |-> b, timestamp |-> ts]
           value(k) == IF k \in DOMAIN envelope THEN envelope[k] ELSE Number(k, data[k])
<1>1. DOMAIN data \cup DOMAIN envelope = DOMAIN object
  OBVIOUS
<1>2. MarshalJSON(event) = [k \in DOMAIN data \cup DOMAIN envelope |-> value(k)]
  BY DEF MarshalJSON
<1>3. ASSUME NEW k \in DOMAIN object PROVE object[k] = value(k)
  BY DEF Number
<1>4. object = [k \in DOMAIN object |-> object[k]]
  OBVIOUS
<1> HIDE DEF value, object, data, envelope
<1>5. [k \in DOMAIN object |-> object[k]] = [k \in DOMAIN object |-> value(k)]
  BY <1>3
<1>6. QED
  BY <1>1, <1>2, <1>4, <1>5 DEF object, data, event

\* UnmarshalJSON of the object of a button event.
LEMMA ButtonRead ==
  ASSUME NEW d, NEW ts, NEW a, NEW b
  PROVE  UnmarshalJSON([device |-> d, type |-> "button", button |-> a, action |-> b, timestamp |-> ts])
           = [device |-> d, type |-> "button", timestamp |-> Int64(Float64(ts)),
              data |-> [button |-> a, action |-> b]]
<1> DEFINE object   == [device |-> d, type |-> "button", button |-> a, action |-> b, timestamp |-> ts]
           data     == [button |-> a, action |-> b]
           rest     == DOMAIN object \ {"device", "type", "timestamp"}
<1>1. rest = DOMAIN data
  OBVIOUS
<1>2. ASSUME NEW k \in DOMAIN data PROVE data[k] = Float(k, object[k])
  BY DEF Float
<1>3. data = [k \in DOMAIN data |-> data[k]]
  OBVIOUS
<1>4. object.device = d /\ object.type = "button" /\ object.timestamp = ts
  OBVIOUS
<1> HIDE DEF object, data
<1>5. [k \in rest |-> Float(k, object[k])] = data
  BY <1>1, <1>2, <1>3
<1>6. UnmarshalJSON(object) = [device |-> d, type |-> "button",
                              timestamp |-> Int64(Float64(ts)), data |-> data]
  BY <1>4, <1>5 DEF UnmarshalJSON
<1>7. QED
  BY <1>6 DEF object, data

\* MarshalJSON of a switch event.
LEMMA SwitchSent ==
  ASSUME NEW d, NEW ts, NEW a
  PROVE  MarshalJSON([device |-> d, type |-> "switch", timestamp |-> ts,
                      data |-> [position |-> a]])
           = [device |-> d, type |-> "switch", position |-> a, timestamp |-> ts]
<1> DEFINE data     == [position |-> a]
           envelope == [device |-> d, type |-> "switch", timestamp |-> ts]
           event    == [device |-> d, type |-> "switch", timestamp |-> ts, data |-> data]
           object   == [device |-> d, type |-> "switch", position |-> a, timestamp |-> ts]
           value(k) == IF k \in DOMAIN envelope THEN envelope[k] ELSE Number(k, data[k])
<1>1. DOMAIN data \cup DOMAIN envelope = DOMAIN object
  OBVIOUS
<1>2. MarshalJSON(event) = [k \in DOMAIN data \cup DOMAIN envelope |-> value(k)]
  BY DEF MarshalJSON
<1>3. ASSUME NEW k \in DOMAIN object PROVE object[k] = value(k)
  BY DEF Number
<1>4. object = [k \in DOMAIN object |-> object[k]]
  OBVIOUS
<1> HIDE DEF value, object, data, envelope
<1>5. [k \in DOMAIN object |-> object[k]] = [k \in DOMAIN object |-> value(k)]
  BY <1>3
<1>6. QED
  BY <1>1, <1>2, <1>4, <1>5 DEF object, data, event

\* UnmarshalJSON of the object of a switch event.
LEMMA SwitchRead ==
  ASSUME NEW d, NEW ts, NEW a
  PROVE  UnmarshalJSON([device |-> d, type |-> "switch", position |-> a, timestamp |-> ts])
           = [device |-> d, type |-> "switch", timestamp |-> Int64(Float64(ts)),
              data |-> [position |-> a]]
<1> DEFINE object   == [device |-> d, type |-> "switch", position |-> a, timestamp |-> ts]
           data     == [position |-> a]
           rest     == DOMAIN object \ {"device", "type", "timestamp"}
<1>1. rest = DOMAIN data
  OBVIOUS
<1>2. ASSUME NEW k \in DOMAIN data PROVE data[k] = Float(k, object[k])
  BY DEF Float
<1>3. data = [k \in DOMAIN data |-> data[k]]
  OBVIOUS
<1>4. object.device = d /\ object.type = "switch" /\ object.timestamp = ts
  OBVIOUS
<1> HIDE DEF object, data
<1>5. [k \in rest |-> Float(k, object[k])] = data
  BY <1>1, <1>2, <1>3
<1>6. UnmarshalJSON(object) = [device |-> d, type |-> "switch",
                              timestamp |-> Int64(Float64(ts)), data |-> data]
  BY <1>4, <1>5 DEF UnmarshalJSON
<1>7. QED
  BY <1>6 DEF object, data

\* MarshalJSON of a encoder event.
LEMMA EncoderSent ==
  ASSUME NEW d, NEW ts, NEW a
  PROVE  MarshalJSON([device |-> d, type |-> "encoder", timestamp |-> ts,
                      data |-> [delta |-> [go |-> "int", n |-> a]]])
           = [device |-> d, type |-> "encoder", delta |-> a, timestamp |-> ts]
<1> DEFINE data     == [delta |-> [go |-> "int", n |-> a]]
           envelope == [device |-> d, type |-> "encoder", timestamp |-> ts]
           event    == [device |-> d, type |-> "encoder", timestamp |-> ts, data |-> data]
           object   == [device |-> d, type |-> "encoder", delta |-> a, timestamp |-> ts]
           value(k) == IF k \in DOMAIN envelope THEN envelope[k] ELSE Number(k, data[k])
<1>1. DOMAIN data \cup DOMAIN envelope = DOMAIN object
  OBVIOUS
<1>2. MarshalJSON(event) = [k \in DOMAIN data \cup DOMAIN envelope |-> value(k)]
  BY DEF MarshalJSON
<1>3. ASSUME NEW k \in DOMAIN object PROVE object[k] = value(k)
  BY DEF Number
<1>4. object = [k \in DOMAIN object |-> object[k]]
  OBVIOUS
<1> HIDE DEF value, object, data, envelope
<1>5. [k \in DOMAIN object |-> object[k]] = [k \in DOMAIN object |-> value(k)]
  BY <1>3
<1>6. QED
  BY <1>1, <1>2, <1>4, <1>5 DEF object, data, event

\* UnmarshalJSON of the object of a encoder event.
LEMMA EncoderRead ==
  ASSUME NEW d, NEW ts, NEW a \in Deltas
  PROVE  UnmarshalJSON([device |-> d, type |-> "encoder", delta |-> a, timestamp |-> ts])
           = [device |-> d, type |-> "encoder", timestamp |-> Int64(Float64(ts)),
              data |-> [delta |-> [go |-> "float64", n |-> a]]]
<1> DEFINE object   == [device |-> d, type |-> "encoder", delta |-> a, timestamp |-> ts]
           data     == [delta |-> [go |-> "float64", n |-> a]]
           rest     == DOMAIN object \ {"device", "type", "timestamp"}
<1>1. rest = DOMAIN data
  OBVIOUS
<1>2. ASSUME NEW k \in DOMAIN data PROVE data[k] = Float(k, object[k])
  BY DeltaIsExact DEF Float
<1>3. data = [k \in DOMAIN data |-> data[k]]
  OBVIOUS
<1>4. object.device = d /\ object.type = "encoder" /\ object.timestamp = ts
  OBVIOUS
<1> HIDE DEF object, data
<1>5. [k \in rest |-> Float(k, object[k])] = data
  BY <1>1, <1>2, <1>3
<1>6. UnmarshalJSON(object) = [device |-> d, type |-> "encoder",
                              timestamp |-> Int64(Float64(ts)), data |-> data]
  BY <1>4, <1>5 DEF UnmarshalJSON
<1>7. QED
  BY <1>6 DEF object, data

\* What comes back of an event with the time ts that is sent.
Back(event, ts) ==
  LET read == UnmarshalJSON(MarshalJSON(event))
  IN  /\ DOMAIN read.data = DOMAIN event.data
      /\ ToEvent(ToPayload(read)) = Retime(event, read.timestamp)
      /\ event.timestamp = ts
      /\ read.timestamp = Int64(Float64(ts))

\* A button event is sent, read, made a payload and made an event again.
LEMMA ButtonBack ==
  ASSUME NEW d, NEW ts, NEW b, NEW a
  PROVE  Back([device |-> d, type |-> "button", timestamp |-> ts,
               data |-> [button |-> b, action |-> a]], ts)
<1> DEFINE event  == [device |-> d, type |-> "button", timestamp |-> ts,
                      data |-> [button |-> b, action |-> a]]
           read   == UnmarshalJSON(MarshalJSON(event))
           object == [device |-> d, type |-> "button", button |-> b, action |-> a, timestamp |-> ts]
<1>1. MarshalJSON(event) = object
  BY ButtonSent
<1>2. UnmarshalJSON(object)
        = [device |-> d, type |-> "button", timestamp |-> Int64(Float64(ts)),
           data |-> [button |-> b, action |-> a]]
  BY ButtonRead
<1>3. read = [device |-> d, type |-> "button", timestamp |-> Int64(Float64(ts)),
              data |-> [button |-> b, action |-> a]]
  BY <1>1, <1>2
<1>4. event.timestamp = ts /\ read.timestamp = Int64(Float64(ts))
  BY <1>3
<1>5. DOMAIN read.data = DOMAIN event.data
  BY <1>3
<1>6. ToEvent(ToPayload(read)) = Retime(event, read.timestamp)
  BY <1>3, <1>4, ButtonAgain
<1>7. QED
  BY <1>4, <1>5, <1>6 DEF Back

\* A switch event is sent, read, made a payload and made an event again.
LEMMA SwitchBack ==
  ASSUME NEW d, NEW ts, NEW a
  PROVE  Back([device |-> d, type |-> "switch", timestamp |-> ts,
               data |-> [position |-> a]], ts)
<1> DEFINE event  == [device |-> d, type |-> "switch", timestamp |-> ts,
                      data |-> [position |-> a]]
           read   == UnmarshalJSON(MarshalJSON(event))
           object == [device |-> d, type |-> "switch", position |-> a, timestamp |-> ts]
<1>1. MarshalJSON(event) = object
  BY SwitchSent
<1>2. UnmarshalJSON(object)
        = [device |-> d, type |-> "switch", timestamp |-> Int64(Float64(ts)),
           data |-> [position |-> a]]
  BY SwitchRead
<1>3. read = [device |-> d, type |-> "switch", timestamp |-> Int64(Float64(ts)),
              data |-> [position |-> a]]
  BY <1>1, <1>2
<1>4. event.timestamp = ts /\ read.timestamp = Int64(Float64(ts))
  BY <1>3
<1>5. DOMAIN read.data = DOMAIN event.data
  BY <1>3
<1>6. ToEvent(ToPayload(read)) = Retime(event, read.timestamp)
  BY <1>3, <1>4, SwitchAgain
<1>7. QED
  BY <1>4, <1>5, <1>6 DEF Back

\* A encoder event is sent, read, made a payload and made an event again.
LEMMA EncoderBack ==
  ASSUME NEW d, NEW ts, NEW a \in Deltas
  PROVE  Back([device |-> d, type |-> "encoder", timestamp |-> ts,
               data |-> [delta |-> [go |-> "int", n |-> a]]], ts)
<1> DEFINE event  == [device |-> d, type |-> "encoder", timestamp |-> ts,
                      data |-> [delta |-> [go |-> "int", n |-> a]]]
           read   == UnmarshalJSON(MarshalJSON(event))
           object == [device |-> d, type |-> "encoder", delta |-> a, timestamp |-> ts]
<1>1. MarshalJSON(event) = object
  BY EncoderSent
<1>2. UnmarshalJSON(object)
        = [device |-> d, type |-> "encoder", timestamp |-> Int64(Float64(ts)),
           data |-> [delta |-> [go |-> "float64", n |-> a]]]
  BY EncoderRead
<1>3. read = [device |-> d, type |-> "encoder", timestamp |-> Int64(Float64(ts)),
              data |-> [delta |-> [go |-> "float64", n |-> a]]]
  BY <1>1, <1>2
<1>4. event.timestamp = ts /\ read.timestamp = Int64(Float64(ts))
  BY <1>3
<1>5. DOMAIN read.data = DOMAIN event.data
  BY <1>3
<1>6. ToEvent(ToPayload(read)) = Retime(event, read.timestamp)
  BY <1>3, <1>4, EncoderAgain
<1>7. QED
  BY <1>4, <1>5, <1>6 DEF Back

-----------------------------------------------------------------------------
(* The theorems.                                                           *)

\* TranslateEvent and MarshalJSON (runner.go, hass/event.go) on the one hand and
\* ToHomeAssistantJSON (pb/event.go) on the other make the same object of an update.
THEOREM SchemasAgree ==
  ASSUME NEW deviceID, deviceID # "", NEW ts \in Int,
         NEW kind \in {"button", "switch", "encoder"}, NEW u \in Updates(kind)
  PROVE  SameObject(deviceID, ts, u)
<1> DEFINE norm == Decode(deviceID, ts, u)
           event == TranslateEvent(norm)
<1>1. Stamp(ts) \in Int /\ Stamp(ts) > 0
  BY StampPositive
<1>2. event = [device |-> deviceID, type |-> u.kind, timestamp |-> Stamp(ts),
               data |-> Data(norm)]
  BY Translated
<1>3. CASE kind = "button"
  <2> DEFINE object ==
       [device |-> deviceID, type |-> "button", button |-> Word(KnownOr(u.button)),
        action |-> Word(KnownOr(u.action)),
        timestamp |-> Stamp(ts)]
  <2>1. u.kind = "button"
    BY <1>3 DEF Updates
  <2>2. event = [device |-> deviceID, type |-> "button", timestamp |-> Stamp(ts),
                 data |-> [button |-> Word(KnownOr(u.button)), action |-> Word(KnownOr(u.action))]]
    BY <1>2, <2>1 DEF Data, Decode, Detail
  <2>3. MarshalJSON(event) = object
    BY <2>2, ButtonSent
  <2>4. ToHomeAssistantJSON(norm) = object
    BY <1>1, <2>1, SameNames DEF ToHomeAssistantJSON, Decode, Detail
  <2>5. QED
    BY <2>3, <2>4 DEF SameObject
<1>4. CASE kind = "switch"
  <2> DEFINE object ==
       [device |-> deviceID, type |-> "switch", position |-> Word(KnownOr(u.position)),
        timestamp |-> Stamp(ts)]
  <2>1. u.kind = "switch"
    BY <1>4 DEF Updates
  <2>2. event = [device |-> deviceID, type |-> "switch", timestamp |-> Stamp(ts),
                 data |-> [position |-> Word(KnownOr(u.position))]]
    BY <1>2, <2>1 DEF Data, Decode, Detail
  <2>3. MarshalJSON(event) = object
    BY <2>2, SwitchSent
  <2>4. ToHomeAssistantJSON(norm) = object
    BY <1>1, <2>1, SameNames DEF ToHomeAssistantJSON, Decode, Detail
  <2>5. QED
    BY <2>3, <2>4 DEF SameObject
<1>5. CASE kind = "encoder"
  <2> DEFINE object ==
       [device |-> deviceID, type |-> "encoder", delta |-> u.delta,
        timestamp |-> Stamp(ts)]
  <2>1. u.kind = "encoder"
    BY <1>5 DEF Updates
  <2>2. event = [device |-> deviceID, type |-> "encoder", timestamp |-> Stamp(ts),
                 data |-> [delta |-> [go |-> "int", n |-> u.delta]]]
    BY <1>2, <2>1 DEF Data, Decode, Detail
  <2>3. MarshalJSON(event) = object
    BY <2>2, EncoderSent
  <2>4. ToHomeAssistantJSON(norm) = object
    BY <1>1, <2>1, SameNames DEF ToHomeAssistantJSON, Decode, Detail
  <2>5. QED
    BY <2>3, <2>4 DEF SameObject
<1>6. QED
  BY <1>3, <1>4, <1>5

\* What has been sent can be read back and made an event again, for every time that is an
\* int64: the same event, but for a time beyond 2^53 (hass/event.go).
THEOREM SentReadsBack ==
  ASSUME NEW deviceID, deviceID # "", NEW ts \in Int, ts <= MaxInt,
         NEW kind \in {"button", "switch", "encoder"}, NEW u \in Updates(kind)
  PROVE  ReadBack(deviceID, ts, u)
<1> DEFINE norm  == Decode(deviceID, ts, u)
           event == TranslateEvent(norm)
           read  == UnmarshalJSON(MarshalJSON(event))
<1>1. event = [device |-> deviceID, type |-> u.kind, timestamp |-> Stamp(ts),
               data |-> Data(norm)]
  BY Translated
<1>2. Back(event, Stamp(ts))
  <2>1. CASE kind = "button"
    <3>1. u.kind = "button"
      BY <2>1 DEF Updates
    <3>2. event = [device |-> deviceID, type |-> "button", timestamp |-> Stamp(ts),
                   data |-> [button |-> Word(KnownOr(u.button)),
                             action |-> Word(KnownOr(u.action))]]
      BY <1>1, <3>1 DEF Data, Decode, Detail
    <3> HIDE DEF event
    <3>3. QED
      BY <3>2, ButtonBack
  <2>2. CASE kind = "switch"
    <3>1. u.kind = "switch"
      BY <2>2 DEF Updates
    <3>2. event = [device |-> deviceID, type |-> "switch", timestamp |-> Stamp(ts),
                   data |-> [position |-> Word(KnownOr(u.position))]]
      BY <1>1, <3>1 DEF Data, Decode, Detail
    <3> HIDE DEF event
    <3>3. QED
      BY <3>2, SwitchBack
  <2>3. CASE kind = "encoder"
    <3>1. u.kind = "encoder" /\ u.delta \in Deltas
      BY <2>3 DEF Updates
    <3>2. event = [device |-> deviceID, type |-> "encoder", timestamp |-> Stamp(ts),
                   data |-> [delta |-> [go |-> "int", n |-> u.delta]]]
      BY <1>1, <3>1 DEF Data, Decode, Detail
    <3> HIDE DEF event
    <3>3. QED
      BY <3>1, <3>2, EncoderBack
  <2>4. QED
    BY <2>1, <2>2, <2>3
<1>3. Stamp(ts) \in 1..MaxInt
  BY StampInRange
<1>4. /\ event.timestamp <= Precision => read.timestamp = event.timestamp
      /\ LET error == IF read.timestamp > event.timestamp
                        THEN read.timestamp - event.timestamp
                        ELSE event.timestamp - read.timestamp
         IN  Float64(event.timestamp) <= MaxInt => error * Precision < event.timestamp
  <2> HIDE DEF event, read
  <2>1. QED
    BY <1>2, <1>3, TimeIsNear DEF Back, read
<1>5. QED
  BY <1>2, <1>4 DEF ReadBack, Retime, Back

-----------------------------------------------------------------------------
(* What the status page shows.                                             *)

\* A trace in the ring has a kind that EventSchema knows.
LEMMA KindKnown ==
  ASSUME TypeOK, NEW i \in 1..Len(ring)
  PROVE  ring[i].kind \in {"button", "switch", "encoder"}
<1>1. ring[i] \in Traces
  BY DEF TypeOK
<1>2. QED
  BY <1>1, PipelineAssumption DEF Traces

\* Everything the status page shows was sent as the one object (runner.go, pb/event.go).
THEOREM ShownInOneSchema == Spec => []OneSchema
<1>1. TypeOK => OneSchema
  <2> SUFFICES ASSUME TypeOK, NEW i \in 1..Len(ring), NEW s \in Shapes(ring[i].kind)
               PROVE  SameObject("busybar", s[2], s[1])
    BY DEF OneSchema
  <2>1. s[1] \in Updates(ring[i].kind) /\ s[2] \in Int
    BY PipelineAssumption DEF Shapes
  <2>2. QED
    BY <2>1, KindKnown, SchemasAgree
<1>2. QED
  BY <1>1, TypeCorrect, PTL

\* Everything the status page shows can be read back, with its time as far as a float64
\* can hold it (hass/event.go).
THEOREM ShownCanBeRead == Spec => []SentIsReadable
<1>1. TypeOK => SentIsReadable
  <2> SUFFICES ASSUME TypeOK, NEW i \in 1..Len(ring), NEW s \in Shapes(ring[i].kind)
               PROVE  ReadBack("busybar", s[2], s[1])
    BY DEF SentIsReadable
  <2>1. s[1] \in Updates(ring[i].kind) /\ s[2] \in Int /\ s[2] <= MaxInt
    BY PipelineAssumption DEF Shapes
  <2>2. QED
    BY <2>1, KindKnown, SentReadsBack
<1>2. QED
  BY <1>1, TypeCorrect, PTL
=============================================================================
