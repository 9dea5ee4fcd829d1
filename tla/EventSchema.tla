---------------------------- MODULE EventSchema ----------------------------
(***************************************************************************)
(* The shapes an input takes on its way, and the conversions between them: *)
(* the update the device sends, the normalized event of Decoder.Decode     *)
(* (internal/busybar/decoder.go), the event of TranslateEvent              *)
(* (internal/runner/runner.go), the JSON object of MarshalJSON and back by *)
(* UnmarshalJSON, the typed payloads (internal/hass/event.go), and the     *)
(* second way to the same object, ToHomeAssistantJSON (pkg/pb/event.go).   *)
(*                                                                         *)
(* A JSON object is a record.  A number in the Data of an event has a Go   *)
(* type: an int when the bridge made the event, a float64 when it comes    *)
(* from JSON, which has room for the first 53 bits of a number.            *)
(***************************************************************************)
EXTENDS Integers

CONSTANTS Clock,      \* the Unix time now
          Deltas,     \* the steps of the encoder, of 32 bits
          Precision,  \* 2^53: a float64 is exact up to here
          Overflow    \* what int64() makes of a float64 that is too large for it, which Go
                      \* leaves to the machine

\* The gaps between two floats, up to 2^63; and the largest int64, 2^63 - 1.
Spacings == {1, 2, 4, 8, 16, 32, 64, 128, 256, 512, 1024}
MaxInt   == Precision * 1024 - 1

ASSUME SchemaAssumption == /\ Precision \in Nat \ {0} /\ Overflow \in Int
                           /\ Clock \in 1..MaxInt /\ Deltas \subseteq -Precision..Precision

-----------------------------------------------------------------------------
(* What the device sends.  "other" is a value this version has no name for.*)

DeviceButtons   == {"OK", "BACK", "START", "other"}
DeviceActions   == {"PRESS", "RELEASE", "other"}
DevicePositions == {"BUSY", "CUSTOM", "OFF", "APPS", "SETTINGS", "other"}

Updates(kind) ==
  CASE kind = "button"  -> [kind : {kind}, button : DeviceButtons, action : DeviceActions]
    [] kind = "switch"  -> [kind : {kind}, position : DevicePositions]
    [] kind = "encoder" -> [kind : {kind}, delta : Deltas]

-----------------------------------------------------------------------------
(* The normalized event: a device and a time, and a detail with both again.*)

\* mapButton, mapButtonAction and mapSwitchPosition.
KnownOr(value) == IF value = "other" THEN "UNKNOWN" ELSE value

Detail(u) ==
  CASE u.kind = "button"  -> [button |-> KnownOr(u.button), action |-> KnownOr(u.action)]
    [] u.kind = "switch"  -> [position |-> KnownOr(u.position)]
    [] u.kind = "encoder" -> [delta |-> u.delta]

\* Decode stamps what has no time of its own.
Stamp(ts) == IF ts <= 0 THEN Clock ELSE ts

Decode(deviceID, ts, u) ==
  [device |-> deviceID, timestamp |-> Stamp(ts), kind |-> u.kind,
   inner |-> [device |-> deviceID, timestamp |-> Stamp(ts)], detail |-> Detail(u)]

-----------------------------------------------------------------------------
(* The event for Home Assistant.                                           *)

\* Mutant: the apps position is not among the names.
WordWithoutApps(value) ==
  CASE value = "OK" -> "ok" [] value = "BACK" -> "back" [] value = "START" -> "start"
    [] value = "PRESS" -> "press" [] value = "RELEASE" -> "release"
    [] value = "BUSY" -> "busy" [] value = "CUSTOM" -> "custom" [] value = "OFF" -> "off"
    [] value = "SETTINGS" -> "settings"
    [] OTHER -> "unknown"

\* The names of TranslateEvent.
Word(value) ==
  CASE value = "OK" -> "ok" [] value = "BACK" -> "back" [] value = "START" -> "start"
    [] value = "PRESS" -> "press" [] value = "RELEASE" -> "release"
    [] value = "BUSY" -> "busy" [] value = "CUSTOM" -> "custom" [] value = "OFF" -> "off"
    [] value = "APPS" -> "apps" [] value = "SETTINGS" -> "settings"
    [] OTHER -> "unknown"

\* The constructors NewButtonEvent, NewSwitchEvent and NewEncoderEvent.
Data(norm) ==
  CASE norm.kind = "button"  -> [button |-> Word(norm.detail.button),
                                 action |-> Word(norm.detail.action)]
    [] norm.kind = "switch"  -> [position |-> Word(norm.detail.position)]
    [] norm.kind = "encoder" -> [delta |-> [go |-> "int", n |-> norm.detail.delta]]

\* TranslateEvent: the device of the detail goes before that of the envelope.
TranslateEvent(norm) ==
  [device |-> IF norm.inner.device # "" THEN norm.inner.device
              ELSE IF norm.device # "" THEN norm.device ELSE "busybar",
   type |-> norm.kind, timestamp |-> Stamp(norm.timestamp), data |-> Data(norm)]

-----------------------------------------------------------------------------
(* JSON.                                                                   *)

\* The float64 nearest to a number: where floats are a gap apart, up or down, and to the
\* even neighbour from the middle.
Spacing(n) == CHOOSE s \in Spacings : n <= Precision * s /\ (s = 1 \/ n > Precision * (s \div 2))

Nearest(n) ==
  LET s    == Spacing(n)
      rest == n % s
      down == 2 * rest < s \/ (2 * rest = s /\ (n \div s) % 2 = 0)
  IN  IF down THEN n - rest ELSE n - rest + s

Float64(n) == IF n < 0 THEN -Nearest(-n) ELSE Nearest(n)

Int64(x) == IF x <= MaxInt THEN x ELSE Overflow

\* JSON has one type of number; reading it makes a float64.
Number(k, value) == IF k = "delta" THEN value.n ELSE value
Float(k, value)  == IF k = "delta" THEN [go |-> "float64", n |-> Float64(value)] ELSE value

\* MarshalJSON: the fields of Data next to device, type and timestamp, which win.
MarshalJSON(event) ==
  LET envelope == [device |-> event.device, type |-> event.type,
                   timestamp |-> event.timestamp]
  IN  [k \in DOMAIN event.data \cup DOMAIN envelope |->
         IF k \in DOMAIN envelope THEN envelope[k] ELSE Number(k, event.data[k])]

\* Mutant: the type stays among the data.
UnmarshalJSONKeepingType(raw) ==
  [device |-> raw.device, type |-> raw.type, timestamp |-> Int64(Float64(raw.timestamp)),
   data |-> [k \in DOMAIN raw \ {"device", "timestamp"} |-> Float(k, raw[k])]]

\* UnmarshalJSON: what is not device, type or timestamp is Data; the timestamp has been a
\* float64 too.
UnmarshalJSON(raw) ==
  [device |-> raw.device, type |-> raw.type, timestamp |-> Int64(Float64(raw.timestamp)),
   data |-> [k \in DOMAIN raw \ {"device", "type", "timestamp"} |-> Float(k, raw[k])]]

\* ToPayload: the typed payloads, whose ToEvent leads back to an event.
ToPayload(event) ==
  CASE event.type = "button"  ->
         [device |-> event.device, type |-> event.type, button |-> event.data.button,
          action |-> event.data.action, timestamp |-> event.timestamp]
    [] event.type = "switch"  ->
         [device |-> event.device, type |-> event.type, position |-> event.data.position,
          timestamp |-> event.timestamp]
    [] event.type = "encoder" ->
         [device |-> event.device, type |-> event.type, delta |-> event.data.delta.n,
          timestamp |-> event.timestamp]

ToEvent(payload) ==
  [device |-> payload.device, type |-> payload.type, timestamp |-> payload.timestamp,
   data |-> CASE payload.type = "button"  -> [button |-> payload.button,
                                              action |-> payload.action]
              [] payload.type = "switch"  -> [position |-> payload.position]
              [] payload.type = "encoder" -> [delta |-> [go |-> "int", n |-> payload.delta]]]

\* The names of ToHomeAssistantJSON, a table of its own.
Name(value) ==
  CASE value = "BUSY" -> "busy" [] value = "CUSTOM" -> "custom" [] value = "OFF" -> "off"
    [] value = "APPS" -> "apps" [] value = "SETTINGS" -> "settings"
    [] value = "OK" -> "ok" [] value = "BACK" -> "back" [] value = "START" -> "start"
    [] value = "PRESS" -> "press" [] value = "RELEASE" -> "release"
    [] OTHER -> "unknown"

\* ToHomeAssistantJSON of pkg/pb: the device and the time of the detail only where the
\* envelope has none, and no clock.
ToHomeAssistantJSON(norm) ==
  LET device == IF norm.device = "" THEN norm.inner.device ELSE norm.device
      ts     == IF norm.timestamp = 0 THEN norm.inner.timestamp ELSE norm.timestamp
  IN CASE norm.kind = "button" ->
            [device |-> device, type |-> "button", button |-> Name(norm.detail.button),
             action |-> Name(norm.detail.action), timestamp |-> ts]
       [] norm.kind = "switch" ->
            [device |-> device, type |-> "switch", position |-> Name(norm.detail.position),
             timestamp |-> ts]
       [] norm.kind = "encoder" ->
            [device |-> device, type |-> "encoder", delta |-> norm.detail.delta,
             timestamp |-> ts]

-----------------------------------------------------------------------------
(* What the conversions promise each other, for a device with a name.      *)

\* Whichever way an update goes, Home Assistant is sent the same object.
SameObject(deviceID, ts, u) ==
  LET norm == Decode(deviceID, ts, u)
  IN  MarshalJSON(TranslateEvent(norm)) = ToHomeAssistantJSON(norm)

\* An event that has been sent can be read back, with the same fields of data and nothing
\* else, typed, and made an event again: it is the one that was sent, but for its timestamp.
\* That is exact up to Precision, and from there on it is off by less than one part in as
\* many; past the largest int64 it is lost.
ReadBack(deviceID, ts, u) ==
  LET event == TranslateEvent(Decode(deviceID, ts, u))
      read  == UnmarshalJSON(MarshalJSON(event))
      sent  == event.timestamp
      error == IF read.timestamp > sent THEN read.timestamp - sent ELSE sent - read.timestamp
  IN  /\ DOMAIN read.data = DOMAIN event.data
      /\ ToEvent(ToPayload(read)) = [event EXCEPT !.timestamp = read.timestamp]
      /\ sent <= Precision => read.timestamp = sent
      /\ Float64(sent) <= MaxInt => error * Precision < sent
=============================================================================
