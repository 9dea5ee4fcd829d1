--------------------------- MODULE Configuration ---------------------------
(***************************************************************************)
(* internal/config/config.go: the defaults, overridden by the environment, *)
(* overridden by the command line, then validated; and which components    *)
(* NewRunner makes of the result.                                          *)
(*                                                                         *)
(* A raw value is reduced to what Parse and Validate tell apart: "" for    *)
(* nothing at all, "garbled" for text that is no number, duration or       *)
(* boolean, "invalid" for what parses and is refused (a port out of range, *)
(* a duration that is not positive, a URL without scheme or host, a blank  *)
(* token), "valid" for the rest, and "on" and "off" for booleans.          *)
(***************************************************************************)
EXTENDS Sequences, SequencesExt

Texts     == {"busybar_host", "busybar_device_id", "hass_url", "hass_token",
              "hass_event_type", "log_level", "google_client_id", "google_client_secret",
              "google_redirect_url", "calendar_store_path", "busybar_api_key"}
Ports     == {"busybar_port", "port"}
Durations == {"hass_timeout", "shutdown_timeout", "push_timeout", "calendar_poll_interval"}
Switches  == {"forward_state_events", "enable_outbound_push", "enable_calendar_sync"}
Typed     == Ports \cup Durations \cup Switches
Settings  == Texts \cup Typed

Words == {"", "garbled", "invalid", "valid", "on", "off"}

\* What the environment or a flag may say of a setting.
Raw(k) == IF k \in Switches THEN {"", "garbled", "on", "off"}
          ELSE {"", "invalid", "valid"} \cup (IF k \in Typed THEN {"garbled"} ELSE {})

DefaultConfig ==
  [k \in Settings |->
     IF k \in {"hass_token", "google_client_id", "google_client_secret", "busybar_api_key"}
       THEN "" ELSE IF k \in Switches THEN "off" ELSE "valid"]

\* An environment variable counts unless it is empty; one that does not parse is fatal.
EnvironmentOK(env) == \A k \in Typed : env[k] # "garbled"
Environment(env)   == [k \in Settings |-> IF env[k] = "" THEN DefaultConfig[k] ELSE env[k]]

\* A flag counts whatever it says, under either spelling of its name, the last one most.
FlagsOK(args)    == \A i \in DOMAIN args : args[i].key \in Typed =>
                      args[i].value \notin {"", "garbled"}
Flags(cfg, args) == FoldLeft(LAMBDA c, a : [c EXCEPT ![a.key] = a.value], cfg, args)

\* Mutant: the durations are not looked at.
ValidatePartly(cfg) == /\ cfg["hass_token"] \notin {"", "invalid"}
                       /\ cfg["hass_url"] = "valid"
                       /\ cfg["google_redirect_url"] \in {"", "valid"}
                       /\ \A k \in Ports : cfg[k] = "valid"

Validate(cfg) == /\ cfg["hass_token"] \notin {"", "invalid"}
                 /\ cfg["hass_url"] = "valid"
                 /\ cfg["google_redirect_url"] \in {"", "valid"}
                 /\ \A k \in Ports \cup Durations : cfg[k] = "valid"

Parse(env, args)   == Flags(Environment(env), args)
ParseOK(env, args) == EnvironmentOK(env) /\ FlagsOK(args) /\ Validate(Parse(env, args))

IsOAuthConfigured(cfg) == cfg["google_client_id"] \notin {"", "invalid"} /\
                          cfg["google_client_secret"] \notin {"", "invalid"}

\* Mutant: the display needs the calendar only.
WiredWithoutPush(cfg) ==
  {"server", "hass", "busy", "push"}
    \cup (IF cfg["enable_calendar_sync"] = "on" THEN {"poller", "display"} ELSE {})

\* The components NewRunner makes and Run starts.
Wired(cfg) ==
  {"server", "hass", "busy", "push"}
    \cup (IF cfg["enable_calendar_sync"] = "on" THEN {"poller"} ELSE {})
    \cup (IF cfg["enable_calendar_sync"] = "on" /\ cfg["enable_outbound_push"] = "on"
            THEN {"display"} ELSE {})
=============================================================================
