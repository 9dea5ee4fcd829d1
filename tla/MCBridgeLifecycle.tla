------------------------- MODULE MCBridgeLifecycle -------------------------
(* BridgeLifecycle with launches that turn everything on, that take back on the command
   line what the environment says, that cannot be parsed, and that are refused. *)
EXTENDS BridgeLifecycle

Env(f) == [k \in Settings |-> IF k \in DOMAIN f THEN f[k] ELSE ""]

Flag(k, v) == [key |-> k, value |-> v]

Full == Env([hass_token |-> "valid", enable_calendar_sync |-> "on",
             enable_outbound_push |-> "on"])

MCLaunches ==
  {[env |-> Full, args |-> <<>>],
   [env |-> Full, args |-> <<Flag("enable_outbound_push", "on"),
                             Flag("enable_outbound_push", "off")>>],
   [env |-> [Full EXCEPT !["hass_token"] = ""], args |-> <<>>],
   [env |-> [Full EXCEPT !["push_timeout"] = "garbled"],
    args |-> <<Flag("push_timeout", "valid")>>],
   [env |-> [Full EXCEPT !["hass_timeout"] = "invalid"], args |-> <<>>],
   [env |-> Full, args |-> <<Flag("port", "invalid")>>],
   [env |-> Full, args |-> <<Flag("push_timeout", "garbled")>>]}
=============================================================================
