---------------------------- MODULE MCOAuthLink ----------------------------
(* OAuthLink with three requests from two browsers, for two logins. *)
EXTENDS OAuthLink

CONSTANTS r1, r2, r3, b1, b2
=============================================================================
