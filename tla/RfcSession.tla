----------------------------- MODULE RfcSession -----------------------------
(***************************************************************************)
(* What the RFC 2217 server promises to the one who gives it callbacks     *)
(* (rfc2217_server_config_t): clients are served one at a time.            *)
(* on_client_connected is called at most once per client, when it turns    *)
(* out to be an RFC 2217 client, on_client_disconnected once at its end,   *)
(* and every other callback in between.                                    *)
(***************************************************************************)

VARIABLE session   \* no client is served, or one that is (not yet) RFC 2217

SessionInit == session = "none"

Begins == session = "none" /\ session' = "raw"
SaysHello == session # "none" /\ session' = "rfc"
Asks == session # "none" /\ session' = session
Ends == session # "none" /\ session' = "none"

SessionNext == Begins \/ SaysHello \/ Asks \/ Ends

SessionSpec == SessionInit /\ [][SessionNext]_session
=============================================================================
