------------------------------ MODULE MCRelay ------------------------------
(* The instance of Relay. *)
EXTENDS Relay
=============================================================================
