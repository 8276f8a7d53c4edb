------------------------------ MODULE MCServer ------------------------------
(* Instances of RfcServer. *)
EXTENDS RfcServer

CONSTANTS c1, c2

TwoClients == {c1, c2}
\* An RFC 2217 client, and one that only sends.
Dialogs == [c \in TwoClients |-> IF c = c1 THEN <<"hello">> ELSE <<"data">>]
=============================================================================
