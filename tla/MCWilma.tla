------------------------------ MODULE MCWilma ------------------------------
(* Instances of Wilma for TLC.                                             *)
EXTENDS Wilma

CONSTANTS a, b

One == {a}
Two == {a, b}
NoRequests == {}
NoAp == {"add", "remove", "scan", "forget"}
OnlyAp == {"ap"}
=============================================================================
