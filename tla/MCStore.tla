------------------------------ MODULE MCStore ------------------------------
(* The instance of WilmaStore. *)
EXTENDS WilmaStore

CONSTANTS long, cut

TwoNames == {1, 2}
LongAndCut == {long, cut}
CutLong == [p \in LongAndCut |-> cut]
Ap(s, auth, rssi) == [ssid |-> s, auth |-> auth, rssi |-> rssi]
\* A repeated network with a stronger and a hidden one between, one with two modes of
\* authentication, a full list, and nothing.
SomeScans == {
  <<Ap(1, "psk", 1), Ap(0, "psk", 3), Ap(1, "psk", 2), Ap(2, "psk", 1)>>,
  <<Ap(2, "open", 1), Ap(2, "psk", 2), Ap(1, "psk", 1)>>,
  <<Ap(0, "open", 1)>>,
  <<>>}
=============================================================================
