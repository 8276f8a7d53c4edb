------------------------------- MODULE MCAp -------------------------------
(* The instance of WilmaAp. *)
EXTENDS WilmaAp

CONSTANTS n, long, open, p, short, longpw

TwoNames == {n, long}
FourPasswords == {open, p, short, longpw}
=============================================================================
