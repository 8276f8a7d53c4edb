------------------------------- MODULE MCOta -------------------------------
(* Instances of OtaWriters. *)
EXTENDS OtaWriters

CONSTANTS f1, f2, f3, fact

\* A firmware of two blocks, one of one block, and a file of three blocks that
\* fits no partition of two.
TwoFirmware == {f1, f2, fact}
ThreeFiles == {f1, f2, f3}
Sizes == [f \in Uploads \cup {fact} |-> IF f = f2 THEN 1 ELSE IF f = f3 THEN 3 ELSE 2]
Both == {"http", "tftp"}
AllFaults == {"begin", "write", "boot", "crash"}
============================================================================
