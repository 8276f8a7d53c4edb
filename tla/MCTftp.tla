------------------------------ MODULE MCTftp ------------------------------
(* Instances of TftpServer for TLC.                                        *)
EXTENDS TftpServer

CONSTANTS c1, c2, factory

TwoUploads == {c1, c2}

\* A file of four blocks, longer than the partition, which is no firmware, and a
\* firmware image of one.
LongAndShort == [f \in TwoUploads \cup {factory} |-> IF f = c1 THEN 4 ELSE IF f = c2 THEN 1 ELSE 2]
OnlySecond == {c2, factory}
NoBad == {}

\* An image of two blocks, and a client that asks for another file.
TwoBlocks == [f \in TwoUploads \cup {factory} |-> IF f = c1 THEN 2 ELSE 1]
OnlyFirst == {c1, factory}
OneBad == {c2}
=============================================================================
