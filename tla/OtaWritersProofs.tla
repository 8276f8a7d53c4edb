------------------------- MODULE OtaWritersProofs -------------------------
(***************************************************************************)
(* Theorems about OtaWriters.  The invariant is TypeOK with the half of     *)
(* SafeFallback that no bootloader decides: the running slot holds a whole  *)
(* image.  Every erase and write goes to Update, which is not the running   *)
(* slot, and a reset moves `running` only to a slot that verifies.          *)
(***************************************************************************)
EXTENDS OtaWriters, TLAPS

IInv == TypeOK /\ Bootable(cells[running])

USE FlashAssumption, OtaAssumption
-----------------------------------------------------------------------------
(* Lemmas.                                                                 *)

\* The update slot is a slot, and never the running one.
LEMMA UpdateNotRunning ==
  ASSUME running \in Slot
  PROVE  Update \in Slot /\ Update # running
  BY DEF Slot, Update, Other

\* What is written to flash are contents of a cell.
LEMMA ContentsOfCells ==
  /\ Erased \in Contents
  /\ Torn \in Contents
  /\ \A f \in Files, k \in Nat : [from |-> f, n |-> k] \in Contents
  BY DEF Erased, Torn, Contents, Unit, Files

\* A change confined to the update slot leaves cells a function of the right
\* type and the running slot bootable.
LEMMA OnlyUpdateSlot ==
  ASSUME IInv, NEW s \in [Cell -> Contents],
         cells' = [cells EXCEPT ![Update] = s], running' = running
  PROVE  /\ cells' \in [Slot -> [Cell -> Contents]]
         /\ Bootable(cells[running])'
<1>1. running \in Slot /\ cells \in [Slot -> [Cell -> Contents]]
  BY DEF IInv, TypeOK, HttpTypeOK, TftpTypeOK
<1>2. Update \in Slot /\ Update # running
  BY <1>1, UpdateNotRunning
<1>3. cells' \in [Slot -> [Cell -> Contents]]
  BY <1>1, <1>2
<1>4. cells'[running'] = cells[running]
  BY <1>1, <1>2
<1> QED
  BY <1>3, <1>4 DEF IInv, Bootable, Holds

\* The same for a step that leaves flash alone.
LEMMA FlashAlone ==
  ASSUME IInv, UNCHANGED cells, UNCHANGED running
  PROVE  /\ cells' \in [Slot -> [Cell -> Contents]]
         /\ Bootable(cells[running])'
  BY DEF IInv, TypeOK, HttpTypeOK, TftpTypeOK, Bootable, Holds

LEMMA EraseIsSafe ==
  ASSUME IInv, NEW m \in Nat, Erase(m), running' = running
  PROVE  /\ cells' \in [Slot -> [Cell -> Contents]]
         /\ Bootable(cells[running])'
<1> DEFINE s == [i \in Cell |-> IF i <= m THEN Erased ELSE cells[Update][i]]
<1>1. running \in Slot /\ cells \in [Slot -> [Cell -> Contents]]
  BY DEF IInv, TypeOK, HttpTypeOK, TftpTypeOK
<1>2. Update \in Slot
  BY <1>1, UpdateNotRunning
<1>3. s \in [Cell -> Contents]
  BY <1>1, <1>2, ContentsOfCells
<1>4. cells' = [cells EXCEPT ![Update] = s]
  BY <1>1, <1>2 DEF Erase
<1> HIDE DEF s
<1> QED
  BY <1>3, <1>4, OnlyUpdateSlot

LEMMA EraseFailureIsSafe ==
  ASSUME IInv, EraseFails, running' = running
  PROVE  /\ cells' \in [Slot -> [Cell -> Contents]]
         /\ Bootable(cells[running])'
<1>1. PICK m \in 0 .. PartBlocks : Erase(m)
  BY DEF EraseFails
<1> QED
  BY <1>1, EraseIsSafe

\* One cell of the update slot replaced.
LEMMA CellIsSafe ==
  ASSUME IInv, NEW i \in Cell, NEW c \in Contents, running' = running,
         cells' = [cells EXCEPT ![Update][i] = c]
  PROVE  /\ cells' \in [Slot -> [Cell -> Contents]]
         /\ Bootable(cells[running])'
<1> DEFINE s == [cells[Update] EXCEPT ![i] = c]
<1>1. running \in Slot /\ cells \in [Slot -> [Cell -> Contents]]
  BY DEF IInv, TypeOK, HttpTypeOK, TftpTypeOK
<1>2. Update \in Slot
  BY <1>1, UpdateNotRunning
<1>3. s \in [Cell -> Contents]
  BY <1>1, <1>2
<1>4. cells' = [cells EXCEPT ![Update] = s]
  OBVIOUS
<1> HIDE DEF s
<1> QED
  BY <1>3, <1>4, OnlyUpdateSlot

LEMMA WriteIsSafe ==
  ASSUME IInv, NEW i \in Cell, NEW f \in Files, NEW k \in Nat,
         WriteCell(i, [from |-> f, n |-> k]), running' = running
  PROVE  /\ cells' \in [Slot -> [Cell -> Contents]]
         /\ Bootable(cells[running])'
<1> DEFINE u == [from |-> f, n |-> k]
           c == IF cells[Update][i] \in {Erased, u} THEN u ELSE Torn
<1>1. c \in Contents
  BY ContentsOfCells
<1>2. cells' = [cells EXCEPT ![Update][i] = c]
  BY DEF WriteCell
<1> HIDE DEF c
<1> QED
  BY <1>1, <1>2, CellIsSafe

LEMMA WriteFailureIsSafe ==
  ASSUME IInv, NEW i \in Nat \ {0}, WriteFails(i), running' = running
  PROVE  /\ cells' \in [Slot -> [Cell -> Contents]]
         /\ Bootable(cells[running])'
<1>1. CASE UNCHANGED cells
  BY <1>1, FlashAlone
<1>2. CASE i <= PartBlocks /\ cells' = [cells EXCEPT ![Update][i] = Torn]
  <2>1. i \in Cell
    BY <1>2 DEF Cell
  <2> QED
    BY <1>2, <2>1, ContentsOfCells, CellIsSafe
<1> QED
  BY <1>1, <1>2 DEF WriteFails
-----------------------------------------------------------------------------
(* One lemma per action.                                                   *)

LEMMA InitInv == Init => IInv
<1> SUFFICES ASSUME Init PROVE IInv
  OBVIOUS
<1>1. cells \in [Slot -> [Cell -> Contents]]
  BY ContentsOfCells DEF Init, Cell, Slot, Files
<1>2. cells[0] = [i \in Cell |-> IF i <= FileBlocks[Factory]
                               THEN [from |-> Factory, n |-> i] ELSE Erased]
  BY DEF Init, Slot
<1>3. Bootable(cells[running])
  <2>1. Holds(cells[0], Factory)
    BY <1>2 DEF Holds, Cell
  <2> QED
    BY <2>1 DEF Init, Bootable
<1>4. TypeOK
  BY <1>1
  DEF Init, TypeOK, HttpTypeOK, TftpTypeOK, Idle, NoAnswer, NoHandle, Slot,
      Files
<1> QED
  BY <1>3, <1>4 DEF IInv

\* The failing answers of cgi_flash_upload.
LEMMA HttpFailsTypes ==
  ASSUME IInv, HttpFails, cells' \in [Slot -> [Cell -> Contents]]
  PROVE  TypeOK'
  BY DEF IInv, TypeOK, HttpTypeOK, TftpTypeOK, HttpFails, Answer, Idle,
      NoHandle, Files

LEMMA HttpBeginInv ==
  ASSUME IInv, NEW f \in Uploads, NEW len \in {0, FileBlocks[f]},
         HttpBegin(f, len)
  PROVE  IInv'
<1>1. len \in Nat /\ f \in Files
  BY DEF Files
<1>2. CASE /\ len <= PartBlocks
           /\ Erase(IF len > 0 THEN len ELSE PartBlocks)
           /\ http' = [at |-> "receive", file |-> f, off |-> 0, left |-> len]
           /\ answer' = NoAnswer
  <2>1. /\ cells' \in [Slot -> [Cell -> Contents]]
        /\ Bootable(cells[running])'
    <3>1. (IF len > 0 THEN len ELSE PartBlocks) \in Nat
      BY <1>1
    <3> QED
      BY <1>2, <3>1, EraseIsSafe DEF HttpBegin
  <2>2. TypeOK'
    BY <1>1, <1>2, <2>1
   
    DEF HttpBegin, IInv, TypeOK, HttpTypeOK, TftpTypeOK, NoAnswer,
        NoHandle, Files
  <2> QED
    BY <2>1, <2>2 DEF IInv
<1>3. CASE /\ EraseFails \/ (len > PartBlocks /\ UNCHANGED cells)
           /\ UNCHANGED http
           /\ answer' = [kind |-> "error", file |-> f]
  <2>1. /\ cells' \in [Slot -> [Cell -> Contents]]
        /\ Bootable(cells[running])'
    BY <1>3, EraseFailureIsSafe, FlashAlone DEF HttpBegin
  <2>2. TypeOK'
    BY <1>1, <1>3, <2>1 DEF HttpBegin, IInv, TypeOK, HttpTypeOK, TftpTypeOK
  <2> QED
    BY <2>1, <2>2 DEF IInv
<1> QED
  BY <1>2, <1>3 DEF HttpBegin

LEMMA HttpWriteInv ==
  ASSUME IInv, HttpWrite
  PROVE  IInv'
<1>1. /\ http.off \in 0 .. PartBlocks /\ http.left \in 1 .. PartBlocks
      /\ http.file \in Files /\ http.off + http.left <= PartBlocks
  BY DEF IInv, TypeOK, HttpTypeOK, TftpTypeOK, HttpWrite, NoHandle
<1>2. CASE /\ WriteCell(http.off + 1, [from |-> http.file, n |-> http.off + 1])
           /\ http' = [http EXCEPT !.off = @ + 1, !.left = @ - 1]
           /\ UNCHANGED <<running, configured, tftp, answer>>
  <2>1. http.off + 1 \in Cell /\ http.off + 1 \in Nat
    BY <1>1 DEF Cell
  <2>2. /\ cells' \in [Slot -> [Cell -> Contents]]
        /\ Bootable(cells[running])'
    BY <1>1, <1>2, <2>1, WriteIsSafe
  <2>3. HttpTypeOK'
    <3>1. http' = [at |-> "receive", file |-> http.file,
                   off |-> http.off + 1, left |-> http.left - 1]
      BY <1>2 DEF HttpWrite, IInv, TypeOK, HttpTypeOK
    <3>2. http.off + 1 \in 0 .. PartBlocks /\ http.left - 1 \in 0 .. PartBlocks
      BY <1>1
    <3> QED
      BY <1>1, <3>1, <3>2 DEF HttpTypeOK, NoHandle
  <2>4. TypeOK'
    BY <1>2, <2>2, <2>3 DEF IInv, TypeOK, TftpTypeOK
  <2> QED
    BY <2>2, <2>4 DEF IInv
<1>3. CASE WriteFails(http.off + 1) /\ HttpFails
  <2>1. http.off + 1 \in Nat \ {0}
    BY <1>1
  <2>2. /\ cells' \in [Slot -> [Cell -> Contents]]
        /\ Bootable(cells[running])'
    BY <1>3, <2>1, WriteFailureIsSafe DEF HttpFails
  <2> QED
    BY <1>3, <2>2, HttpFailsTypes DEF IInv
<1> QED
  BY <1>2, <1>3 DEF HttpWrite

LEMMA HttpRecvFailInv ==
  ASSUME IInv, HttpRecvFail
  PROVE  IInv'
<1>1. /\ cells' \in [Slot -> [Cell -> Contents]]
      /\ Bootable(cells[running])'
  BY FlashAlone DEF HttpRecvFail, HttpFails
<1> QED
  BY <1>1, HttpFailsTypes DEF HttpRecvFail, IInv

LEMMA HttpEndInv ==
  ASSUME IInv, HttpEnd
  PROVE  IInv'
<1>1. UNCHANGED <<cells, running>>
  BY DEF HttpEnd, HttpFails
<1>2. /\ cells' \in [Slot -> [Cell -> Contents]]
      /\ Bootable(cells[running])'
  BY <1>1, FlashAlone
<1>3. CASE HttpFails
  BY <1>2, <1>3, HttpFailsTypes DEF IInv
<1>4. CASE /\ http' = [http EXCEPT !.at = "select", !.off = NoHandle]
           /\ UNCHANGED <<running, configured, tftp, answer>>
  <2>1. TypeOK'
    BY <1>2, <1>4 DEF HttpEnd, IInv, TypeOK, HttpTypeOK, TftpTypeOK, NoHandle
  <2> QED
    BY <1>2, <2>1 DEF IInv
<1> QED
  BY <1>3, <1>4 DEF HttpEnd

LEMMA HttpSelectInv ==
  ASSUME IInv, HttpSelect
  PROVE  IInv'
<1>1. running \in Slot
  BY DEF IInv, TypeOK, HttpTypeOK, TftpTypeOK
<1>2. /\ cells' \in [Slot -> [Cell -> Contents]]
      /\ Bootable(cells[running])'
  BY FlashAlone DEF HttpSelect
<1>3. configured' \in Slot
  BY <1>1, UpdateNotRunning
  DEF HttpSelect, IInv, TypeOK, HttpTypeOK, TftpTypeOK
<1>4. TypeOK'
  BY <1>2, <1>3
 
  DEF HttpSelect, IInv, TypeOK, HttpTypeOK, TftpTypeOK, Answer, Idle,
      NoHandle, Files
<1> QED
  BY <1>2, <1>4 DEF IInv

LEMMA HttpRebootInv ==
  ASSUME IInv, HttpReboot
  PROVE  IInv'
<1>1. /\ cells' \in [Slot -> [Cell -> Contents]]
      /\ Bootable(cells[running])'
  BY FlashAlone DEF HttpReboot, flash
<1>2. TypeOK'
  BY <1>1 DEF HttpReboot, flash, IInv, TypeOK, HttpTypeOK, TftpTypeOK, NoHandle
<1> QED
  BY <1>1, <1>2 DEF IInv

LEMMA TftpBeginInv ==
  ASSUME IInv, NEW f \in Uploads, TftpBegin(f)
  PROVE  IInv'
<1>1. f \in Files /\ FileBlocks[f] \in Nat
  BY DEF Files
<1>2. /\ cells' \in [Slot -> [Cell -> Contents]]
      /\ Bootable(cells[running])'
  <2>1. Erase(PartBlocks) \/ EraseFails
    BY DEF TftpBegin
  <2> QED
    BY <2>1, EraseIsSafe, EraseFailureIsSafe DEF TftpBegin
<1>3. TftpTypeOK'
  <2>1. CASE tftp' = [at |-> "receive", file |-> f, off |-> 0,
                      left |-> FileBlocks[f]]
    BY <1>1, <2>1 DEF TftpTypeOK, NoHandle
  <2>2. CASE tftp' = [tftp EXCEPT !.at = "receive", !.file = f,
                                  !.left = FileBlocks[f]]
    <3>1. tftp' = [at |-> "receive", file |-> f, off |-> tftp.off,
                   left |-> FileBlocks[f]]
      BY <2>2 DEF IInv, TypeOK, TftpTypeOK
    <3>2. tftp.off \in {NoHandle} \cup 0 .. PartBlocks
      BY DEF IInv, TypeOK, TftpTypeOK
    <3> QED
      BY <1>1, <3>1, <3>2 DEF TftpTypeOK
  <2> QED
    BY <2>1, <2>2 DEF TftpBegin
<1>4. TypeOK'
  BY <1>2, <1>3 DEF TftpBegin, IInv, TypeOK, HttpTypeOK
<1> QED
  BY <1>2, <1>4 DEF IInv

LEMMA TftpWriteInv ==
  ASSUME IInv, TftpWrite
  PROVE  IInv'
<1>1. /\ tftp.off \in {NoHandle} \cup 0 .. PartBlocks
      /\ tftp.left \in Nat \ {0} /\ tftp.left <= FileBlocks[tftp.file]
      /\ tftp.file \in Files /\ FileBlocks[tftp.file] \in Nat
  BY DEF IInv, TypeOK, HttpTypeOK, TftpTypeOK, TftpWrite, Files
<1>2. CASE /\ tftp.off \in 0 .. PartBlocks - 1
           /\ WriteCell(tftp.off + 1,
                        [from |-> tftp.file,
                         n |-> FileBlocks[tftp.file] - tftp.left + 1])
           /\ tftp' = [tftp EXCEPT !.off = @ + 1, !.left = @ - 1]
  <2>1. /\ tftp.off + 1 \in Cell
        /\ FileBlocks[tftp.file] - tftp.left + 1 \in Nat
    BY <1>1, <1>2 DEF Cell
  <2>2. /\ cells' \in [Slot -> [Cell -> Contents]]
        /\ Bootable(cells[running])'
    BY <1>1, <1>2, <2>1, WriteIsSafe DEF TftpWrite
  <2>3. TftpTypeOK'
    <3>1. tftp' = [at |-> "receive", file |-> tftp.file,
                   off |-> tftp.off + 1, left |-> tftp.left - 1]
      BY <1>2 DEF TftpWrite, IInv, TypeOK, TftpTypeOK
    <3>2. /\ tftp.off + 1 \in 0 .. PartBlocks /\ tftp.left - 1 \in Nat
          /\ tftp.left - 1 <= FileBlocks[tftp.file]
      BY <1>1, <1>2
    <3> QED
      BY <1>1, <3>1, <3>2 DEF TftpTypeOK
  <2>4. TypeOK'
    BY <2>2, <2>3 DEF TftpWrite, IInv, TypeOK, HttpTypeOK
  <2> QED
    BY <2>2, <2>4 DEF IInv
<1>3. CASE /\ \/ tftp.off = NoHandle /\ UNCHANGED cells
              \/ tftp.off # NoHandle /\ WriteFails(tftp.off + 1)
           /\ TftpEnds
  <2>1. tftp.off # NoHandle => tftp.off + 1 \in Nat \ {0}
    BY <1>1
  <2>2. /\ cells' \in [Slot -> [Cell -> Contents]]
        /\ Bootable(cells[running])'
    BY <1>3, <2>1, FlashAlone, WriteFailureIsSafe DEF TftpWrite
  <2>3. TypeOK'
    BY <1>3, <2>2 DEF TftpWrite, TftpEnds, IInv, TypeOK, HttpTypeOK, TftpTypeOK
  <2> QED
    BY <2>2, <2>3 DEF IInv
<1> QED
  BY <1>2, <1>3 DEF TftpWrite

LEMMA TftpGivesUpInv ==
  ASSUME IInv, TftpGivesUp
  PROVE  IInv'
<1>1. /\ cells' \in [Slot -> [Cell -> Contents]]
      /\ Bootable(cells[running])'
  BY FlashAlone DEF TftpGivesUp, flash
<1>2. TypeOK'
  BY <1>1
  DEF TftpGivesUp, TftpEnds, flash, IInv, TypeOK, HttpTypeOK, TftpTypeOK
<1> QED
  BY <1>1, <1>2 DEF IInv

LEMMA TftpSelectInv ==
  ASSUME IInv, TftpSelect
  PROVE  IInv'
<1>1. running \in Slot
  BY DEF IInv, TypeOK, HttpTypeOK, TftpTypeOK
<1>2. /\ cells' \in [Slot -> [Cell -> Contents]]
      /\ Bootable(cells[running])'
  BY FlashAlone DEF TftpSelect
<1>3. configured' \in Slot
  BY <1>1, UpdateNotRunning
  DEF TftpSelect, IInv, TypeOK, HttpTypeOK, TftpTypeOK
<1>4. TypeOK'
  BY <1>2, <1>3 DEF TftpSelect, TftpEnds, IInv, TypeOK, HttpTypeOK, TftpTypeOK
<1> QED
  BY <1>2, <1>4 DEF IInv

\* Where the bootloader goes there is an image: the selected slot if it
\* verifies; otherwise the selected slot is not the running one.
LEMMA BootsHasImage ==
  ASSUME IInv
  PROVE  Boots \in Slot /\ Bootable(cells[Boots])
<1>1. CASE Bootable(cells[configured])
  BY <1>1 DEF Boots, IInv, TypeOK, HttpTypeOK, TftpTypeOK
<1>2. CASE ~Bootable(cells[configured])
  <2>1. configured # running
    BY <1>2 DEF IInv
  <2>2. Other(configured) = running
    BY <2>1 DEF IInv, TypeOK, HttpTypeOK, TftpTypeOK, Slot, Other
  <2>3. Boots = running
    BY <1>2, <2>2 DEF Boots
  <2> QED
    BY <2>3 DEF IInv, TypeOK, HttpTypeOK, TftpTypeOK
<1> QED
  BY <1>1, <1>2

LEMMA ResetInv ==
  ASSUME IInv, Reset
  PROVE  IInv'
<1>1. Boots \in Slot /\ Bootable(cells[Boots])
  BY BootsHasImage
<1>2. Bootable(cells[running])'
  BY <1>1 DEF Reset, Bootable, Holds
<1>3. TypeOK'
  BY <1>1
  DEF Reset, IInv, TypeOK, HttpTypeOK, TftpTypeOK, Idle, NoHandle, Files
<1> QED
  BY <1>2, <1>3 DEF IInv

LEMMA NextInv == IInv /\ [Next]_vars => IInv'
<1> SUFFICES ASSUME IInv, [Next]_vars PROVE IInv'
  OBVIOUS
<1>1. CASE Http
  BY <1>1, HttpBeginInv, HttpWriteInv, HttpRecvFailInv, HttpEndInv,
     HttpSelectInv, HttpRebootInv DEF Http
<1>2. CASE Tftp
  BY <1>2, TftpBeginInv, TftpWriteInv, TftpGivesUpInv, TftpSelectInv DEF Tftp
<1>3. CASE Restart \/ Crash
  BY <1>3, ResetInv DEF Restart, Crash
<1>4. CASE UNCHANGED vars
  BY <1>4
  DEF vars, flash, IInv, TypeOK, HttpTypeOK, TftpTypeOK, Bootable, Holds
<1> QED
  BY <1>1, <1>2, <1>3, <1>4 DEF Next
-----------------------------------------------------------------------------
(* Theorems.                                                               *)

THEOREM Invariance == Spec => []IInv
<1> QED
  BY InitInv, NextInv, PTL DEF Spec

\* The variables keep their types: the HTTP upload never writes past the
\* partition it erased, the TFTP session never more blocks than its file has.
THEOREM TypeCorrect == Spec => []TypeOK
<1>1. IInv => TypeOK
  BY DEF IInv
<1> QED
  BY <1>1, Invariance, PTL

\* However the HTTP handler and the TFTP task interleave, whichever operation
\* fails and whenever power goes, the running slot and the slot the bootloader
\* would choose hold a whole firmware image.
THEOREM FallbackIsSafe == Spec => []SafeFallback
<1>1. IInv => SafeFallback
  BY BootsHasImage DEF IInv, SafeFallback
<1> QED
  BY <1>1, Invariance, PTL
=============================================================================
