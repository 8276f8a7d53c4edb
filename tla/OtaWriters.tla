---------------------------- MODULE OtaWriters ----------------------------
(***************************************************************************)
(* The two ways to update the firmware at work at once: the HTTP handlers   *)
(* of main/ota-http.c, which run one at a time on the web server's task,    *)
(* and tftp_task of main/ota-tftp.c.  Both write the slot that does not     *)
(* run, each through an OTA handle of its own, and neither knows of the     *)
(* other.  TftpServer has the TFTP transfer packet by packet; here a        *)
(* session only writes blocks, ends, or selects.                            *)
(*                                                                          *)
(* A handle has an offset, an erase takes whole sectors, and a write over   *)
(* flash that is not erased leaves bytes of neither file: a slot is a       *)
(* function from its cells (blocks) to what they hold.                      *)
(***************************************************************************)
EXTENDS Flash, Integers

CONSTANTS
  Writers,   \* which of "http" and "tftp" this instance has
  OtaFaults  \* which of the failures below may happen in this instance

OtaFaultKinds == {"begin", "write", "boot", "crash"}

ASSUMPTION OtaAssumption ==
  /\ Writers \subseteq {"http", "tftp"}
  /\ OtaFaults \subseteq OtaFaultKinds

VARIABLES
  cells,       \* cells[p][i]: what cell i of OTA partition p holds
  running,     \* the partition the code runs from
  configured,  \* the partition otadata selects for the next boot
  http,        \* cgi_flash_upload: where it is, its handle, what is left
  tftp,        \* tftp_task: where it is, its handle, its block
  answer       \* the last answer of cgi_flash_upload and its file

flash == <<cells, running, configured>>
vars == <<flash, http, tftp, answer>>

Cell == 1 .. PartBlocks
Erased == [from |-> Factory, n |-> -1]
Contents == Unit \cup {Erased}

NoHandle == -1   \* otherwise the number of blocks written through it

Idle == [at |-> "idle", file |-> Factory, off |-> NoHandle, left |-> 0]
NoAnswer == [kind |-> "none", file |-> Factory]

\* The slot starts with the whole of file f: esp_image_verify ignores the rest.
Holds(slot, f) ==
  /\ FileBlocks[f] <= PartBlocks
  /\ \A i \in 1 .. FileBlocks[f] : slot[i] = [from |-> f, n |-> i]

Bootable(slot) == \E f \in Firmware : Holds(slot, f)

\* The bootloader: the selected slot if it verifies, else the other one.
Boots == IF Bootable(cells[configured]) THEN configured ELSE Other(configured)

Init ==
  /\ cells = [p \in Slot |-> [i \in Cell |->
                IF p = 0 /\ i <= FileBlocks[Factory]
                  THEN [from |-> Factory, n |-> i] ELSE Erased]]
  /\ running = 0
  /\ configured = 0
  /\ http = Idle
  /\ tftp = Idle
  /\ answer = NoAnswer
-----------------------------------------------------------------------------
(* Flash operations on the update slot (external).                         *)

\* Mutant: the slot that is not selected, instead of the one that is not
\* running.
UpdateUnselected == Other(configured)

\* esp_ota_get_next_update_partition(NULL)
Update == Other(running)

\* esp_ota_begin erases the first n cells.
Erase(n) ==
  cells' = [cells EXCEPT ![Update] =
              [i \in Cell |-> IF i <= n THEN Erased ELSE @[i]]]

\* A write of unit u to cell i: bits only go from 1 to 0.
WriteCell(i, u) ==
  cells' = [cells EXCEPT ![Update][i] =
              IF @ \in {Erased, u} THEN u ELSE Torn]

\* An erase or a write that fails may have done part of its work.
EraseFails ==
  /\ "begin" \in OtaFaults
  /\ \E n \in 0 .. PartBlocks : Erase(n)

WriteFails(i) ==
  \/ i > PartBlocks /\ UNCHANGED cells
  \/ /\ "write" \in OtaFaults /\ i <= PartBlocks
     /\ \/ UNCHANGED cells
        \/ cells' = [cells EXCEPT ![Update][i] = Torn]
-----------------------------------------------------------------------------
(* cgi_flash_upload and cgi_flash_reboot.                                  *)

Answer(kind) == answer' = [kind |-> kind, file |-> http.file]

HttpFails ==
  /\ http' = Idle
  /\ Answer("error")
  /\ UNCHANGED <<running, configured, tftp>>

\* A request announces len blocks of file f; without a length the whole
\* partition is erased and nothing is received.
HttpBegin(f, len) ==
  /\ "http" \in Writers
  /\ http.at = "idle"
  /\ \/ /\ len <= PartBlocks
        /\ Erase(IF len > 0 THEN len ELSE PartBlocks)
        /\ http' = [at |-> "receive", file |-> f, off |-> 0, left |-> len]
        /\ answer' = NoAnswer
     \/ /\ \/ EraseFails
           \/ len > PartBlocks /\ UNCHANGED cells
        /\ UNCHANGED http
        /\ answer' = [kind |-> "error", file |-> f]
  /\ UNCHANGED <<running, configured, tftp>>

\* Mutant: remaining is not reduced by what was received.
RemainingKept ==
  /\ http.at = "receive" /\ http.left > 0
  /\ http.off < PartBlocks
  /\ WriteCell(http.off + 1, [from |-> http.file, n |-> http.off + 1])
  /\ http' = [http EXCEPT !.off = @ + 1]
  /\ UNCHANGED <<running, configured, tftp, answer>>

HttpWrite ==
  /\ http.at = "receive" /\ http.left > 0
  /\ \/ /\ http.off < PartBlocks
        /\ WriteCell(http.off + 1, [from |-> http.file, n |-> http.off + 1])
        /\ http' = [http EXCEPT !.off = @ + 1, !.left = @ - 1]
        /\ UNCHANGED <<running, configured, tftp, answer>>
     \/ WriteFails(http.off + 1) /\ HttpFails

\* The connection breaks; a timeout is simply tried again.
HttpRecvFail ==
  /\ http.at = "receive" /\ http.left > 0
  /\ HttpFails
  /\ UNCHANGED cells

\* esp_ota_end verifies.
HttpEnd ==
  /\ http.at = "receive" /\ http.left = 0
  /\ \/ /\ Bootable(cells[Update]) /\ http.off > 0
        /\ http' = [http EXCEPT !.at = "select", !.off = NoHandle]
        /\ UNCHANGED <<running, configured, tftp, answer>>
     \/ /\ ~Bootable(cells[Update]) \/ http.off = 0
        /\ HttpFails
  /\ UNCHANGED cells

\* esp_ota_set_boot_partition verifies again; the handler answers
\* {"success": true} whatever it returns.
HttpSelect ==
  /\ http.at = "select"
  /\ \/ Bootable(cells[Update]) /\ configured' = Update
     \/ /\ ~Bootable(cells[Update]) \/ "boot" \in OtaFaults
        /\ UNCHANGED configured
  /\ http' = Idle
  /\ Answer("success")
  /\ UNCHANGED <<cells, running, tftp>>

\* cgi_flash_reboot waits half a second with the web server's task.
HttpReboot ==
  /\ "http" \in Writers
  /\ http.at = "idle"
  /\ http' = [http EXCEPT !.at = "restart"]
  /\ UNCHANGED <<flash, tftp, answer>>
-----------------------------------------------------------------------------
(* tftp_task, from ota_tftp_init to the selection.                         *)

\* The result of ota_tftp_init is ignored: after a failure the session writes
\* through the handle of an earlier one, if there is one.
TftpBegin(f) ==
  /\ "tftp" \in Writers
  /\ tftp.at = "idle"
  /\ \/ /\ Erase(PartBlocks)
        /\ tftp' = [at |-> "receive", file |-> f, off |-> 0,
                    left |-> FileBlocks[f]]
     \/ /\ EraseFails
        /\ tftp' = [tftp EXCEPT !.at = "receive", !.file = f,
                                !.left = FileBlocks[f]]
  /\ UNCHANGED <<running, configured, http, answer>>

TftpEnds == tftp' = [tftp EXCEPT !.at = "idle"]

\* The next block of the file goes to the handle's offset.
TftpWrite ==
  /\ tftp.at = "receive" /\ tftp.left > 0
  /\ \/ /\ tftp.off \in 0 .. PartBlocks - 1
        /\ WriteCell(tftp.off + 1,
                     [from |-> tftp.file,
                      n |-> FileBlocks[tftp.file] - tftp.left + 1])
        /\ tftp' = [tftp EXCEPT !.off = @ + 1, !.left = @ - 1]
     \/ /\ \/ tftp.off = NoHandle /\ UNCHANGED cells
           \/ tftp.off # NoHandle /\ WriteFails(tftp.off + 1)
        /\ TftpEnds
  /\ UNCHANGED <<running, configured, http, answer>>

\* A timeout, an error or a stray packet ends the session.
TftpGivesUp ==
  /\ tftp.at = "receive" /\ tftp.left > 0
  /\ TftpEnds
  /\ UNCHANGED <<flash, http, answer>>

TftpSelect ==
  /\ tftp.at = "receive" /\ tftp.left = 0
  /\ \/ /\ Bootable(cells[Update])
        /\ configured' = Update
        /\ tftp' = [tftp EXCEPT !.at = "restart"]
     \/ /\ ~Bootable(cells[Update]) \/ "boot" \in OtaFaults
        /\ TftpEnds
        /\ UNCHANGED configured
  /\ UNCHANGED <<cells, running, http, answer>>
-----------------------------------------------------------------------------
(* The end of a run of the firmware.                                       *)

\* RAM is lost; the browser keeps the answer it got.
Reset ==
  /\ running' = Boots
  /\ http' = Idle
  /\ tftp' = Idle
  /\ UNCHANGED <<cells, configured, answer>>

Restart == "restart" \in {http.at, tftp.at} /\ Reset

Crash == "crash" \in OtaFaults /\ Reset

Http ==
  \/ \E f \in Uploads : \E len \in {0, FileBlocks[f]} : HttpBegin(f, len)
  \/ HttpWrite \/ HttpRecvFail \/ HttpEnd \/ HttpSelect \/ HttpReboot

Tftp ==
  \/ \E f \in Uploads : TftpBegin(f)
  \/ TftpWrite \/ TftpGivesUp \/ TftpSelect

Next == Http \/ Tftp \/ Restart \/ Crash

Spec == Init /\ [][Next]_vars
-----------------------------------------------------------------------------
(* Properties.                                                             *)

\* An HTTP handle is open exactly while the upload handler receives; what it
\* has written and what it has still to receive fit the partition.
HttpTypeOK ==
  /\ http \in [at : {"idle", "receive", "select", "restart"}, file : Files,
               off : {NoHandle} \cup 0 .. PartBlocks, left : 0 .. PartBlocks]
  /\ http.at = "receive" <=> http.off # NoHandle
  /\ http.at = "receive" => http.off + http.left <= PartBlocks

TftpTypeOK ==
  /\ tftp \in [at : {"idle", "receive", "restart"}, file : Files,
               off : {NoHandle} \cup 0 .. PartBlocks, left : Nat]
  /\ tftp.left <= FileBlocks[tftp.file]

\* The values the variables take, and the two writers' accounts of their
\* handles (main/ota-http.c:85-131, main/ota-tftp.c:110).
TypeOK ==
  /\ cells \in [Slot -> [Cell -> Contents]]
  /\ running \in Slot
  /\ configured \in Slot
  /\ HttpTypeOK
  /\ TftpTypeOK
  /\ answer \in [kind : {"none", "success", "error"}, file : Files]

\* Whatever the two writers do to the update slot at the same time, and
\* wherever power goes, the slot the code runs from holds a whole firmware
\* image and so does the one the bootloader would choose now: both erase, write
\* and select only esp_ota_get_next_update_partition (main/ota-http.c:78,
\* main/ota-tftp.c:105), so a ruined selection falls back on the running slot.
SafeFallback ==
  /\ Bootable(cells[running])
  /\ Bootable(cells[Boots])
=============================================================================
