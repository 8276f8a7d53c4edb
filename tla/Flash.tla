------------------------------- MODULE Flash -------------------------------
(***************************************************************************)
(* The two OTA partitions of CONFIG_PARTITION_TABLE_TWO_OTA_LARGE as the    *)
(* update code sees them through esp_ota_begin, esp_ota_write and           *)
(* esp_ota_set_boot_partition.  A slot holds the sequence of units written  *)
(* to it since it was last erased; a unit is one 512-byte block (or the     *)
(* short last block) of one upload.  The library is external: it is         *)
(* modelled from the way main/ota-tftp.c and main/ota-http.c use it.        *)
(***************************************************************************)
EXTENDS Naturals, Sequences

CONSTANTS
  Uploads,      \* the files clients send; one upload is one transfer session
  Factory,      \* the image flashed over the serial port, in slot 0
  FileBlocks,   \* FileBlocks[f]: how many blocks file f has
  Firmware,     \* the files that pass esp_image verification
  PartBlocks    \* how many blocks an OTA partition holds

ASSUMPTION FlashAssumption ==
  /\ Factory \notin Uploads
  /\ FileBlocks \in [Uploads \cup {Factory} -> Nat \ {0}]
  /\ Firmware \subseteq Uploads \cup {Factory}
  /\ Factory \in Firmware
  /\ PartBlocks \in Nat \ {0}
  /\ FileBlocks[Factory] <= PartBlocks

Files == Uploads \cup {Factory}
Slot == {0, 1}

Unit == [from : Files, n : Nat]

\* What a write that fails half-way leaves behind: bytes of no whole block.
Torn == [from |-> Factory, n |-> 0]

Image(f) == [i \in 1 .. FileBlocks[f] |-> [from |-> f, n |-> i]]

\* The verification in esp_ota_end and esp_ota_set_boot_partition: the slot
\* holds exactly one firmware image, from its first byte.
ValidImage(s) == \E f \in Firmware : s = Image(f)

\* Erased flash below the write offset of a handle opened earlier.
Hole(s) == [i \in DOMAIN s |-> Torn]

\* esp_ota_get_next_update_partition(NULL): the slot that is not running.
Other(slot) == 1 - slot

\* The bootloader: the configured slot if it verifies, else the other one.
BootSlot(slots, configured) ==
  IF ValidImage(slots[configured]) THEN configured ELSE Other(configured)
=============================================================================
