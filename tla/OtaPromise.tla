---------------------------- MODULE OtaPromise ----------------------------
(***************************************************************************)
(* What a firmware update promises, whatever carries it: the slot that runs *)
(* is never written; the other slot is filled block by block, in the order  *)
(* of the file's blocks; the boot selection moves only to a slot that holds *)
(* one whole firmware image; a reboot at any moment finds an image.         *)
(***************************************************************************)
EXTENDS Flash

VARIABLES
  slots,       \* slots[p]: the units written to OTA partition p
  running,     \* the partition the code runs from
  configured,  \* the partition otadata selects for the next boot
  next         \* the block the open transfer writes next; 0 if none is open

ovars == <<slots, running, configured, next>>

Init ==
  /\ slots = [p \in Slot |-> IF p = 0 THEN Image(Factory) ELSE <<>>]
  /\ running = 0
  /\ configured = 0
  /\ next = 0

\* A transfer opens: the update slot is erased, or (the erase or the
\* allocation failed) left as it was or with a hole.
Open ==
  /\ next = 0
  /\ configured = running
  /\ next' = 1
  /\ \E s \in {<<>>, slots[Other(running)], Hole(slots[Other(running)])} :
       slots' = [slots EXCEPT ![Other(running)] = s]
  /\ UNCHANGED <<running, configured>>

\* The next block of some file is appended and the transfer continues.
Append1 ==
  /\ next > 0
  /\ \E f \in Uploads :
       slots' = [slots EXCEPT ![Other(running)] =
                   Append(@, [from |-> f, n |-> next])]
  /\ next' \in {next + 1, 0}
  /\ UNCHANGED <<running, configured>>

\* The transfer ends, perhaps in the middle of a block.
Close ==
  /\ next > 0
  /\ next' = 0
  /\ slots' \in {slots, [slots EXCEPT ![Other(running)] = Append(@, Torn)]}
  /\ UNCHANGED <<running, configured>>

\* The whole image is selected for the next boot.
Commit ==
  /\ next > 0
  /\ ValidImage(slots[Other(running)])
  /\ configured' = Other(running)
  /\ next' = 0
  /\ UNCHANGED <<slots, running>>

\* The device restarts, on purpose or not, with a transfer open or not.
Reboot ==
  /\ running' = configured
  /\ next' = 0
  /\ UNCHANGED <<slots, configured>>

Next == Open \/ Append1 \/ Close \/ Commit \/ Reboot

Spec == Init /\ [][Next]_ovars
=============================================================================
