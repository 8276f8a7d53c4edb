---------------------------- MODULE TftpServer ----------------------------
(***************************************************************************)
(* The TFTP firmware server of main/ota-tftp.c (tftp_task and               *)
(* tftp_receive_data), the TFTP clients that upload to it and the UDP       *)
(* network between them.                                                    *)
(*                                                                          *)
(* The network only ever remembers: uplink and downlink are the sets of     *)
(* packets sent so far, and any of them may arrive any number of times, in  *)
(* any order, or never.  A packet reaches the server by entering the        *)
(* bounded receive mailbox of its netconn; once the netconn is connected    *)
(* lwIP admits packets of the connected peer only, but what was queued      *)
(* before netconn_connect stays queued.                                     *)
(*                                                                          *)
(* An upload stands for one client-side transfer with a UDP port of its     *)
(* own.  Block numbers are unbounded integers at both ends and travel as    *)
(* 16-bit words (BlockMod).                                                 *)
(***************************************************************************)
EXTENDS Flash, Integers

CONSTANTS
  NoClient,     \* the netconn is not connected
  BadRequest,   \* uploads whose WRQ has a wrong file name or mode
  Retransmits,  \* TFTP_TIMEOUT_RETRANSMITS
  BlockMod,     \* 2^16: block numbers travel as uint16_t
  MboxSize,     \* packets the netconn receive mailbox holds
  Faults        \* which of the failures below may happen in this instance

FaultKinds == {"begin", "write", "ack", "recv", "boot", "crash"}

ASSUMPTION TftpAssumption ==
  /\ NoClient \notin Uploads
  /\ BadRequest \subseteq Uploads
  /\ Retransmits \in Nat
  /\ MboxSize \in Nat \ {0}
  /\ Faults \subseteq FaultKinds

\* 1700 KiB partitions have 3400 blocks, far below 2^16.
ASSUMPTION BlockModAssumption ==
  BlockMod \in Nat /\ PartBlocks + 1 < BlockMod

VARIABLES
  pc,          \* where tftp_task is
  connected,   \* the peer of netconn_connect
  mbox,        \* packets queued in the netconn, oldest first
  block,       \* tftp_receive_data: block
  retries,     \* tftp_receive_data: retries
  handle,      \* update_handle names an open OTA handle
  backlog,     \* history: blocks of others in mbox when the netconn was connected
  slots, running, configured,        \* flash, see Flash
  cst,         \* cst[c]: where the client of upload c is
  cblk,        \* cblk[c]: the block whose ACK it waits for
  uplink,      \* every packet clients have sent
  downlink     \* every packet the server has sent

flash == <<slots, running, configured>>
client == <<cst, cblk, uplink>>
server == <<pc, connected, block, retries, handle, backlog>>
vars == <<server, mbox, flash, client, downlink>>

UpPacket == [from : Uploads, op : {"WRQ", "DATA"}, n : Nat]
DownPacket == [to : Uploads, op : {"ACK", "ERROR"}, blk : Nat]

Wrq(c) == [from |-> c, op |-> "WRQ", n |-> 0]
Data(c, k) == [from |-> c, op |-> "DATA", n |-> k]
Ack(c, k) == [to |-> c, op |-> "ACK", blk |-> k % BlockMod]
Error(c) == [to |-> c, op |-> "ERROR", blk |-> 0]

Update == Other(running)   \* update_part

Init ==
  /\ pc = "idle"
  /\ connected = NoClient
  /\ mbox = <<>>
  /\ block = 1
  /\ retries = Retransmits
  /\ handle = FALSE
  /\ backlog = {}
  /\ slots = [p \in Slot |-> IF p = 0 THEN Image(Factory) ELSE <<>>]
  /\ running = 0
  /\ configured = 0
  /\ cst = [c \in Uploads |-> "new"]
  /\ cblk = [c \in Uploads |-> 0]
  /\ uplink = {}
  /\ downlink = {}
-----------------------------------------------------------------------------
(* The clients (external): RFC 1350 put, one block in flight.              *)

ClientStart(c) ==
  /\ cst[c] = "new"
  /\ cst' = [cst EXCEPT ![c] = "active"]
  /\ uplink' = uplink \cup {Wrq(c)}
  /\ UNCHANGED <<cblk, server, mbox, flash, downlink>>

\* The ACK it waits for: send the next block, or finish after the last one.
ClientAck(c) ==
  /\ cst[c] = "active"
  /\ Ack(c, cblk[c]) \in downlink
  /\ \/ /\ cblk[c] < FileBlocks[c]
        /\ cblk' = [cblk EXCEPT ![c] = @ + 1]
        /\ uplink' = uplink \cup {Data(c, cblk[c] + 1)}
        /\ UNCHANGED cst
     \/ /\ cblk[c] = FileBlocks[c]
        /\ cst' = [cst EXCEPT ![c] = "done"]
        /\ UNCHANGED <<cblk, uplink>>
  /\ UNCHANGED <<server, mbox, flash, downlink>>

\* An ERROR packet, or too many retransmissions, ends the transfer.
ClientFail(c) ==
  /\ cst[c] = "active"
  /\ cst' = [cst EXCEPT ![c] = "failed"]
  /\ UNCHANGED <<cblk, uplink, server, mbox, flash, downlink>>

\* Mutant: answers go out by netconn_sendto, the netconn is never connected.
AdmittedAny(p) == TRUE

\* netconn_connect and netconn_disconnect decide whose packets are queued.
Admitted(p) == connected \in {NoClient, p.from}

\* lwIP queues an arriving packet unless the netconn is connected elsewhere.
Deliver(p) ==
  /\ Len(mbox) < MboxSize
  /\ Admitted(p)
  /\ mbox' = Append(mbox, p)
  /\ UNCHANGED <<server, flash, client, downlink>>
-----------------------------------------------------------------------------
(* tftp_task, waiting for a WRQ.                                           *)

Receive(p) == mbox # <<>> /\ p = Head(mbox) /\ mbox' = Tail(mbox)

\* netconn_send on the server's netconn: it fails when no peer is connected.
Sent(packet) == IF packet.to = NoClient THEN {} ELSE {packet}

DropStray ==
  /\ pc = "idle"
  /\ \E p \in uplink : Receive(p) /\ p.op # "WRQ"
  /\ UNCHANGED <<server, flash, client, downlink>>

\* The file name is TFTP_FIRMWARE_FILE and the mode TFTP_OCTET_MODE.
Acceptable(c) == c \notin BadRequest

RejectWrq(c) ==
  /\ pc = "idle"
  /\ Receive(Wrq(c))
  /\ ~Acceptable(c)
  /\ downlink' = downlink \cup Sent(Error(connected))
  /\ UNCHANGED <<server, flash, client>>

\* The blocks of other clients than c in a mailbox.
Foreign(queue, c) ==
  {queue[i] : i \in {j \in DOMAIN queue :
                       queue[j].op = "DATA" /\ queue[j].from # c}}

\* Connect to the sender and acknowledge the request; a failed send is
\* followed by netconn_disconnect.
AcceptWrq(c) ==
  /\ pc = "idle"
  /\ Receive(Wrq(c))
  /\ Acceptable(c)
  /\ \/ /\ downlink' = downlink \cup {Ack(c, 0)}
        /\ connected' = c
        /\ backlog' = Foreign(mbox', c)
        /\ pc' = "begin"
     \/ /\ "ack" \in Faults
        /\ connected' = NoClient
        /\ UNCHANGED <<downlink, backlog, pc>>
  /\ UNCHANGED <<block, retries, handle, flash, client>>

\* ota_tftp_init; the caller ignores what it returns.
Begin ==
  /\ pc = "begin"
  /\ \/ /\ slots' = [slots EXCEPT ![Update] = <<>>]
        /\ handle' = TRUE
     \/ /\ "begin" \in Faults
        /\ slots' \in {slots, [slots EXCEPT ![Update] = Hole(@)]}
        /\ UNCHANGED handle
  /\ pc' = "receive"
  /\ block' = 1
  /\ retries' = Retransmits
  /\ UNCHANGED <<connected, mbox, backlog, running, configured, client, downlink>>
-----------------------------------------------------------------------------
(* tftp_receive_data.                                                      *)

\* Every way out but success: back to tftp_task, which disconnects.
EndSession ==
  /\ pc' = "idle"
  /\ connected' = NoClient
  /\ backlog' = {}
  /\ UNCHANGED <<block, handle, running, configured, client>>

\* Mutants: one retransmission too many; the counter is never decremented;
\* the repeated ACK is that of the block to come.
MayRetransmitLate == retries >= 0 /\ block > 1
Unspent == retries
AckedAhead == block

\* retries-- > 0 && block > 1
MayRetransmit == retries > 0 /\ block > 1
Spent == retries - 1

\* The block whose ACK is repeated.
LastAcked == block - 1

RecvTimeout ==
  /\ pc = "receive"
  /\ mbox = <<>>
  /\ retries' = Spent
  /\ UNCHANGED <<mbox, slots>>
  /\ \/ /\ MayRetransmit
        /\ downlink' = downlink \cup Sent(Ack(connected, LastAcked))
        /\ UNCHANGED <<pc, connected, block, handle, backlog, running,
                       configured, client>>
     \/ /\ ~MayRetransmit
        /\ downlink' = downlink \cup Sent(Error(connected))
        /\ EndSession

RecvFail ==
  /\ "recv" \in Faults
  /\ pc = "receive"
  /\ downlink' = downlink \cup Sent(Error(connected))
  /\ EndSession
  /\ UNCHANGED <<mbox, retries, slots>>

RecvNotData ==
  /\ pc = "receive"
  /\ \E p \in uplink : Receive(p) /\ p.op # "DATA"
  /\ downlink' = downlink \cup Sent(Error(connected))
  /\ EndSession
  /\ UNCHANGED <<retries, slots>>

\* client_block, a uint16_t, is compared with block, an int.
WireBlock(p) == p.n % BlockMod

\* Mutant: a repeated block is taken for the next one.
ExpectedOrRepeated(p) == WireBlock(p) \in {block - 1, block}

Expected(p) == WireBlock(p) = block

RecvDuplicate ==
  /\ pc = "receive"
  /\ \E p \in uplink :
       Receive(p) /\ p.op = "DATA" /\ WireBlock(p) = block - 1
  /\ downlink' = downlink \cup Sent(Ack(connected, LastAcked))
  /\ UNCHANGED <<server, flash, client>>

RecvOutOfOrder ==
  /\ pc = "receive"
  /\ \E p \in uplink :
       Receive(p) /\ p.op = "DATA" /\ WireBlock(p) \notin {block - 1, block}
  /\ downlink' = downlink \cup Sent(Error(connected))
  /\ EndSession
  /\ UNCHANGED <<retries, slots>>

Room == handle /\ Len(slots[Update]) < PartBlocks

\* Mutant: the result of esp_ota_write is not looked at.
WriteFailureIgnored ==
  /\ ~Room \/ "write" \in Faults
  /\ UNCHANGED slots
  /\ downlink' = downlink \cup Sent(Ack(connected, block))
  /\ block' = block + 1
  /\ UNCHANGED <<pc, connected, handle, backlog, running, configured, client>>

\* No handle, no room or a flash error: the session ends without a word.
WriteFailed ==
  /\ ~Room \/ "write" \in Faults
  /\ \/ UNCHANGED slots
     \/ Room /\ slots' = [slots EXCEPT ![Update] = Append(@, Torn)]
  /\ UNCHANGED downlink
  /\ EndSession

\* esp_ota_write of all chunks of the packet, then the ACK; the block after
\* which the client has no more is the short one that ends the transfer.
RecvBlock(p) ==
  /\ pc = "receive"
  /\ Receive(p) /\ p.op = "DATA" /\ Expected(p)
  /\ retries' = Retransmits
  /\ \/ /\ Room
        /\ slots' = [slots EXCEPT ![Update] =
                       Append(@, [from |-> p.from, n |-> p.n])]
        /\ \/ /\ downlink' = downlink \cup Sent(Ack(connected, block))
              /\ IF p.n < FileBlocks[p.from]
                   THEN block' = block + 1 /\ UNCHANGED pc
                   ELSE pc' = "verify" /\ UNCHANGED block
              /\ UNCHANGED <<connected, handle, backlog, running, configured,
                             client>>
           \/ "ack" \in Faults /\ EndSession /\ UNCHANGED downlink
     \/ WriteFailed

Verified == ValidImage(slots[Update])

\* netconn_disconnect, then esp_ota_set_boot_partition, which verifies.
SetBoot ==
  /\ pc = "verify"
  /\ connected' = NoClient
  /\ backlog' = {}
  /\ \/ /\ Verified
        /\ configured' = Update
        /\ pc' = "restart"
     \/ /\ ~Verified \/ "boot" \in Faults
        /\ pc' = "idle"
        /\ UNCHANGED configured
  /\ UNCHANGED <<mbox, block, retries, handle, slots, running, client,
                 downlink>>
-----------------------------------------------------------------------------
(* Restarts: RAM is lost, flash and the network are not.                   *)

Reset ==
  /\ pc' = "idle"
  /\ connected' = NoClient
  /\ mbox' = <<>>
  /\ block' = 1
  /\ retries' = Retransmits
  /\ handle' = FALSE
  /\ backlog' = {}
  /\ running' = BootSlot(slots, configured)
  /\ UNCHANGED <<slots, configured, client, downlink>>

\* Mutant: esp_restart is missing.
RestartForgotten ==
  /\ pc = "restart"
  /\ pc' = "idle"
  /\ UNCHANGED <<connected, mbox, block, retries, handle, backlog, flash, client,
                 downlink>>

Restart == pc = "restart" /\ Reset

Crash == "crash" \in Faults /\ Reset
-----------------------------------------------------------------------------
Recv ==
  \/ RecvTimeout \/ RecvFail \/ RecvNotData \/ RecvDuplicate \/ RecvOutOfOrder
  \/ \E p \in uplink : RecvBlock(p)

Task ==
  \/ DropStray
  \/ \E c \in Uploads : RejectWrq(c) \/ AcceptWrq(c)
  \/ Begin \/ Recv \/ SetBoot \/ Restart

Network == \E p \in uplink : Deliver(p)

Clients == \E c \in Uploads : ClientStart(c) \/ ClientAck(c) \/ ClientFail(c)

Next == Task \/ Network \/ Clients \/ Crash

Spec == Init /\ [][Next]_vars

\* FreeRTOS schedules the task and every netconn_recv of a transfer returns
\* within its 10 s timeout; nothing is assumed of the network and clients.
FairSpec == Spec /\ WF_vars(Task)
-----------------------------------------------------------------------------
(* Properties.                                                             *)

PC == {"idle", "begin", "receive", "verify", "restart"}

\* The type invariant.
TypeOK ==
  /\ pc \in PC
  /\ connected \in Uploads \cup {NoClient}
  /\ connected = NoClient <=> pc \in {"idle", "restart"}
  /\ mbox \in Seq(uplink)
  /\ block \in Nat \ {0}
  /\ retries \in -1 .. Retransmits /\ (pc = "receive" => retries >= 0)
  /\ handle \in BOOLEAN
  /\ backlog \subseteq uplink
  /\ slots \in [Slot -> Seq(Unit)]
  /\ running \in Slot
  /\ configured \in Slot
  /\ cst \in [Uploads -> {"new", "active", "done", "failed"}]
  /\ cblk \in [Uploads -> Nat]
  /\ uplink \subseteq UpPacket
  /\ downlink \subseteq DownPacket

\* How many blocks of the current transfer are in the update slot.
Accepted == CASE pc = "receive" -> block - 1
              [] pc = "verify" -> block
              [] OTHER -> 0

\* The i-th block the current transfer has written.
Written(i) == slots[Update][Len(slots[Update]) - Accepted + i]

\* The blocks a transfer has written are blocks 1, 2, ... of the wire, each
\* once and in order, at the end of the update slot, whatever the network
\* loses, repeats or reorders and however often the device crashes.
InOrder ==
  /\ Accepted <= Len(slots[Update])
  /\ \A i \in 1 .. Accepted : Written(i).n = i

\* Block numbers never wrap: a packet taken for block k on the wire is block
\* k of its file, although client_block is 16 bits and block an int, because
\* the partition is full first.
NoAlias ==
  /\ block < BlockMod
  /\ \A p \in uplink : p.n < BlockMod

\* Whenever power is lost, the slot the bootloader tries first holds a whole
\* image: tftp_task never erases or writes the configured slot.
AlwaysBootable == ValidImage(slots[configured])

\* All blocks of a transfer come from the client it is connected to: "a
\* connection back to the sender from this netbuf" (tftp_task) and every ACK
\* take it for granted.  It is false, since a netconn that is connected keeps
\* what it has queued.
TransferIsOneFile == \A i \in 1 .. Accepted : Written(i).from = connected

\* What does hold: a block of another client in the open transfer was waiting
\* in the mailbox when the netconn was connected.  Nobody who is heard later
\* gets a block into it, so MboxSize bounds how much of a file can be foreign.
ForeignBlocksWereQueued ==
  \A i \in 1 .. Accepted :
    Written(i).from = connected \/ Data(Written(i).from, i) \in backlog

\* A block is acknowledged (to a client that had no such ACK yet) only when
\* that client's block is the last thing in the update slot: the write comes
\* first, on every path that sends an ACK.
AckAfterWrite ==
  [][\A p \in downlink' \ downlink :
       p.op = "ACK" /\ p.blk > 0 =>
         LET s == slots'[Update]
         IN  s # <<>> /\ s[Len(s)] = [from |-> p.to, n |-> p.blk]]_vars

\* A client that fell silent does not keep the server: once no packet
\* arrives any more the task is back to waiting for a WRQ, however often.
SilentClientReleasesServer ==
  <>[][~Network]_vars => []<>(pc = "idle")

\* Without faults, an upload of firmware whose client saw every ACK is what
\* the device ends up running.
DoneBoots ==
  \A c \in Firmware \cap Uploads :
    cst[c] = "done" ~> slots[running] = Image(c)

\* No block number outgrows the partition: the strengthening NoAlias needs.
Bounded ==
  /\ block <= PartBlocks + 1
  /\ \A c \in Uploads : cblk[c] <= PartBlocks + 1
  /\ \A p \in uplink : p.n <= PartBlocks + 1
  /\ \A q \in downlink : q.blk <= PartBlocks

\* The strengthening of AlwaysBootable: both selections name a whole image,
\* and they differ only between SetBoot and the restart that follows it.
Bootable ==
  /\ ValidImage(slots[running])
  /\ ValidImage(slots[configured])
  /\ configured # running => pc = "restart"

\* The inductive invariant.
IInv == TypeOK /\ InOrder /\ Bounded /\ Bootable

\* The block the open transfer writes next; 0 when none is open.
NextBlock == CASE pc = "receive" -> block
               [] pc = "verify" -> block + 1
               [] OTHER -> 0

Promise == INSTANCE OtaPromise WITH next <- NextBlock

\* The server implements the update promise of OtaPromise: the slot that runs
\* is never written, the other is filled in block order, only a whole image
\* is selected, and nothing is erased while a selection awaits its restart.
PromiseKept == Promise!Spec
=============================================================================
