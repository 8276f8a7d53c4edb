------------------------- MODULE TftpServerProofs -------------------------
(***************************************************************************)
(* Theorems about TftpServer for every set of uploads, every partition      *)
(* size, mailbox size and retransmission count, and every set of faults.    *)
(***************************************************************************)
EXTENDS TftpServer, TLAPS

\* A number below the modulus travels unchanged.
LEMMA ModSmall == \A k, m \in Nat : k < m => k % m = k
  BY SMT

\* An image is a sequence of units.
LEMMA ImageType == \A f \in Files : Image(f) \in Seq(Unit)
<1>1. SUFFICES ASSUME NEW f \in Files PROVE Image(f) \in Seq(Unit)
  OBVIOUS
<1>2. FileBlocks[f] \in Nat
  BY FlashAssumption DEF Files
<1>3. \A i \in 1 .. FileBlocks[f] : [from |-> f, n |-> i] \in Unit
  BY <1>2 DEF Unit
<1>4. Image(f) \in [1 .. FileBlocks[f] -> Unit]
  BY <1>3 DEF Image
<1>5. QED
  BY <1>2, <1>4, SMT

\* The other slot is a slot, and a different one.
LEMMA OtherSlot == \A s \in Slot : Other(s) \in Slot /\ Other(s) # s
  BY DEF Slot, Other

\* A queue of packets of S is a queue of packets of any larger set.
LEMMA SeqGrows ==
  ASSUME NEW S, NEW T, S \subseteq T, NEW q \in Seq(S)
  PROVE  q \in Seq(T)
<1>1. q \in [1 .. Len(q) -> T] /\ Len(q) \in Nat
  OBVIOUS
<1>2. QED
  BY <1>1, SMT

\* What is read from the mailbox was sent.
LEMMA ReceiveType ==
  ASSUME TypeOK, NEW p, Receive(p)
  PROVE  p \in UpPacket /\ mbox' \in Seq(uplink)
  BY SMT DEF TypeOK, Receive

\* The slot and the packets of a step have their types.
LEMMA UpdateSlot == TypeOK => Update \in Slot /\ Update # running
  BY OtherSlot DEF TypeOK, Update

\* The pieces TypeOK' consists of, for a step that leaves the rest alone.
LEMMA ClientStartType ==
  ASSUME TypeOK, NEW c \in Uploads, ClientStart(c)
  PROVE  TypeOK'
<1>1. Wrq(c) \in UpPacket
  BY DEF Wrq, UpPacket
<1>2. mbox \in Seq(uplink')
  BY SeqGrows DEF TypeOK, ClientStart
<1>3. QED
  BY <1>1, <1>2 DEF TypeOK, ClientStart, server, flash, PC

LEMMA ClientAckType ==
  ASSUME TypeOK, NEW c \in Uploads, ClientAck(c)
  PROVE  TypeOK'
<1>1. Data(c, cblk[c] + 1) \in UpPacket
  BY DEF Data, UpPacket, TypeOK
<1>2. uplink \subseteq uplink' /\ uplink' \subseteq UpPacket
  BY <1>1 DEF TypeOK, ClientAck
<1>3. mbox \in Seq(uplink')
  BY <1>2, SeqGrows DEF TypeOK
<1>4. cblk' \in [Uploads -> Nat] /\ cst' \in [Uploads -> {"new", "active", "done", "failed"}]
  <2>1. CASE cblk[c] < FileBlocks[c]
    <3>1. cst' = cst /\ cblk' = [cblk EXCEPT ![c] = @ + 1]
      BY <2>1, FlashAssumption DEF ClientAck, TypeOK, Files
    <3>2. QED
      BY <3>1 DEF TypeOK
  <2>2. CASE ~(cblk[c] < FileBlocks[c])
    <3>1. cblk' = cblk /\ cst' = [cst EXCEPT ![c] = "done"]
      BY <2>2 DEF ClientAck
    <3>2. QED
      BY <3>1 DEF TypeOK
  <2>3. QED
    BY <2>1, <2>2
<1>5. QED
  BY <1>2, <1>3, <1>4 DEF TypeOK, ClientAck, server, flash, PC

LEMMA ClientFailType ==
  ASSUME TypeOK, NEW c \in Uploads, ClientFail(c)
  PROVE  TypeOK'
  BY DEF TypeOK, ClientFail, server, flash, PC

LEMMA DeliverType ==
  ASSUME TypeOK, NEW p \in uplink, Deliver(p)
  PROVE  TypeOK'
  BY DEF TypeOK, Deliver, server, flash, client, PC

\* What the server sends is a packet, to a connected peer or to nobody.
LEMMA SentType ==
  ASSUME NEW c \in Uploads \cup {NoClient}
  PROVE  /\ Sent(Error(c)) \subseteq DownPacket
         /\ \A k \in Nat : Sent(Ack(c, k)) \subseteq DownPacket
<1>1. \A k \in Nat : k % BlockMod \in Nat
  BY BlockModAssumption, FlashAssumption
<1>2. QED
  BY <1>1 DEF Sent, Error, Ack, DownPacket

LEMMA DropStrayType == TypeOK /\ DropStray => TypeOK'
  BY ReceiveType DEF TypeOK, DropStray, server, flash, client, PC

LEMMA RejectWrqType ==
  ASSUME TypeOK, NEW c \in Uploads, RejectWrq(c)
  PROVE  TypeOK'
<1>1. Sent(Error(connected)) \subseteq DownPacket
  BY SentType DEF TypeOK
<1>2. mbox' \in Seq(uplink)
  BY ReceiveType DEF RejectWrq
<1>3. QED
  BY <1>1, <1>2 DEF TypeOK, RejectWrq, server, flash, client, PC

LEMMA AcceptWrqType ==
  ASSUME TypeOK, NEW c \in Uploads, AcceptWrq(c)
  PROVE  TypeOK'
<1>1. Ack(c, 0) \in DownPacket
  BY SentType, TftpAssumption DEF Sent, Ack
<1>2. mbox' \in Seq(uplink)
  BY ReceiveType DEF AcceptWrq
<1>3. pc' \in PC /\ connected' \in Uploads \cup {NoClient}
      /\ (connected' = NoClient <=> pc' \in {"idle", "restart"})
      /\ downlink' \subseteq DownPacket
  BY <1>1, TftpAssumption DEF TypeOK, AcceptWrq, PC
<1>4. backlog' \subseteq uplink
  BY <1>2 DEF TypeOK, AcceptWrq, Foreign
<1>5. QED
  BY <1>2, <1>3, <1>4 DEF TypeOK, AcceptWrq, flash, client

LEMMA BeginType == TypeOK /\ Begin => TypeOK'
<1>1. SUFFICES ASSUME TypeOK, Begin PROVE TypeOK'
  OBVIOUS
<1>2. PICK s \in {<<>>, slots[Update], Hole(slots[Update])} :
        slots' = [slots EXCEPT ![Update] = s]
  <2>1. slots = [slots EXCEPT ![Update] = slots[Update]]
    BY <1>1, UpdateSlot, SMT DEF TypeOK
  <2>2. QED
    BY <1>1, <2>1 DEF Begin
<1>3. slots[Update] \in Seq(Unit) /\ <<>> \in Seq(Unit)
  BY <1>1, UpdateSlot DEF TypeOK
<1>4. Torn \in Unit
  BY DEF Torn, Unit, Files
<1>5. Hole(slots[Update]) \in Seq(Unit)
  <2>1. DOMAIN slots[Update] = 1 .. Len(slots[Update])
        /\ Len(slots[Update]) \in Nat
    BY <1>3
  <2>2. Hole(slots[Update]) \in [1 .. Len(slots[Update]) -> Unit]
    BY <1>4, <2>1 DEF Hole
  <2>3. QED
    BY <2>1, <2>2, SMT
<1>6. slots' \in [Slot -> Seq(Unit)]
  BY <1>1, <1>2, <1>3, <1>5 DEF TypeOK
<1>7. retries' \in -1 .. Retransmits /\ retries' >= 0 /\ block' \in Nat \ {0}
  BY <1>1, TftpAssumption DEF Begin
<1>8. handle' \in BOOLEAN /\ pc' = "receive" /\ connected' = connected
  BY <1>1 DEF Begin, TypeOK
<1>9. QED
  BY <1>1, <1>6, <1>7, <1>8 DEF TypeOK, Begin, client, PC

\* Leaving tftp_receive_data for tftp_task keeps the types it touches.
LEMMA EndSessionType ==
  ASSUME TypeOK, pc = "receive", EndSession,
         mbox' \in Seq(uplink), retries' \in -1 .. Retransmits,
         slots' \in [Slot -> Seq(Unit)], downlink' \subseteq DownPacket
  PROVE  TypeOK'
  BY DEF TypeOK, EndSession, client, PC

LEMMA RecvTimeoutType == TypeOK /\ RecvTimeout => TypeOK'
<1>1. SUFFICES ASSUME TypeOK, RecvTimeout PROVE TypeOK'
  OBVIOUS
<1>2. pc = "receive" /\ connected \in Uploads \cup {NoClient} /\ block - 1 \in Nat
  BY <1>1 DEF TypeOK, RecvTimeout, MayRetransmit, Spent, LastAcked
<1>3. Sent(Error(connected)) \subseteq DownPacket
      /\ Sent(Ack(connected, block - 1)) \subseteq DownPacket
  BY <1>2, SentType
<1>4. downlink' \subseteq DownPacket
  BY <1>1, <1>3 DEF TypeOK, RecvTimeout, MayRetransmit, Spent, LastAcked
<1>5. mbox' \in Seq(uplink) /\ slots' \in [Slot -> Seq(Unit)]
  BY <1>1 DEF TypeOK, RecvTimeout, MayRetransmit, Spent, LastAcked
<1>6. CASE retries > 0 /\ block > 1
  <2>1. retries' \in -1 .. Retransmits
    BY <1>1, <1>6, TftpAssumption DEF TypeOK, RecvTimeout, MayRetransmit, Spent, LastAcked
  <2>2. QED
    BY <1>1, <1>4, <1>5, <1>6, <2>1 DEF TypeOK, RecvTimeout, MayRetransmit, Spent, LastAcked, client, PC
<1>7. CASE ~(retries > 0 /\ block > 1)
  <2>1. retries' \in -1 .. Retransmits /\ EndSession
    BY <1>1, <1>7, TftpAssumption DEF TypeOK, RecvTimeout, MayRetransmit, Spent, LastAcked
  <2>2. QED
    BY <1>1, <1>2, <1>4, <1>5, <2>1, EndSessionType
<1>8. QED
  BY <1>6, <1>7

LEMMA RecvFailType == TypeOK /\ RecvFail => TypeOK'
<1>1. SUFFICES ASSUME TypeOK, RecvFail PROVE TypeOK'
  OBVIOUS
<1>2. Sent(Error(connected)) \subseteq DownPacket
  BY <1>1, SentType DEF TypeOK
<1>3. QED
  BY <1>1, <1>2, EndSessionType DEF TypeOK, RecvFail

LEMMA RecvNotDataType == TypeOK /\ RecvNotData => TypeOK'
<1>1. SUFFICES ASSUME TypeOK, RecvNotData PROVE TypeOK'
  OBVIOUS
<1>2. Sent(Error(connected)) \subseteq DownPacket
  BY <1>1, SentType DEF TypeOK
<1>3. mbox' \in Seq(uplink)
  BY <1>1, ReceiveType DEF RecvNotData
<1>4. QED
  BY <1>1, <1>2, <1>3, EndSessionType DEF TypeOK, RecvNotData

LEMMA RecvDuplicateType == TypeOK /\ RecvDuplicate => TypeOK'
<1>1. SUFFICES ASSUME TypeOK, RecvDuplicate PROVE TypeOK'
  OBVIOUS
<1>2. connected \in Uploads \cup {NoClient} /\ block - 1 \in Nat
  BY <1>1 DEF TypeOK
<1>3. Sent(Ack(connected, block - 1)) \subseteq DownPacket
  BY <1>2, SentType
<1>4. mbox' \in Seq(uplink)
  BY <1>1, ReceiveType DEF RecvDuplicate
<1>5. QED
  BY <1>1, <1>3, <1>4 DEF TypeOK, RecvDuplicate, LastAcked, server, flash, client, PC

LEMMA RecvOutOfOrderType == TypeOK /\ RecvOutOfOrder => TypeOK'
<1>1. SUFFICES ASSUME TypeOK, RecvOutOfOrder PROVE TypeOK'
  OBVIOUS
<1>2. Sent(Error(connected)) \subseteq DownPacket
  BY <1>1, SentType DEF TypeOK
<1>3. mbox' \in Seq(uplink)
  BY <1>1, ReceiveType DEF RecvOutOfOrder
<1>4. QED
  BY <1>1, <1>2, <1>3, EndSessionType DEF TypeOK, RecvOutOfOrder

\* The two outcomes of a block: accepted, or the session ends.
LEMMA AppendType ==
  ASSUME TypeOK, NEW u \in Unit,
         slots' = [slots EXCEPT ![Update] = Append(@, u)]
  PROVE  slots' \in [Slot -> Seq(Unit)]
<1>1. slots[Update] \in Seq(Unit)
  BY UpdateSlot DEF TypeOK
<1>2. Append(slots[Update], u) \in Seq(Unit)
  BY <1>1
<1>3. QED
  BY <1>2 DEF TypeOK

LEMMA RecvBlockType ==
  ASSUME TypeOK, NEW p \in uplink, RecvBlock(p)
  PROVE  TypeOK'
<1>1. p \in UpPacket /\ mbox' \in Seq(uplink)
  BY ReceiveType DEF RecvBlock, WriteFailed
<1>2. retries' \in 0 .. Retransmits /\ pc = "receive"
  BY TftpAssumption DEF RecvBlock, WriteFailed
<1>3. [from |-> p.from, n |-> p.n] \in Unit /\ Torn \in Unit
  BY <1>1 DEF UpPacket, Unit, Torn, Files
<1>4. slots' \in [Slot -> Seq(Unit)]
  BY <1>3, AppendType DEF RecvBlock, WriteFailed, Expected, TypeOK
<1>5. Sent(Ack(connected, block)) \subseteq DownPacket
  BY SentType DEF TypeOK
<1>6. CASE EndSession /\ UNCHANGED downlink
  <2>1. downlink' \subseteq DownPacket
    BY <1>6 DEF TypeOK
  <2>2. retries' \in -1 .. Retransmits
    BY <1>2, TftpAssumption
  <2>3. QED
    BY <1>1, <1>2, <1>4, <1>6, <2>1, <2>2, EndSessionType
<1>7. CASE ~(EndSession /\ UNCHANGED downlink)
  <2>1. /\ downlink' = downlink \cup Sent(Ack(connected, block))
        /\ IF p.n < FileBlocks[p.from]
             THEN block' = block + 1 /\ UNCHANGED pc
             ELSE pc' = "verify" /\ UNCHANGED block
        /\ UNCHANGED <<connected, handle, backlog, running, configured, client>>
    BY <1>7 DEF RecvBlock, WriteFailed
  <2>2. block' \in Nat \ {0} /\ pc' \in {"receive", "verify"}
    BY <1>2, <2>1 DEF TypeOK
  <2>3. QED
    BY <1>1, <1>2, <1>4, <1>5, <2>1, <2>2 DEF TypeOK, client, PC
<1>8. QED
  BY <1>6, <1>7

LEMMA SetBootType == TypeOK /\ SetBoot => TypeOK'
<1>1. SUFFICES ASSUME TypeOK, SetBoot PROVE TypeOK'
  OBVIOUS
<1>2. configured' \in Slot
  BY <1>1, UpdateSlot DEF TypeOK, SetBoot
<1>3. QED
  BY <1>1, <1>2 DEF TypeOK, SetBoot, client, PC

LEMMA ResetType == TypeOK /\ Reset => TypeOK'
<1>1. SUFFICES ASSUME TypeOK, Reset PROVE TypeOK'
  OBVIOUS
<1>2. running' \in Slot
  BY <1>1, OtherSlot DEF TypeOK, Reset, BootSlot
<1>3. /\ mbox' \in Seq(uplink)
      /\ retries' \in -1 .. Retransmits /\ retries' >= 0
  BY <1>1, TftpAssumption DEF Reset
<1>4. /\ pc' \in PC /\ connected' \in Uploads \cup {NoClient}
      /\ connected' = NoClient /\ pc' = "idle" /\ block' \in Nat \ {0}
  BY <1>1 DEF Reset, PC
<1>5. /\ handle' \in BOOLEAN /\ backlog' \subseteq uplink
      /\ UNCHANGED <<slots, configured, cst, cblk, uplink>>
      /\ downlink' = downlink
  BY <1>1 DEF Reset, client
<1>6. QED
  BY <1>1, <1>2, <1>3, <1>4, <1>5 DEF TypeOK

LEMMA InitType == Init => TypeOK
<1>1. SUFFICES ASSUME Init PROVE TypeOK
  OBVIOUS
<1>2. Image(Factory) \in Seq(Unit)
  BY ImageType, FlashAssumption DEF Files
<1>3. slots \in [Slot -> Seq(Unit)]
  BY <1>1, <1>2 DEF Init
<1>4. mbox \in Seq(uplink) /\ retries \in 0 .. Retransmits
  BY <1>1, TftpAssumption DEF Init
<1>5. retries \in -1 .. Retransmits /\ retries >= 0
  BY <1>4, TftpAssumption
<1>6. /\ cst \in [Uploads -> {"new", "active", "done", "failed"}]
      /\ cblk \in [Uploads -> Nat]
  BY <1>1 DEF Init
<1>7. /\ handle \in BOOLEAN /\ running \in Slot /\ configured \in Slot
      /\ backlog \subseteq uplink
      /\ uplink \subseteq UpPacket /\ downlink \subseteq DownPacket
  BY <1>1 DEF Init, Slot
<1>8. /\ pc \in PC /\ connected \in Uploads \cup {NoClient}
      /\ connected = NoClient /\ pc = "idle" /\ block \in Nat \ {0}
  BY <1>1 DEF Init, PC
<1>9. QED
  BY <1>3, <1>4, <1>5, <1>6, <1>7, <1>8 DEF TypeOK

LEMMA NextType == TypeOK /\ [Next]_vars => TypeOK'
<1>1. SUFFICES ASSUME TypeOK, [Next]_vars PROVE TypeOK'
  OBVIOUS
<1>2. CASE Task
  <2>1. CASE Recv
    BY <1>1, <2>1, RecvTimeoutType, RecvFailType, RecvNotDataType,
       RecvDuplicateType, RecvOutOfOrderType, RecvBlockType DEF Recv
  <2>2. QED
    BY <1>1, <1>2, <2>1, DropStrayType, RejectWrqType, AcceptWrqType,
       BeginType, SetBootType, ResetType DEF Task, Restart
<1>3. CASE Network
  BY <1>1, <1>3, DeliverType DEF Network
<1>4. CASE Clients
  BY <1>1, <1>4, ClientStartType, ClientAckType, ClientFailType DEF Clients
<1>5. CASE Crash
  BY <1>1, <1>5, ResetType DEF Crash
<1>6. CASE UNCHANGED vars
  BY <1>1, <1>6 DEF TypeOK, vars, server, flash, client, PC
<1>7. QED
  BY <1>1, <1>2, <1>3, <1>4, <1>5, <1>6 DEF Next

\* Every reachable state of the server, its clients and the network has the
\* declared types: in particular the retry counter of tftp_receive_data never
\* goes below -1 and the netconn is connected exactly during a session.
THEOREM TypeCorrect == Spec => []TypeOK
<1>1. Init => TypeOK
  BY InitType
<1>2. TypeOK /\ [Next]_vars => TypeOK'
  BY NextType
<1>3. QED
  BY <1>1, <1>2, PTL DEF Spec
-----------------------------------------------------------------------------
(* The blocks in the slot and the numbers on the wire.                     *)

\* Outside a transfer nothing has been accepted and the order is trivial.
LEMMA NothingAccepted ==
  ASSUME TypeOK', Accepted' = 0
  PROVE  InOrder'
<1>1. Update' \in Slot
  BY OtherSlot DEF TypeOK, Update
<1>2. slots'[Update'] \in Seq(Unit)
  BY <1>1 DEF TypeOK
<1>3. Len(slots'[Update']) \in Nat
  BY <1>2
<1>4. Accepted' <= Len(slots'[Update'])
  BY <1>3
<1>5. \A i \in 1 .. Accepted' : Written(i)'.n = i
  OBVIOUS
<1>6. QED
  BY <1>4, <1>5 DEF InOrder

\* What leaves the transfer and the slot alone leaves the order alone.
LEMMA SameOrder ==
  ASSUME InOrder, UNCHANGED <<pc, block, slots, running>>
  PROVE  InOrder'
  BY DEF InOrder, Accepted, Written, Update

\* The ACKs and ERRORs of the server carry small numbers.
LEMMA SentBound ==
  ASSUME NEW c \in Uploads \cup {NoClient}
  PROVE  /\ \A q \in Sent(Error(c)) : q.blk <= PartBlocks
         /\ \A k \in 0 .. PartBlocks :
              \A q \in Sent(Ack(c, k)) : q.blk <= PartBlocks
<1>1. \A k \in 0 .. PartBlocks : k % BlockMod = k
  BY ModSmall, BlockModAssumption, FlashAssumption
<1>2. QED
  BY <1>1, FlashAssumption DEF Sent, Error, Ack

\* A DATA packet that matches block on the wire is block block of its file.
LEMMA WireExact ==
  ASSUME TypeOK, Bounded, NEW p \in uplink
  PROVE  WireBlock(p) = p.n
<1>1. p.n \in Nat /\ p.n <= PartBlocks + 1
  BY DEF TypeOK, Bounded, UpPacket
<1>2. p.n < BlockMod /\ BlockMod \in Nat
  BY <1>1, BlockModAssumption, FlashAssumption
<1>3. QED
  BY <1>1, <1>2, ModSmall DEF WireBlock

\* The client only moves past a block the server has acknowledged, and the
\* server only acknowledges blocks that fit the partition.
LEMMA ClientAckBounded ==
  ASSUME TypeOK, Bounded, NEW c \in Uploads, ClientAck(c)
  PROVE  Bounded'
<1>1. cblk[c] \in Nat /\ cblk[c] <= PartBlocks + 1
  BY DEF TypeOK, Bounded
<1>2. cblk[c] % BlockMod = cblk[c]
  BY <1>1, ModSmall, BlockModAssumption, FlashAssumption
<1>3. cblk[c] <= PartBlocks
  BY <1>2 DEF ClientAck, Bounded, Ack
<1>4. \A d \in Uploads : cblk'[d] <= PartBlocks + 1
  <2>1. cblk' = cblk \/ cblk' = [cblk EXCEPT ![c] = @ + 1]
    BY DEF ClientAck
  <2>2. cblk[c] + 1 <= PartBlocks + 1
    BY <1>1, <1>3, FlashAssumption
  <2>3. cblk \in [Uploads -> Nat] /\ \A d \in Uploads : cblk[d] <= PartBlocks + 1
    BY DEF TypeOK, Bounded
  <2>4. QED
    BY <2>1, <2>2, <2>3
<1>5. \A p \in uplink' : p.n <= PartBlocks + 1
  BY <1>1, <1>3, FlashAssumption DEF ClientAck, Bounded, Data
<1>6. QED
  BY <1>4, <1>5 DEF ClientAck, Bounded, server

\* A step of the server that changes neither block nor what clients know is
\* bounded when the packets it sends are.
LEMMA ServerBounded ==
  ASSUME Bounded, UNCHANGED <<block, client>>,
         \A q \in downlink' \ downlink : q.blk <= PartBlocks
  PROVE  Bounded'
  BY DEF Bounded, client

\* In a transfer, the block expected next is one past what the slot holds.
LEMMA ReceiveBound ==
  ASSUME TypeOK, InOrder, pc = "receive"
  PROVE  block - 1 <= Len(slots[Update])
  BY DEF InOrder, Accepted

\* An accepted block extends both what is written and what is accepted.
LEMMA RecvBlockStep ==
  ASSUME TypeOK, InOrder, Bounded, NEW p \in uplink, RecvBlock(p), TypeOK'
  PROVE  InOrder' /\ Bounded'
<1> DEFINE s == slots[Update]
<1>1. p.n = block /\ block \in Nat \ {0} /\ pc = "receive"
  BY WireExact DEF RecvBlock, WriteFailed, Expected, TypeOK
<1>2. s \in Seq(Unit) /\ Len(s) \in Nat
  BY UpdateSlot DEF TypeOK
<1>3. CASE EndSession /\ UNCHANGED downlink
  <2>1. Accepted' = 0
    BY <1>3 DEF Accepted, EndSession
  <2>2. QED
    BY <1>3, <2>1, NothingAccepted, ServerBounded DEF EndSession
<1>4. CASE ~(EndSession /\ UNCHANGED downlink)
  <2>1. /\ Room
        /\ slots' = [slots EXCEPT ![Update] =
                       Append(@, [from |-> p.from, n |-> p.n])]
        /\ downlink' = downlink \cup Sent(Ack(connected, block))
        /\ IF p.n < FileBlocks[p.from]
             THEN block' = block + 1 /\ UNCHANGED pc
             ELSE pc' = "verify" /\ UNCHANGED block
        /\ UNCHANGED <<connected, handle, backlog, running, configured, client>>
    BY <1>4 DEF RecvBlock, WriteFailed
  <2>2. block <= PartBlocks
    BY <1>1, <1>2, <2>1, ReceiveBound, FlashAssumption DEF Room
  <2>3. Bounded'
    <3>1. \A q \in downlink' : q.blk <= PartBlocks
      BY <1>1, <2>1, <2>2, SentBound, FlashAssumption DEF Bounded, TypeOK
    <3>2. block' <= PartBlocks + 1
      BY <1>1, <2>1, <2>2, FlashAssumption
    <3>3. QED
      BY <2>1, <3>1, <3>2 DEF Bounded, client
  <2>4. InOrder'
    <3> DEFINE t == slots'[Update']
    <3>1. t = Append(s, [from |-> p.from, n |-> p.n])
      BY <2>1, UpdateSlot DEF TypeOK, Update
    <3>2. /\ Len(t) = Len(s) + 1
          /\ t[Len(s) + 1] = [from |-> p.from, n |-> p.n]
          /\ \A i \in 1 .. Len(s) : t[i] = s[i]
      <4> HIDE DEF s, t
      <4>1. QED
        BY <1>2, <3>1
    <3>3. Accepted = block - 1 /\ Accepted' = block
      BY <1>1, <2>1 DEF Accepted
    <3>4. \A i \in 1 .. block - 1 : s[Len(s) - (block - 1) + i].n = i
      BY <3>3 DEF InOrder, Written
    <3>5. block - 1 <= Len(s)
      BY <1>1, ReceiveBound
    <3>6. \A i \in 1 .. block : t[Len(t) - block + i].n = i
      <4> SUFFICES ASSUME NEW i \in 1 .. block
                   PROVE  t[Len(t) - block + i].n = i
        OBVIOUS
      <4> HIDE DEF s, t
      <4>1. CASE i = block
        BY <1>1, <1>2, <3>2, <4>1
      <4>2. CASE i < block
        <5>1. i \in 1 .. block - 1
              /\ Len(s) - (block - 1) + i \in 1 .. Len(s)
              /\ Len(t) - block + i = Len(s) - (block - 1) + i
          BY <1>1, <1>2, <3>2, <3>5, <4>2
        <5>2. QED
          BY <3>2, <3>4, <5>1
      <4>3. QED
        BY <1>1, <4>1, <4>2
    <3>7. block <= Len(t)
      BY <1>1, <1>2, <3>2, <3>5
    <3>8. QED
      BY <3>3, <3>6, <3>7 DEF InOrder, Written
  <2>5. QED
    BY <2>3, <2>4
<1>5. QED
  BY <1>3, <1>4

\* Every step keeps the order of the written blocks and the bound on numbers.
LEMMA NextOrdered ==
  ASSUME TypeOK, InOrder, Bounded, [Next]_vars, TypeOK'
  PROVE  InOrder' /\ Bounded'
<1>1. connected \in Uploads \cup {NoClient}
  BY DEF TypeOK
<1>2. \A q \in Sent(Error(connected)) : q.blk <= PartBlocks
  BY <1>1, SentBound
<1>3. pc = "receive" => \A q \in Sent(Ack(connected, block - 1)) : q.blk <= PartBlocks
  <2>1. block - 1 \in 0 .. PartBlocks
    BY FlashAssumption DEF TypeOK, Bounded
  <2>2. QED
    BY <1>1, <2>1, SentBound
<1>4. ASSUME EndSession, downlink' \subseteq downlink \cup Sent(Error(connected))
      PROVE  InOrder' /\ Bounded'
  <2>1. Accepted' = 0
    BY <1>4 DEF Accepted, EndSession
  <2>2. QED
    BY <1>2, <1>4, <2>1, NothingAccepted, ServerBounded DEF EndSession
<1>5. CASE Recv
  <2>1. CASE RecvTimeout
    <3>1. CASE retries > 0 /\ block > 1
      BY <1>3, <2>1, <3>1, SameOrder, ServerBounded DEF RecvTimeout, MayRetransmit, Spent, LastAcked
    <3>2. CASE ~(retries > 0 /\ block > 1)
      BY <1>4, <2>1, <3>2 DEF RecvTimeout, MayRetransmit, Spent, LastAcked
    <3>3. QED
      BY <3>1, <3>2
  <2>2. CASE RecvFail
    BY <1>4, <2>2 DEF RecvFail
  <2>3. CASE RecvNotData
    BY <1>4, <2>3 DEF RecvNotData
  <2>4. CASE RecvDuplicate
    BY <1>3, <2>4, SameOrder, ServerBounded DEF RecvDuplicate, LastAcked, server, flash
  <2>5. CASE RecvOutOfOrder
    BY <1>4, <2>5 DEF RecvOutOfOrder
  <2>6. CASE \E p \in uplink : RecvBlock(p)
    BY <2>6, RecvBlockStep
  <2>7. QED
    BY <1>5, <2>1, <2>2, <2>3, <2>4, <2>5, <2>6 DEF Recv
<1>6. CASE DropStray
  BY <1>6, SameOrder, ServerBounded DEF DropStray, server, flash
<1>7. ASSUME NEW c \in Uploads, RejectWrq(c)
      PROVE  InOrder' /\ Bounded'
  BY <1>2, <1>7, SameOrder, ServerBounded DEF RejectWrq, server, flash
<1>8. ASSUME NEW c \in Uploads, AcceptWrq(c)
      PROVE  InOrder' /\ Bounded'
  <2>1. Accepted' = 0
    BY <1>8 DEF AcceptWrq, Accepted
  <2>2. Ack(c, 0).blk = 0
    BY ModSmall, BlockModAssumption, FlashAssumption DEF Ack
  <2>3. QED
    BY <1>8, <2>1, <2>2, NothingAccepted, ServerBounded, FlashAssumption
       DEF AcceptWrq
<1>9. CASE Begin
  <2>1. Accepted' = 0
    BY <1>9 DEF Begin, Accepted
  <2>2. Bounded'
    BY <1>9, FlashAssumption DEF Begin, Bounded, client
  <2>3. QED
    BY <2>1, <2>2, NothingAccepted
<1>10. CASE SetBoot
  <2>1. Accepted' = 0
    BY <1>10 DEF SetBoot, Verified, Accepted
  <2>2. QED
    BY <1>10, <2>1, NothingAccepted, ServerBounded DEF SetBoot, Verified
<1>11. CASE Reset
  <2>1. Accepted' = 0
    BY <1>11 DEF Reset, Accepted
  <2>2. Bounded'
    BY <1>11, FlashAssumption DEF Reset, Bounded, client
  <2>3. QED
    BY <2>1, <2>2, NothingAccepted
<1>12. CASE Network
  BY <1>12, SameOrder, ServerBounded DEF Network, Deliver, server, flash
<1>13. ASSUME NEW c \in Uploads, ClientStart(c)
       PROVE  InOrder' /\ Bounded'
  <2>1. Bounded'
    BY <1>13, FlashAssumption DEF ClientStart, Bounded, Wrq, server
  <2>2. QED
    BY <1>13, <2>1, SameOrder DEF ClientStart, server, flash
<1>14. ASSUME NEW c \in Uploads, ClientAck(c)
       PROVE  InOrder' /\ Bounded'
  BY <1>14, ClientAckBounded, SameOrder DEF ClientAck, server, flash
<1>15. ASSUME NEW c \in Uploads, ClientFail(c)
       PROVE  InOrder' /\ Bounded'
  <2>1. Bounded'
    BY <1>15 DEF ClientFail, Bounded, server
  <2>2. QED
    BY <1>15, <2>1, SameOrder DEF ClientFail, server, flash
<1>16. CASE UNCHANGED vars
  BY <1>16, SameOrder, ServerBounded DEF vars, server, flash
<1>17. QED
  BY <1>5, <1>6, <1>7, <1>8, <1>9, <1>10, <1>11, <1>12, <1>13, <1>14, <1>15,
     <1>16 DEF Next, Task, Clients, Crash, Restart
-----------------------------------------------------------------------------
(* The boot selection.                                                     *)

\* The boot selection and what it names survive every step: tftp_task only
\* erases and writes the slot that neither runs nor is configured.
LEMMA NextBootable ==
  ASSUME TypeOK, Bootable, [Next]_vars
  PROVE  Bootable'
<1>1. Update \in Slot /\ Update # running
  BY UpdateSlot
<1>2. ASSUME UNCHANGED <<running, configured>>, pc # "restart",
             \A s \in Slot : s # Update => slots'[s] = slots[s]
      PROVE  Bootable'
  <2>1. running \in Slot /\ running = configured
    BY <1>2 DEF TypeOK, Bootable
  <2>2. slots'[running'] = slots[running] /\ configured' = running'
    BY <1>1, <1>2, <2>1
  <2>3. QED
    BY <2>1, <2>2 DEF Bootable, ValidImage
<1>3. ASSUME UNCHANGED <<slots, running, configured>>,
             pc # "restart" \/ UNCHANGED pc
      PROVE  Bootable'
  BY <1>3 DEF Bootable, ValidImage
<1>4. CASE Recv
  <2>1. pc = "receive" /\ UNCHANGED <<running, configured>>
    BY <1>4 DEF Recv, RecvTimeout, RecvFail, RecvNotData, RecvDuplicate,
       RecvOutOfOrder, RecvBlock, WriteFailed, EndSession, server, flash
  <2>2. \A s \in Slot : s # Update => slots'[s] = slots[s]
    BY <1>4 DEF Recv, RecvTimeout, RecvFail, RecvNotData, RecvDuplicate,
       RecvOutOfOrder, RecvBlock, WriteFailed, flash, TypeOK
  <2>3. QED
    BY <1>2, <2>1, <2>2
<1>5. CASE Begin
  <2>1. pc # "restart" /\ UNCHANGED <<running, configured>>
    BY <1>5 DEF Begin
  <2>2. \A s \in Slot : s # Update => slots'[s] = slots[s]
    BY <1>1, <1>5 DEF Begin, TypeOK
  <2>3. QED
    BY <1>2, <2>1, <2>2
<1>6. CASE SetBoot
  <2>1. CASE ValidImage(slots[Update]) /\ configured' = Update /\ pc' = "restart"
    BY <1>6, <2>1 DEF SetBoot, Verified, Bootable, ValidImage
  <2>2. CASE pc' = "idle" /\ UNCHANGED configured
    BY <1>3, <1>6, <2>2 DEF SetBoot, Verified
  <2>3. QED
    BY <1>6, <2>1, <2>2 DEF SetBoot, Verified
<1>7. CASE Reset
  BY <1>7 DEF Reset, Bootable, BootSlot, ValidImage
<1>8. CASE DropStray \/ Network \/ UNCHANGED vars
  BY <1>3, <1>8 DEF DropStray, Network, Deliver, vars, server, flash
<1>9. ASSUME NEW c \in Uploads, RejectWrq(c) \/ AcceptWrq(c)
      PROVE  Bootable'
  BY <1>3, <1>9 DEF RejectWrq, AcceptWrq, server, flash
<1>10. ASSUME NEW c \in Uploads, ClientStart(c) \/ ClientAck(c) \/ ClientFail(c)
       PROVE  Bootable'
  BY <1>3, <1>10 DEF ClientStart, ClientAck, ClientFail, server, flash
<1>11. QED
  BY <1>4, <1>5, <1>6, <1>7, <1>8, <1>9, <1>10
     DEF Next, Task, Clients, Crash, Restart

LEMMA InitInv == Init => IInv
<1>1. SUFFICES ASSUME Init PROVE IInv
  OBVIOUS
<1>2. TypeOK
  BY <1>1, InitType
<1>3. InOrder
  <2>1. Accepted = 0 /\ slots[Update] = <<>>
    BY <1>1 DEF Init, Accepted, Update, Other, Slot
  <2>2. QED
    BY <2>1 DEF InOrder
<1>4. Bounded
  BY <1>1, FlashAssumption DEF Init, Bounded
<1>5. Bootable
  BY <1>1, FlashAssumption DEF Init, Bootable, ValidImage, Slot
<1>6. QED
  BY <1>2, <1>3, <1>4, <1>5 DEF IInv

LEMMA NextInv == IInv /\ [Next]_vars => IInv'
  BY NextType, NextOrdered, NextBootable DEF IInv

\* The inductive invariant holds in every reachable state.
THEOREM Invariance == Spec => []IInv
<1>1. Init => IInv
  BY InitInv
<1>2. IInv /\ [Next]_vars => IInv'
  BY NextInv
<1>3. QED
  BY <1>1, <1>2, PTL DEF Spec

\* The blocks a transfer has written are blocks 1, 2, ... in order, for every
\* number of clients, every file and partition size and every fault.
THEOREM BlocksInOrder == Spec => []InOrder
<1>1. IInv => InOrder
  BY DEF IInv
<1>2. QED
  BY <1>1, Invariance, PTL

\* A 16-bit block number never stands for two blocks of a file, because the
\* partition is smaller than 2^16 - 1 blocks.
THEOREM BlockNumbersDoNotWrap == Spec => []NoAlias
<1>1. IInv => NoAlias
  BY BlockModAssumption, FlashAssumption DEF IInv, TypeOK, Bounded, NoAlias, UpPacket
<1>2. QED
  BY <1>1, Invariance, PTL

\* The configured slot holds a whole firmware image in every state, so the
\* device boots whenever power is lost.
THEOREM PowerLossIsSafe == Spec => []AlwaysBootable
<1>1. IInv => AlwaysBootable
  BY DEF IInv, Bootable, AlwaysBootable
<1>2. QED
  BY <1>1, Invariance, PTL
-----------------------------------------------------------------------------
(* Whose blocks they are.  lwIP queues nothing of others while the netconn  *)
(* is connected, so what is not the peer's was queued before.               *)

\* A block of another client in the mailbox of a session was there when the
\* netconn was connected.
QueuedWereQueued ==
  connected # NoClient =>
    \A i \in DOMAIN mbox :
      mbox[i].op = "DATA" /\ mbox[i].from # connected => mbox[i] \in backlog

\* Reading a packet leaves a mailbox of which the same can be said.
LEMMA ReceiveKeepsQueued ==
  ASSUME TypeOK, QueuedWereQueued, NEW p, Receive(p),
         UNCHANGED <<connected, backlog>>
  PROVE  QueuedWereQueued'
<1>1. mbox \in Seq(uplink) /\ mbox # <<>> /\ mbox' = Tail(mbox)
  BY DEF TypeOK, Receive
<1>2. \A i \in DOMAIN mbox' : i + 1 \in DOMAIN mbox /\ mbox'[i] = mbox[i + 1]
  BY <1>1
<1>3. QED
  BY <1>2 DEF QueuedWereQueued

LEMMA DeliverKeepsQueued ==
  ASSUME TypeOK, QueuedWereQueued, NEW p \in uplink, Deliver(p)
  PROVE  QueuedWereQueued'
<1>1. mbox' = Append(mbox, p) /\ mbox \in Seq(uplink)
      /\ UNCHANGED <<connected, backlog>>
  BY DEF TypeOK, Deliver, server
<1>2. \A i \in DOMAIN mbox' : mbox'[i] = p \/ (i \in DOMAIN mbox /\ mbox'[i] = mbox[i])
  BY <1>1
<1>3. connected # NoClient => p.from = connected
  BY DEF Deliver, Admitted
<1>4. QED
  BY <1>1, <1>2, <1>3 DEF QueuedWereQueued

LEMMA NextQueued ==
  ASSUME TypeOK, QueuedWereQueued, [Next]_vars
  PROVE  QueuedWereQueued'
<1>1. ASSUME connected' = NoClient PROVE QueuedWereQueued'
  BY <1>1 DEF QueuedWereQueued
<1>2. ASSUME UNCHANGED <<connected, backlog, mbox>> PROVE QueuedWereQueued'
  BY <1>2 DEF QueuedWereQueued
<1>3. CASE Recv
  <2>1. CASE RecvTimeout
    BY <1>1, <1>2, <2>1 DEF RecvTimeout, EndSession
  <2>2. CASE RecvFail \/ RecvNotData \/ RecvOutOfOrder
    BY <1>1, <2>2 DEF RecvFail, RecvNotData, RecvOutOfOrder, EndSession
  <2>3. CASE RecvDuplicate
    BY <2>3, ReceiveKeepsQueued DEF RecvDuplicate, server
  <2>4. ASSUME NEW p \in uplink, RecvBlock(p)
        PROVE  QueuedWereQueued'
    <3>1. CASE EndSession
      BY <1>1, <3>1 DEF EndSession
    <3>2. CASE ~EndSession
      BY <2>4, <3>2, ReceiveKeepsQueued DEF RecvBlock, WriteFailed
    <3>3. QED
      BY <3>1, <3>2
  <2>5. QED
    BY <1>3, <2>1, <2>2, <2>3, <2>4 DEF Recv
<1>4. ASSUME NEW d \in Uploads, AcceptWrq(d)
      PROVE  QueuedWereQueued'
  <2>1. CASE connected' = NoClient
    BY <1>1, <2>1
  <2>2. CASE connected' = d /\ backlog' = Foreign(mbox', d)
    BY <2>2 DEF QueuedWereQueued, Foreign
  <2>3. QED
    BY <1>4, <2>1, <2>2 DEF AcceptWrq
<1>5. ASSUME NEW d \in Uploads, RejectWrq(d)
      PROVE  QueuedWereQueued'
  BY <1>5, ReceiveKeepsQueued DEF RejectWrq, server
<1>6. CASE DropStray
  BY <1>6, ReceiveKeepsQueued DEF DropStray, server
<1>7. CASE Begin
  BY <1>2, <1>7 DEF Begin
<1>8. CASE SetBoot \/ Reset
  BY <1>1, <1>8 DEF SetBoot, Reset
<1>9. CASE Network
  BY <1>9, DeliverKeepsQueued DEF Network
<1>10. ASSUME NEW d \in Uploads, ClientStart(d) \/ ClientAck(d) \/ ClientFail(d)
       PROVE  QueuedWereQueued'
  BY <1>2, <1>10 DEF ClientStart, ClientAck, ClientFail, server
<1>11. CASE UNCHANGED vars
  BY <1>2, <1>11 DEF vars, server
<1>12. QED
  BY <1>3, <1>4, <1>5, <1>6, <1>7, <1>8, <1>9, <1>10, <1>11
     DEF Next, Task, Clients, Crash, Restart

\* The block just read is the peer's, or one of those that were waiting.
LEMMA BlockWasQueued ==
  ASSUME TypeOK, Bounded, QueuedWereQueued, NEW p \in uplink, RecvBlock(p)
  PROVE  /\ p.n = block
         /\ p.from = connected \/ Data(p.from, block) \in backlog
<1>1. p.n = block /\ p.op = "DATA" /\ pc = "receive"
  BY WireExact DEF RecvBlock, Expected
<1>2. 1 \in DOMAIN mbox /\ mbox[1] = p
  BY DEF TypeOK, RecvBlock, Receive
<1>3. p = Data(p.from, block)
  BY <1>1 DEF TypeOK, UpPacket, Data
<1>4. connected # NoClient
  BY <1>1 DEF TypeOK
<1>5. QED
  BY <1>1, <1>2, <1>3, <1>4 DEF QueuedWereQueued

\* An accepted block is the peer's or was queued, and so were those before it.
LEMMA BlockKeepsForeign ==
  ASSUME TypeOK, InOrder, Bounded, QueuedWereQueued, ForeignBlocksWereQueued,
         NEW p \in uplink, RecvBlock(p)
  PROVE  ForeignBlocksWereQueued'
<1> DEFINE s == slots[Update]
           t == slots'[Update']
           u == [from |-> p.from, n |-> p.n]
           Mine(f, i) == f = connected \/ Data(f, i) \in backlog
<1>1. CASE Accepted' = 0
  BY <1>1 DEF ForeignBlocksWereQueued
<1>2. CASE Accepted' # 0
  <2>1. /\ pc = "receive" /\ pc' \in {"receive", "verify"}
        /\ slots' = [slots EXCEPT ![Update] = Append(@, u)]
        /\ UNCHANGED <<connected, backlog, running>>
        /\ IF p.n < FileBlocks[p.from]
             THEN block' = block + 1 /\ pc' = pc
             ELSE pc' = "verify" /\ block' = block
    <3>1. ~EndSession
      BY <1>2 DEF EndSession, Accepted
    <3>2. QED
      BY <3>1 DEF RecvBlock, WriteFailed
  <2>2. s \in Seq(Unit) /\ Len(s) \in Nat /\ block \in Nat \ {0}
    BY UpdateSlot DEF TypeOK
  <2>3. t = Append(s, u) /\ Accepted = block - 1 /\ Accepted' = block
    <3>1. t = Append(s, u)
      BY <2>1, UpdateSlot DEF TypeOK, Update
    <3>2. pc' = "receive" => block' - 1 = block
      BY <2>1, <2>2
    <3>3. Accepted = block - 1
      BY <2>1 DEF Accepted
    <3>4. Accepted' = block
      BY <2>1, <3>2 DEF Accepted
    <3>5. QED
      BY <3>1, <3>3, <3>4
  <2>4. Mine(u.from, block)
    BY BlockWasQueued
  <2>5. block - 1 <= Len(s)
    BY <2>1, ReceiveBound
  <2>6. \A i \in 1 .. block - 1 : Mine(s[Len(s) - (block - 1) + i].from, i)
    BY <2>3 DEF ForeignBlocksWereQueued, Written
  <2>7. \A i \in 1 .. block : Mine(t[Len(t) - block + i].from, i)
    <3> HIDE DEF s, t, u, Mine
    <3>1. /\ Len(t) = Len(s) + 1 /\ t[Len(s) + 1] = u
          /\ \A i \in 1 .. Len(s) : t[i] = s[i]
      BY <2>2, <2>3
    <3>2. SUFFICES ASSUME NEW i \in 1 .. block
                   PROVE  Mine(t[Len(t) - block + i].from, i)
      OBVIOUS
    <3>3. CASE i = block
      BY <2>2, <2>4, <3>1, <3>3
    <3>4. CASE i < block
      <4>1. i \in 1 .. block - 1
            /\ Len(s) - (block - 1) + i \in 1 .. Len(s)
            /\ Len(t) - block + i = Len(s) - (block - 1) + i
        BY <2>2, <2>5, <3>1, <3>4
      <4>2. QED
        BY <2>6, <3>1, <4>1
    <3>5. QED
      BY <2>2, <3>3, <3>4
  <2>8. \A i \in 1 .. Accepted' : Mine(Written(i).from, i)'
    <3>1. connected' = connected /\ backlog' = backlog /\ Update' = Update
      BY <2>1 DEF Update
    <3>2. ASSUME NEW i \in 1 .. block
          PROVE  Mine(Written(i).from, i)'
      <4>1. Written(i)' = t[Len(t) - block + i]
        BY <2>3, <3>1 DEF Written
      <4>2. Data(t[Len(t) - block + i].from, i) = Data(Written(i).from, i)'
        BY <4>1 DEF Data
      <4>3. QED
        BY <2>7, <3>1, <4>1, <4>2
    <3>3. QED
      BY <2>3, <3>2
  <2>9. QED
    BY <2>8 DEF ForeignBlocksWereQueued
<1>3. QED
  BY <1>1, <1>2

LEMMA NextForeign ==
  ASSUME TypeOK, InOrder, Bounded, QueuedWereQueued, ForeignBlocksWereQueued,
         [Next]_vars
  PROVE  ForeignBlocksWereQueued'
<1>1. ASSUME pc' \notin {"receive", "verify"} PROVE ForeignBlocksWereQueued'
  BY <1>1 DEF ForeignBlocksWereQueued, Accepted
<1>2. ASSUME UNCHANGED <<pc, connected, backlog, block, slots, running>>
      PROVE  ForeignBlocksWereQueued'
  BY <1>2 DEF ForeignBlocksWereQueued, Accepted, Written, Update
<1>3. CASE Recv
  <2>1. CASE RecvTimeout
    BY <1>1, <1>2, <2>1 DEF RecvTimeout, EndSession
  <2>2. CASE RecvFail \/ RecvNotData \/ RecvOutOfOrder
    BY <1>1, <2>2 DEF RecvFail, RecvNotData, RecvOutOfOrder, EndSession
  <2>3. CASE RecvDuplicate
    BY <1>2, <2>3 DEF RecvDuplicate, server, flash
  <2>4. QED
    BY <1>3, <2>1, <2>2, <2>3, BlockKeepsForeign DEF Recv
<1>4. ASSUME NEW d \in Uploads, AcceptWrq(d)
      PROVE  ForeignBlocksWereQueued'
  BY <1>1, <1>4 DEF AcceptWrq
<1>5. ASSUME NEW d \in Uploads, RejectWrq(d)
      PROVE  ForeignBlocksWereQueued'
  BY <1>2, <1>5 DEF RejectWrq, server, flash
<1>6. CASE Begin
  BY <1>6 DEF Begin, ForeignBlocksWereQueued, Accepted
<1>7. CASE SetBoot \/ Reset
  BY <1>1, <1>7 DEF SetBoot, Reset
<1>8. CASE DropStray \/ Network \/ UNCHANGED vars
  BY <1>2, <1>8 DEF DropStray, Network, Deliver, vars, server, flash
<1>9. ASSUME NEW d \in Uploads, ClientStart(d) \/ ClientAck(d) \/ ClientFail(d)
      PROVE  ForeignBlocksWereQueued'
  BY <1>2, <1>9 DEF ClientStart, ClientAck, ClientFail, server, flash
<1>10. QED
  BY <1>3, <1>4, <1>5, <1>6, <1>7, <1>8, <1>9
     DEF Next, Task, Clients, Crash, Restart

\* A block of another client that gets into a transfer was waiting in the
\* mailbox when the netconn was connected, for any number of clients that the
\* server accepts, any mailbox and whatever the network and the failures do.
THEOREM ForeignBlocksAreQueuedOnes == Spec => []ForeignBlocksWereQueued
<1> DEFINE Inv == QueuedWereQueued /\ ForeignBlocksWereQueued
<1>1. Init => Inv
  BY DEF Init, QueuedWereQueued, ForeignBlocksWereQueued, Accepted
<1>2. IInv /\ Inv /\ [Next]_vars => Inv'
  BY NextQueued, NextForeign DEF IInv
<1>3. Inv => ForeignBlocksWereQueued
  OBVIOUS
<1>4. QED
  BY <1>1, <1>2, <1>3, Invariance, PTL DEF Spec
-----------------------------------------------------------------------------
(* One acceptable client.  When the server accepts the WRQ of one upload    *)
(* only, no other client is ever acknowledged, so none ever sends DATA, and *)
(* what was queued before netconn_connect is the connected client's too.    *)
(* With a second acceptable client WriteComesBeforeAck is false, since the  *)
(* block that is acknowledged to the peer may be another client's.          *)

OnlyClient(c) ==
  /\ connected \in {NoClient, c}
  /\ \A p \in uplink : p.op = "DATA" => p.from = c
  /\ \A q \in downlink : q.op = "ACK" => q.to = c

\* The ACK that RecvTimeout and RecvDuplicate repeat has been sent before.
Confirmed == pc = "receive" /\ block > 1 => Ack(connected, block - 1) \in downlink

OneClientInv(c) == OnlyClient(c) /\ Confirmed

\* Packets to the connected peer are packets to the only client.
LEMMA SentToOnly ==
  ASSUME NEW c, OnlyClient(c)
  PROVE  /\ \A q \in Sent(Error(connected)) : q.op # "ACK"
         /\ \A k : \A q \in Sent(Ack(connected, k)) : q.to = c
  BY DEF OnlyClient, Sent, Error, Ack

\* A block is accepted from the client the server is connected to.
LEMMA BlockIsOnlyClients ==
  ASSUME TypeOK, NEW c, OnlyClient(c), NEW p \in uplink, RecvBlock(p)
  PROVE  p.from = c /\ connected = c
  BY DEF TypeOK, OnlyClient, RecvBlock

LEMMA NextOnlyClient ==
  ASSUME NEW c, Uploads \ BadRequest \subseteq {c},
         TypeOK, OnlyClient(c), [Next]_vars
  PROVE  OnlyClient(c)'
<1>1. ASSUME UNCHANGED client, connected' \in {NoClient, connected},
             downlink' \subseteq downlink \cup Sent(Error(connected))
      PROVE  OnlyClient(c)'
  BY <1>1, SentToOnly DEF OnlyClient, client
<1>2. ASSUME UNCHANGED client, connected' = connected,
             NEW k, downlink' = downlink \cup Sent(Ack(connected, k))
      PROVE  OnlyClient(c)'
  BY <1>2, SentToOnly DEF OnlyClient, client
<1>3. CASE Recv
  <2>1. CASE RecvTimeout
    <3>1. CASE MayRetransmit
      BY <1>2, <2>1, <3>1 DEF RecvTimeout
    <3>2. CASE ~MayRetransmit
      BY <1>1, <2>1, <3>2 DEF RecvTimeout, EndSession
    <3>3. QED
      BY <3>1, <3>2
  <2>2. CASE RecvFail \/ RecvNotData \/ RecvOutOfOrder
    BY <1>1, <2>2 DEF RecvFail, RecvNotData, RecvOutOfOrder, EndSession
  <2>3. CASE RecvDuplicate
    BY <1>2, <2>3 DEF RecvDuplicate, server
  <2>4. ASSUME NEW p \in uplink, RecvBlock(p)
        PROVE  OnlyClient(c)'
    <3>1. CASE EndSession /\ UNCHANGED downlink
      BY <1>1, <3>1 DEF EndSession
    <3>2. CASE ~(EndSession /\ UNCHANGED downlink)
      BY <1>2, <2>4, <3>2 DEF RecvBlock, WriteFailed
    <3>3. QED
      BY <3>1, <3>2
  <2>5. QED
    BY <1>3, <2>1, <2>2, <2>3, <2>4 DEF Recv
<1>4. ASSUME NEW d \in Uploads, AcceptWrq(d)
      PROVE  OnlyClient(c)'
  <2>1. d = c
    BY <1>4 DEF AcceptWrq, Acceptable
  <2>2. \A q \in downlink' : q.op = "ACK" => q.to = c
    BY <1>4, <2>1 DEF AcceptWrq, OnlyClient, Ack
  <2>3. QED
    BY <1>4, <2>1, <2>2 DEF AcceptWrq, OnlyClient, client
<1>5. ASSUME NEW d \in Uploads, RejectWrq(d)
      PROVE  OnlyClient(c)'
  BY <1>1, <1>5 DEF RejectWrq, server
<1>6. CASE DropStray \/ Begin \/ SetBoot \/ Reset \/ Network \/ UNCHANGED vars
  BY <1>1, <1>6 DEF DropStray, Begin, SetBoot, Reset, Network, Deliver, vars, server
<1>7. ASSUME NEW d \in Uploads, ClientStart(d) \/ ClientFail(d)
      PROVE  OnlyClient(c)'
  BY <1>7 DEF ClientStart, ClientFail, OnlyClient, Wrq, server
<1>8. ASSUME NEW d \in Uploads, ClientAck(d)
      PROVE  OnlyClient(c)'
  <2>1. d = c
    BY <1>8 DEF ClientAck, OnlyClient, Ack
  <2>2. QED
    BY <1>8, <2>1 DEF ClientAck, OnlyClient, Data, server
<1>9. QED
  BY <1>3, <1>4, <1>5, <1>6, <1>7, <1>8 DEF Next, Task, Clients, Crash, Restart

\* Only a block that is written and acknowledged moves a transfer on.
LEMMA NextConfirmed ==
  ASSUME TypeOK, Confirmed, [Next]_vars
  PROVE  Confirmed'
<1>1. ASSUME pc' # "receive" \/ block' = 1 PROVE Confirmed'
  BY <1>1 DEF Confirmed
<1>2. ASSUME UNCHANGED <<pc, connected, block>>, downlink \subseteq downlink'
      PROVE  Confirmed'
  BY <1>2 DEF Confirmed
<1>3. CASE Recv
  <2>1. CASE RecvTimeout
    BY <1>1, <1>2, <2>1 DEF RecvTimeout, EndSession
  <2>2. CASE RecvFail \/ RecvNotData \/ RecvOutOfOrder
    BY <1>1, <2>2 DEF RecvFail, RecvNotData, RecvOutOfOrder, EndSession
  <2>3. CASE RecvDuplicate
    BY <1>2, <2>3 DEF RecvDuplicate, server
  <2>4. ASSUME NEW p \in uplink, RecvBlock(p)
        PROVE  Confirmed'
    <3>1. CASE pc' # "receive"
      BY <1>1, <3>1
    <3>2. CASE pc' = "receive"
      <4>1. /\ downlink' = downlink \cup Sent(Ack(connected, block))
            /\ block' = block + 1 /\ connected' = connected
        BY <2>4, <3>2 DEF RecvBlock, WriteFailed, EndSession
      <4>2. block' - 1 = block /\ connected # NoClient
        BY <2>4, <4>1 DEF TypeOK, RecvBlock
      <4>3. Ack(connected, block) \in downlink'
        BY <4>1, <4>2 DEF Sent, Ack
      <4>4. QED
        BY <4>1, <4>2, <4>3 DEF Confirmed, Ack
    <3>3. QED
      BY <3>1, <3>2
  <2>5. QED
    BY <1>3, <2>1, <2>2, <2>3, <2>4 DEF Recv
<1>4. ASSUME NEW d \in Uploads, AcceptWrq(d) \/ RejectWrq(d)
      PROVE  Confirmed'
  BY <1>1, <1>4 DEF AcceptWrq, RejectWrq, server
<1>5. CASE Begin \/ SetBoot \/ Reset
  BY <1>1, <1>5 DEF Begin, SetBoot, Reset
<1>6. CASE DropStray \/ Network \/ UNCHANGED vars
  BY <1>2, <1>6 DEF DropStray, Network, Deliver, vars, server
<1>7. ASSUME NEW d \in Uploads, ClientStart(d) \/ ClientAck(d) \/ ClientFail(d)
      PROVE  Confirmed'
  BY <1>2, <1>7 DEF ClientStart, ClientAck, ClientFail, server
<1>8. QED
  BY <1>3, <1>4, <1>5, <1>6, <1>7 DEF Next, Task, Clients, Crash, Restart

\* What is new in downlink after a step, when it acknowledges a block: the ACK of
\* the block just written.  The ACKs that are repeated were sent before.
LEMMA NewAck ==
  ASSUME NEW c, IInv, OneClientInv(c), [Next]_vars,
         NEW q \in downlink' \ downlink, q.op = "ACK", q.blk > 0
  PROVE  LET s == slots'[Update]
         IN  s # <<>> /\ s[Len(s)] = [from |-> q.to, n |-> q.blk]
<1>1. ASSUME downlink' \subseteq downlink \cup Sent(Error(connected)) PROVE FALSE
  BY <1>1 DEF Sent, Error
<1>2. 0 % BlockMod = 0
  BY ModSmall, BlockModAssumption, FlashAssumption
<1>3. ASSUME pc = "receive",
             downlink' = downlink \cup Sent(Ack(connected, LastAcked))
      PROVE  FALSE
  <2>1. q = Ack(connected, block - 1)
    BY <1>3 DEF Sent, LastAcked
  <2>2. block \in Nat \ {0}
    BY DEF IInv, TypeOK
  <2>3. CASE block = 1
    BY <1>2, <2>1, <2>3 DEF Ack
  <2>4. CASE block > 1
    BY <1>3, <2>1, <2>4 DEF OneClientInv, Confirmed
  <2>5. QED
    BY <2>2, <2>3, <2>4
<1>4. ASSUME NEW d \in Uploads, AcceptWrq(d) PROVE FALSE
  BY <1>2, <1>4 DEF AcceptWrq, Ack
<1>5. PICK p \in uplink : RecvBlock(p)
  <2>1. ~(RecvTimeout \/ RecvFail \/ RecvNotData \/ RecvDuplicate \/ RecvOutOfOrder)
    BY <1>1, <1>3
       DEF RecvTimeout, RecvFail, RecvNotData, RecvDuplicate, RecvOutOfOrder
  <2>2. ~(DropStray \/ Begin \/ SetBoot \/ Reset \/ Network \/ UNCHANGED vars)
    BY <1>1 DEF DropStray, Begin, SetBoot, Reset, Network, Deliver, vars
  <2>3. \A d \in Uploads :
          ~(RejectWrq(d) \/ AcceptWrq(d) \/ ClientStart(d) \/ ClientAck(d) \/ ClientFail(d))
    BY <1>1, <1>4 DEF RejectWrq, ClientStart, ClientAck, ClientFail
  <2>4. QED
    BY <2>1, <2>2, <2>3 DEF Next, Task, Recv, Clients, Crash, Restart
<1>6. /\ Room /\ q \in Sent(Ack(connected, block))
      /\ slots' = [slots EXCEPT ![Update] = Append(@, [from |-> p.from, n |-> p.n])]
  BY <1>5 DEF RecvBlock, WriteFailed
<1>7. p.from = connected /\ p.n = block
  BY <1>5, BlockIsOnlyClients, WireExact
     DEF IInv, OneClientInv, RecvBlock, Expected
<1>8. q.to = connected /\ q.blk = block
  <2>1. block \in Nat /\ block < BlockMod /\ BlockMod \in Nat
    BY BlockModAssumption, FlashAssumption DEF IInv, TypeOK, Bounded
  <2>2. block % BlockMod = block
    BY <2>1, ModSmall
  <2>3. QED
    BY <1>6, <2>2 DEF Sent, Ack
<1>9. slots[Update] \in Seq(Unit)
      /\ slots'[Update] = Append(slots[Update], [from |-> p.from, n |-> p.n])
  BY <1>6, UpdateSlot DEF IInv, TypeOK
<1>10. QED
  <2> DEFINE s == slots[Update]
             t == slots'[Update]
             u == [from |-> p.from, n |-> p.n]
  <2>1. s \in Seq(Unit) /\ t = Append(s, u)
    BY <1>9
  <2>2. t # <<>> /\ t[Len(t)] = u
    <3> HIDE DEF s, t, u
    <3>1. Len(t) = Len(s) + 1 /\ Len(s) \in Nat /\ t[Len(s) + 1] = u
      BY <2>1
    <3>2. QED
      BY <3>1
  <2>3. QED
    BY <1>7, <1>8, <2>2

LEMMA OneClientInvariance ==
  ASSUME NEW c, Uploads \ BadRequest \subseteq {c}
  PROVE  Spec => [](IInv /\ OneClientInv(c))
<1>1. Init => OneClientInv(c)
  BY DEF Init, OneClientInv, OnlyClient, Confirmed
<1>2. IInv /\ OneClientInv(c) /\ [Next]_vars => OneClientInv(c)'
  BY NextOnlyClient, NextConfirmed DEF IInv, OneClientInv
<1>3. QED
  BY <1>1, <1>2, Invariance, PTL DEF Spec

\* When the server accepts one upload only, it never acknowledges a block before that
\* block of that client is the last thing in the update slot.
THEOREM WriteComesBeforeAck ==
  ASSUME NEW c, Uploads \ BadRequest \subseteq {c}
  PROVE  Spec => AckAfterWrite
<1>1. IInv /\ OneClientInv(c) /\ [Next]_vars =>
        [\A p \in downlink' \ downlink :
           p.op = "ACK" /\ p.blk > 0 =>
             LET s == slots'[Update]
             IN  s # <<>> /\ s[Len(s)] = [from |-> p.to, n |-> p.blk]]_vars
  BY NewAck
<1>2. QED
  BY <1>1, OneClientInvariance, PTL DEF Spec, AckAfterWrite
-----------------------------------------------------------------------------
(* Refinement of OtaPromise.                                               *)

LEMMA InitPromise == Init => Promise!Init
  BY DEF Init, Promise!Init, NextBlock, Image, Promise!Image, Slot, Promise!Slot

\* A step that leaves flash and the transfer alone is a stutter.
LEMMA PromiseStutter ==
  ASSUME UNCHANGED <<slots, running, configured, pc, block>>
  PROVE  UNCHANGED Promise!ovars
  BY DEF Promise!ovars, NextBlock

\* A transfer that ends without another byte, or in the middle of a block.
LEMMA PromiseClose ==
  ASSUME TypeOK, pc \in {"receive", "verify"}, pc' = "idle",
         UNCHANGED <<running, configured>>,
         \/ UNCHANGED slots
         \/ slots' = [slots EXCEPT ![Update] = Append(@, Torn)]
  PROVE  Promise!Next
<1>1. NextBlock > 0 /\ NextBlock' = 0
  BY DEF TypeOK, NextBlock
<1>2. Promise!Close
  BY <1>1 DEF Promise!Close, Update, Other, Promise!Other, Torn, Promise!Torn
<1>3. QED
  BY <1>2 DEF Promise!Next

LEMMA PromiseBlock ==
  ASSUME TypeOK, InOrder, Bounded, NEW p \in uplink, RecvBlock(p)
  PROVE  Promise!Next
<1>1. pc = "receive" /\ p.n = block /\ p.from \in Uploads
  BY WireExact DEF RecvBlock, WriteFailed, Expected, TypeOK, UpPacket
<1>2. NextBlock = block /\ block \in Nat \ {0}
  BY <1>1 DEF NextBlock, TypeOK
<1>3. CASE slots' = [slots EXCEPT ![Update] =
                       Append(@, [from |-> p.from, n |-> p.n])]
  <2>1. NextBlock' \in {NextBlock + 1, 0} /\ UNCHANGED <<running, configured>>
    BY <1>1, <1>2 DEF RecvBlock, WriteFailed, EndSession, NextBlock
  <2>2. Promise!Append1
    <3>1. slots' = [slots EXCEPT ![Promise!Other(running)] =
                      Append(@, [from |-> p.from, n |-> NextBlock])]
      BY <1>1, <1>2, <1>3 DEF Update, Other, Promise!Other
    <3>2. NextBlock > 0
      BY <1>2
    <3>3. QED
      BY <1>1, <2>1, <3>1, <3>2 DEF Promise!Append1
  <2>3. QED
    BY <2>2 DEF Promise!Next
<1>4. CASE /\ EndSession
           /\ \/ UNCHANGED slots
              \/ slots' = [slots EXCEPT ![Update] = Append(@, Torn)]
  BY <1>1, <1>4, PromiseClose DEF EndSession
<1>5. QED
  BY <1>3, <1>4 DEF RecvBlock, WriteFailed

LEMMA NextPromise ==
  ASSUME IInv, [Next]_vars
  PROVE  [Promise!Next]_(Promise!ovars)
<1>1. ASSUME pc = "receive", EndSession, UNCHANGED slots
      PROVE  Promise!Next
  BY <1>1, PromiseClose DEF IInv, EndSession
<1>2. CASE Recv
  <2>1. CASE RecvTimeout
    BY <1>1, <2>1, PromiseStutter DEF RecvTimeout, MayRetransmit, Spent, LastAcked
  <2>2. CASE RecvDuplicate
    BY <2>2, PromiseStutter DEF RecvDuplicate, LastAcked, server, flash
  <2>3. CASE RecvFail \/ RecvNotData \/ RecvOutOfOrder
    BY <1>1, <2>3 DEF RecvFail, RecvNotData, RecvOutOfOrder
  <2>4. CASE \E p \in uplink : RecvBlock(p)
    BY <2>4, PromiseBlock DEF IInv
  <2>5. QED
    BY <1>2, <2>1, <2>2, <2>3, <2>4 DEF Recv
<1>3. CASE Begin
  <2>1. NextBlock = 0 /\ NextBlock' = 1 /\ configured = running
    BY <1>3 DEF Begin, NextBlock, IInv, Bootable
  <2>2. PICK s \in {<<>>, slots[Update], Hole(slots[Update])} :
          slots' = [slots EXCEPT ![Update] = s]
    <3>1. slots = [slots EXCEPT ![Update] = slots[Update]]
      BY UpdateSlot, SMT DEF IInv, TypeOK
    <3>2. QED
      BY <1>3, <3>1 DEF Begin
  <2>3. Promise!Open
    BY <1>3, <2>1, <2>2
       DEF Begin, Promise!Open, Update, Other, Promise!Other, Hole,
           Promise!Hole, Torn, Promise!Torn
  <2>4. QED
    BY <2>3 DEF Promise!Next
<1>4. CASE SetBoot
  <2>1. CASE /\ ValidImage(slots[Update])
             /\ configured' = Update
             /\ pc' = "restart"
    <3>1. NextBlock > 0 /\ NextBlock' = 0
      BY <1>4, <2>1 DEF SetBoot, Verified, IInv, TypeOK, NextBlock
    <3>2. Promise!Commit
      BY <1>4, <2>1, <3>1
         DEF SetBoot, Verified, Promise!Commit, Update, Other, Promise!Other, ValidImage,
             Promise!ValidImage, Image, Promise!Image
    <3>3. QED
      BY <3>2 DEF Promise!Next
  <2>2. CASE pc' = "idle" /\ UNCHANGED configured
    BY <1>4, <2>2, PromiseClose DEF SetBoot, Verified, IInv
  <2>3. QED
    BY <1>4, <2>1, <2>2 DEF SetBoot, Verified
<1>5. CASE Reset
  <2>1. running' = configured
    BY <1>5 DEF Reset, BootSlot, IInv, Bootable
  <2>2. Promise!Reboot
    BY <1>5, <2>1 DEF Reset, Promise!Reboot, NextBlock
  <2>3. QED
    BY <2>2 DEF Promise!Next
<1>6. ASSUME NEW c \in Uploads, AcceptWrq(c)
      PROVE  UNCHANGED Promise!ovars
  BY <1>6 DEF AcceptWrq, NextBlock, Promise!ovars, flash
<1>7. ASSUME NEW c \in Uploads,
             RejectWrq(c) \/ ClientStart(c) \/ ClientAck(c) \/ ClientFail(c)
      PROVE  UNCHANGED Promise!ovars
  BY <1>7, PromiseStutter
     DEF RejectWrq, ClientStart, ClientAck, ClientFail, server, flash
<1>8. CASE DropStray \/ Network \/ UNCHANGED vars
  BY <1>8, PromiseStutter DEF DropStray, Network, Deliver, vars, server, flash
<1>9. QED
  BY <1>2, <1>3, <1>4, <1>5, <1>6, <1>7, <1>8
     DEF Next, Task, Clients, Crash, Restart

\* The TFTP server implements the update promise for every number of clients,
\* every file and partition size and every set of faults.
THEOREM Refinement == Spec => PromiseKept
<1>1. Init => Promise!Init
  BY InitPromise
<1>2. IInv /\ [Next]_vars => [Promise!Next]_(Promise!ovars)
  BY NextPromise
<1>3. QED
  BY <1>1, <1>2, Invariance, PTL DEF Spec, PromiseKept, Promise!Spec
=============================================================================
