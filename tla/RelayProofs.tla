----------------------------- MODULE RelayProofs -----------------------------
(***************************************************************************)
(* Theorems about Relay.  The order of the device's bytes is that of one    *)
(* sequence, which the network's task, the ring buffer and the driver's     *)
(* task hold a stretch of each.  That the relay knows its device comes from *)
(* handles: an open device that is still plugged in is the one that the     *)
(* main loop opened last, and whatever was set since was set on it.         *)
(***************************************************************************)
EXTENDS Relay, SequenceTheorems, TLAPS

USE RelayAssumption

\* What TypeOK needs to be kept: nobody is served before the first client, and no
\* byte is pushed before the first byte.
Begun ==
  /\ session # "none" => clients # 0
  /\ usb = "push" => bytes # 0

Increasing(s) == \A i, j \in DOMAIN s : i < j => s[i] < s[j]

\* Each of the holders has its bytes in order and behind those of the one after it;
\* the byte in the hands of the driver's task is the last of all.
Queued ==
  /\ Increasing(item) /\ Increasing(ring)
  /\ \A i \in DOMAIN got : \A j \in DOMAIN item : got[i].byte < item[j]
  /\ \A i \in DOMAIN got : \A j \in DOMAIN ring : got[i].byte < ring[j]
  /\ \A i \in DOMAIN item : \A j \in DOMAIN ring : item[i] < ring[j]
LastIsPushed ==
  usb = "push" =>
    /\ \A i \in DOMAIN got : got[i].byte < bytes
    /\ \A i \in DOMAIN item : item[i] < bytes
    /\ \A i \in DOMAIN ring : ring[i] < bytes

\* The device the relay works with is there.
Working == cdc_dev # 0 /\ Usable

\* From line 226 on, a rate other than 115200 is the device's, or a call of on_baudrate
\* is about to set it.
RateKnown ==
  Working /\ main \in {"lines", "wait"} /\ s_baudrate # "115200" =>
    IF call \in Rates THEN call = s_baudrate ELSE rate = s_baudrate

Kept(l) == IF l = "dtr" THEN s_dtr ELSE s_rts

\* From line 228 on, the controls given are in force; the relay's idea of the lines is
\* the device's, but for the line of a call of on_control that is under way.
LinesKnown ==
  /\ call \in Controls => Kept(Line(call)) = Level(call)
  /\ Working /\ main = "wait" =>
       /\ \A control \in asked : lines[Line(control)] = Level(control)
       /\ asked # {} =>
            \A l \in Lines : (call \in Controls => l # Line(call)) => lines[l] = Kept(l)

IInv == TypeOK /\ Begun /\ DeviceOrder /\ Queued /\ LastIsPushed /\ RateKnown /\ LinesKnown
-----------------------------------------------------------------------------
(* Types.                                                                  *)

SentBy(b, c) == [byte : 1..b, client : 1..c]
Sent == SentBy(bytes, clients)

\* More bytes and more clients leave what is of a type of that type.
LEMMA SeqGrows ==
  ASSUME NEW b \in Nat, NEW c \in Nat, b <= c, NEW s \in Seq(1..b)
  PROVE  s \in Seq(1..c)
<1>1. 1..b \subseteq 1..c
  OBVIOUS
<1> QED
  BY <1>1, SeqMonotonic

LEMMA SentGrows ==
  ASSUME NEW b \in Nat, NEW b2 \in Nat, b <= b2, NEW c \in Nat, NEW c2 \in Nat, c <= c2,
         NEW s \in Seq(SentBy(b, c))
  PROVE  s \in Seq(SentBy(b2, c2))
<1>1. SentBy(b, c) \subseteq SentBy(b2, c2)
  BY DEF SentBy
<1> QED
  BY <1>1, SeqMonotonic

\* A sequence cut in two.
LEMMA Halves ==
  ASSUME NEW S, NEW s \in Seq(S), NEW n \in 1..Len(s)
  PROVE  /\ SubSeq(s, 1, n) \in Seq(S) /\ Len(SubSeq(s, 1, n)) = n
         /\ SubSeq(s, n + 1, Len(s)) \in Seq(S) /\ Len(SubSeq(s, n + 1, Len(s))) = Len(s) - n
         /\ \A i \in 1..n : SubSeq(s, 1, n)[i] = s[i]
         /\ \A i \in 1..Len(s) - n : SubSeq(s, n + 1, Len(s))[i] = s[n + i]
  OBVIOUS

LEMMA Flow ==
  ASSUME TypeOK
  PROVE  /\ bytes \in Nat /\ clients \in Nat
         /\ ring \in Seq(1..bytes) /\ Len(ring) \in Nat /\ DOMAIN ring = 1..Len(ring)
         /\ item \in Seq(1..bytes) /\ Len(item) \in Nat /\ DOMAIN item = 1..Len(item)
         /\ got \in Seq(Sent) /\ Len(got) \in Nat /\ DOMAIN got = 1..Len(got)
         /\ \A i \in DOMAIN ring : ring[i] \in 1..bytes
         /\ \A i \in DOMAIN item : item[i] \in 1..bytes
         /\ \A i \in DOMAIN got : got[i] \in Sent
<1>1. ring \in Seq(1..bytes) /\ item \in Seq(1..bytes) /\ got \in Seq(Sent)
  BY DEF TypeOK, Sent, SentBy
<1>2. bytes \in Nat /\ clients \in Nat
  BY DEF TypeOK
<1>3. /\ Len(ring) \in Nat /\ DOMAIN ring = 1..Len(ring)
      /\ Len(item) \in Nat /\ DOMAIN item = 1..Len(item)
      /\ Len(got) \in Nat /\ DOMAIN got = 1..Len(got)
  BY <1>1, LenProperties
<1> QED
  BY <1>1, <1>2, <1>3, ElementOfSeq

\* What NetSends sends.
Items(n) == [i \in 1..n |-> [byte |-> item[i], client |-> clients]]

LEMMA ItemsAreSent ==
  ASSUME TypeOK, Begun, NEW n \in 0..Len(item), session = "none" => n = 0
  PROVE  /\ Items(n) \in Seq(Sent) /\ Len(Items(n)) = n
         /\ got \o Items(n) \in Seq(Sent) /\ Len(got \o Items(n)) = Len(got) + n
         /\ \A i \in 1..Len(got) + n :
              (got \o Items(n))[i] = IF i <= Len(got) THEN got[i] ELSE Items(n)[i - Len(got)]
<1>1. n \in Nat /\ \A i \in 1..n : item[i] \in 1..bytes
  BY Flow
<1>2. n # 0 => clients \in 1..clients
  <2>1. clients \in Nat
    BY Flow
  <2>2. n # 0 => clients # 0
    BY DEF Begun
  <2> QED
    BY <2>1, <2>2
<1>3. \A i \in 1..n : [byte |-> item[i], client |-> clients] \in Sent
  BY <1>1, <1>2 DEF Sent, SentBy
<1>4. Items(n) \in Seq(Sent) /\ Len(Items(n)) = n
  BY <1>1, <1>3 DEF Items
<1>5. got \in Seq(Sent)
  BY Flow
<1> HIDE DEF Items
<1>6. /\ got \o Items(n) \in Seq(Sent) /\ Len(got \o Items(n)) = Len(got) + Len(Items(n))
      /\ \A i \in 1..Len(got) + Len(Items(n)) :
           (got \o Items(n))[i] = IF i <= Len(got) THEN got[i] ELSE Items(n)[i - Len(got)]
  BY <1>4, <1>5, ConcatProperties
<1> QED
  BY <1>4, <1>6

LEMMA TypeOfSteps ==
  ASSUME TypeOK, Begun, Next
  PROVE  TypeOK' /\ Begun'
<1> USE DEF Begun, sessionVars, usbVars, netVars, lineVars
<1>1. CASE Plug
  BY <1>1 DEF Plug, TypeOK
<1>2. CASE Unplug
  BY <1>2 DEF Unplug, TypeOK
<1>3. CASE UsbCloses
  BY <1>3 DEF UsbCloses, TypeOK
<1>4. CASE UsbGives
  BY <1>4 DEF UsbGives, TypeOK
<1>5. CASE UsbData
  <2>1. bytes' = bytes + 1 /\ bytes' \in 0..MaxBytes
    BY <1>5 DEF UsbData, TypeOK
  <2>2. ring \in Seq(1..bytes') /\ item \in Seq(1..bytes')
    BY <2>1, SeqGrows, Flow
  <2>3. got \in Seq(SentBy(bytes', clients))
    BY <2>1, SentGrows, Flow DEF Sent
  <2> QED
    BY <1>5, <2>1, <2>2, <2>3 DEF UsbData, TypeOK, SentBy
<1>6. CASE UsbPush
  <2>1. CASE Len(ring) + Len(item) < RingSize
    <3>1. ring' = Append(ring, bytes) /\ bytes \in 1..bytes
      BY <1>6, <2>1, Flow DEF UsbPush
    <3>2. ring' \in Seq(1..bytes) /\ Len(ring') = Len(ring) + 1
      BY <3>1, Flow, AppendProperties
    <3>3. Len(ring') + Len(item) <= RingSize
      <4>1. Len(ring) \in Nat /\ Len(item) \in Nat
        BY Flow
      <4> QED
        BY <2>1, <3>2, <4>1
    <3>4. UNCHANGED <<sessionVars, device, plugs, open, sem, bytes, item, got, lineVars, cdc_dev, main, panicked>>
          /\ usb' = "idle"
      BY <1>6, <2>1 DEF UsbPush
    <3> QED
      BY <3>2, <3>3, <3>4 DEF TypeOK
  <2>2. CASE ~(Len(ring) + Len(item) < RingSize)
    BY <1>6, <2>2 DEF UsbPush, TypeOK
  <2> QED
    BY <2>1, <2>2
<1>7. CASE MainOpens
  <2>1. CASE device # 0 /\ open = 0
    BY <1>7, <2>1 DEF MainOpens, TypeOK
  <2>2. CASE ~(device # 0 /\ open = 0)
    BY <1>7, <2>2 DEF MainOpens, TypeOK
  <2> QED
    BY <2>1, <2>2
<1>8. CASE MainSetsRate \/ MainSetsLines \/ MainWaits
  <2>1. CASE MainSetsRate
    BY <2>1 DEF MainSetsRate, Rates, TypeOK
  <2>2. CASE MainSetsLines
    BY <2>2 DEF MainSetsLines, TypeOK
  <2>3. CASE MainWaits
    BY <2>3 DEF MainWaits, TypeOK
  <2> QED
    BY <1>8, <2>1, <2>2, <2>3
<1>9. CASE NetTakes
  <2>1. PICK n \in 1..Len(ring) : item' = SubSeq(ring, 1, n) /\ ring' = SubSeq(ring, n + 1, Len(ring))
    BY <1>9 DEF NetTakes
  <2>2. /\ item' \in Seq(1..bytes) /\ Len(item') = n
        /\ ring' \in Seq(1..bytes) /\ Len(ring') = Len(ring) - n
    <3> DEFINE S == 1..bytes
    <3>1. ring \in Seq(S)
      BY Flow
    <3> HIDE DEF S
    <3>2. /\ item' \in Seq(S) /\ Len(item') = n
          /\ ring' \in Seq(S) /\ Len(ring') = Len(ring) - n
      BY <2>1, <3>1, Halves
    <3> QED
      BY <3>2 DEF S
  <2>3. Len(item) = 0
    BY <1>9 DEF NetTakes
  <2>4. Len(ring') + Len(item') <= RingSize
    BY <2>2, <2>3, Flow DEF TypeOK
  <2> QED
    BY <1>9, <2>2, <2>4 DEF NetTakes, TypeOK
<1>10. CASE NetSends
  <2>1. PICK n \in 0..Len(item) : (session = "none" => n = 0) /\ got' = got \o Items(n)
    BY <1>10 DEF NetSends, Items
  <2>2. got' \in Seq(Sent)
    BY <2>1, ItemsAreSent
  <2>3. item' = <<>> /\ Len(ring) + 0 <= RingSize
    BY <1>10, Flow DEF NetSends, TypeOK
  <2> QED
    <3>1. UNCHANGED <<sessionVars, usbVars, ring, lineVars, cdc_dev, main, panicked>>
          /\ item' = <<>> /\ Len(ring') + Len(item') <= RingSize
          /\ got' \in Seq([byte : 1..bytes', client : 1..clients'])
      BY <1>10, <2>2, <2>3 DEF NetSends, Sent, SentBy
    <3>2. {ring', item'} \subseteq Seq(1..bytes')
      BY <3>1, Flow
    <3> HIDE DEF sessionVars
    <3> QED
      BY <3>1, <3>2 DEF TypeOK, sessionVars
<1>11. CASE ClientComes
  <2>1. clients' = clients + 1 /\ clients' \in 0..MaxSessions
    BY <1>11 DEF ClientComes, TypeOK
  <2>2. got \in Seq(SentBy(bytes, clients'))
    BY <2>1, SentGrows, Flow DEF Sent
  <2> QED
    BY <1>11, <2>1, <2>2 DEF ClientComes, Begins, TypeOK, SentBy
<1>12. CASE OnConnected \/ OnDisconnected
  BY <1>12 DEF OnConnected, OnDisconnected, SaysHello, Ends, TypeOK
<1>13. CASE OnControl
  <2>1. call' \in Controls /\ s_dtr' \in BOOLEAN /\ s_rts' \in BOOLEAN
    <3>1. \A control : Level(control) \in BOOLEAN
      BY SMT DEF Level
    <3>2. s_dtr \in BOOLEAN /\ s_rts \in BOOLEAN
      BY DEF TypeOK
    <3>3. PICK control \in Controls :
            /\ call' = control
            /\ s_dtr' = IF Line(control) = "dtr" THEN Level(control) ELSE s_dtr
            /\ s_rts' = IF Line(control) = "rts" THEN Level(control) ELSE s_rts
      BY <1>13 DEF OnControl
    <3>4. s_dtr' = Level(control) \/ s_dtr' = s_dtr
      BY <3>3
    <3>5. s_rts' = Level(control) \/ s_rts' = s_rts
      BY <3>3
    <3> QED
      BY <3>1, <3>2, <3>3, <3>4, <3>5, Zenon
  <2> QED
    BY <1>13, <2>1 DEF OnControl, Asks, TypeOK
<1>14. CASE ControlTransfers
  <2>1. lines' \in [Lines -> BOOLEAN] /\ asked' \subseteq Controls
    BY <1>14 DEF ControlTransfers, TypeOK
  <2> QED
    BY <1>14, <2>1 DEF ControlTransfers, TypeOK
<1>15. CASE OnBaudrate \/ BaudrateTransfers \/ OnData
  BY <1>15 DEF OnBaudrate, BaudrateTransfers, OnData, Asks, TypeOK
<1> QED
  BY <1>1, <1>2, <1>3, <1>4, <1>5, <1>6, <1>7, <1>8, <1>9, <1>10, <1>11, <1>12, <1>13, <1>14, <1>15
  DEF Next, Usb, Main, ToNetwork, Callback, Transfers
-----------------------------------------------------------------------------
(* The order of the device's bytes.                                        *)

Order == DeviceOrder /\ Queued /\ LastIsPushed

LEMMA OrderOfData == TypeOK /\ Order /\ UsbData => Order'
<1> SUFFICES ASSUME TypeOK, Order, UsbData PROVE Order'
  OBVIOUS
<1>1. UNCHANGED <<ring, item, got>> /\ bytes' = bytes + 1
  BY DEF UsbData, netVars
<1>2. LastIsPushed'
  <2>1. \A i \in DOMAIN got : got[i].byte \in 1..bytes
    BY Flow DEF Sent, SentBy
  <2> QED
    BY <1>1, <2>1, Flow DEF LastIsPushed
<1> QED
  BY <1>1, <1>2 DEF Order, DeviceOrder, Queued, Increasing

LEMMA OrderOfPush == TypeOK /\ Begun /\ Order /\ UsbPush => Order'
<1> SUFFICES ASSUME TypeOK, Begun, Order, UsbPush PROVE Order'
  OBVIOUS
<1>1. UNCHANGED <<item, got, bytes>> /\ usb = "push" /\ usb' = "idle"
  BY DEF UsbPush
<1>2. CASE ring' = Append(ring, bytes)
  <2>1. bytes \in 1..bytes
    BY <1>1, Flow DEF Begun
  <2>2. /\ DOMAIN ring' = 1..Len(ring) + 1 /\ ring'[Len(ring) + 1] = bytes
        /\ \A i \in 1..Len(ring) : ring'[i] = ring[i]
    BY <1>2, <2>1, Flow, AppendProperties, LenProperties
  <2> DEFINE n == Len(ring)
  <2>3. n \in Nat /\ DOMAIN ring = 1..n /\ \A i \in 1..n + 1 : i \in 1..n \/ i = n + 1
    <3>1. n \in Nat /\ DOMAIN ring = 1..n
      BY Flow
    <3> QED
      BY <3>1
  <2>4. Queued'
    <3> HIDE DEF n
    <3>1. \A i \in DOMAIN ring' : (i \in DOMAIN ring /\ ring'[i] = ring[i]) \/ (i = n + 1 /\ ring'[i] = bytes)
      BY <2>2, <2>3 DEF n
    <3>2. \A i, j \in DOMAIN ring' : i < j => i \in DOMAIN ring
      BY <2>2, <2>3 DEF n
    <3> QED
      BY <1>1, <2>3, <3>1, <3>2 DEF Order, Queued, LastIsPushed, Increasing
  <2> QED
    BY <1>1, <2>4 DEF Order, DeviceOrder, LastIsPushed
<1>3. CASE UNCHANGED ring
  BY <1>1, <1>3 DEF Order, DeviceOrder, Queued, LastIsPushed, Increasing
<1> QED
  BY <1>2, <1>3 DEF UsbPush

LEMMA OrderOfTaking == TypeOK /\ Order /\ NetTakes => Order'
<1> SUFFICES ASSUME TypeOK, Order, NetTakes PROVE Order'
  OBVIOUS
<1>1. UNCHANGED <<got, bytes, usb>>
  BY DEF NetTakes, usbVars
<1>2. PICK n \in 1..Len(ring) : item' = SubSeq(ring, 1, n) /\ ring' = SubSeq(ring, n + 1, Len(ring))
  BY DEF NetTakes
<1>3. /\ DOMAIN item' = 1..n /\ \A i \in 1..n : item'[i] = ring[i]
      /\ DOMAIN ring' = 1..Len(ring) - n /\ \A i \in 1..Len(ring) - n : ring'[i] = ring[n + i]
  <2> DEFINE S == 1..bytes
  <2>1. ring \in Seq(S)
    BY Flow
  <2> HIDE DEF S
  <2> QED
    BY <1>2, <2>1, Halves, LenProperties
<1>4. /\ \A i \in 1..n : i \in DOMAIN ring
      /\ \A i \in 1..Len(ring) - n : n + i \in DOMAIN ring
      /\ \A i \in 1..n, j \in 1..Len(ring) - n : i < n + j
      /\ \A i, j \in 1..Len(ring) - n : i < j => n + i < n + j
  BY Flow
<1>5. Queued'
  BY <1>1, <1>3, <1>4 DEF Order, Queued, Increasing
<1>6. LastIsPushed'
  BY <1>1, <1>3, <1>4 DEF Order, LastIsPushed
<1> QED
  BY <1>1, <1>5, <1>6 DEF Order, DeviceOrder

LEMMA OrderOfSending == TypeOK /\ Begun /\ Order /\ NetSends => Order'
<1> SUFFICES ASSUME TypeOK, Begun, Order, NetSends PROVE Order'
  OBVIOUS
<1>1. UNCHANGED <<ring, bytes, usb>> /\ item' = <<>>
  BY DEF NetSends, usbVars
<1>2. PICK n \in 0..Len(item) : (session = "none" => n = 0) /\ got' = got \o Items(n)
  BY DEF NetSends, Items
<1> DEFINE m == Len(got)
<1>3. DOMAIN got' = 1..m + n /\ m \in Nat /\ DOMAIN got = 1..m
  BY <1>2, ItemsAreSent, Flow, LenProperties
<1>4. \A i \in DOMAIN got' :
        \/ i \in DOMAIN got /\ got'[i] = got[i]
        \/ /\ i > m /\ i - m \in DOMAIN item
           /\ got'[i].byte = item[i - m] /\ got'[i].client = clients
  <2> SUFFICES ASSUME NEW i \in DOMAIN got', ~(i <= m)
               PROVE  /\ i - m \in DOMAIN item
                      /\ got'[i].byte = item[i - m] /\ got'[i].client = clients
    BY <1>2, <1>3, ItemsAreSent
  <2>1. i - m \in 1..n /\ i - m \in DOMAIN item
    BY <1>3, Flow
  <2>2. got'[i] = Items(n)[i - m]
    BY <1>2, <1>3, ItemsAreSent
  <2> QED
    BY <2>1, <2>2 DEF Items
<1>5. \A i \in DOMAIN got : got[i].client <= clients
  BY Flow DEF Sent, SentBy
<1>6. DeviceOrder'
  <2> SUFFICES ASSUME NEW i \in DOMAIN got', NEW j \in DOMAIN got', i < j
               PROVE  got'[i].byte < got'[j].byte /\ got'[i].client <= got'[j].client
    BY DEF DeviceOrder
  <2>1. CASE j \in DOMAIN got /\ got'[j] = got[j]
    <3>1. i \in DOMAIN got /\ got'[i] = got[i]
      BY <1>3, <1>4, <2>1
    <3> QED
      BY <2>1, <3>1 DEF Order, DeviceOrder
  <2>2. CASE j > m /\ j - m \in DOMAIN item /\ got'[j].byte = item[j - m] /\ got'[j].client = clients
    <3>1. CASE i \in DOMAIN got /\ got'[i] = got[i]
      BY <1>5, <2>2, <3>1 DEF Order, Queued
    <3>2. CASE i > m /\ i - m \in DOMAIN item /\ got'[i].byte = item[i - m] /\ got'[i].client = clients
      <4>1. i - m < j - m
        BY <1>3
      <4> QED
        BY <2>2, <3>2, <4>1, Flow DEF Order, Queued, Increasing
    <3> QED
      BY <1>4, <3>1, <3>2
  <2> QED
    BY <1>4, <2>1, <2>2
<1>7. Queued'
  BY <1>1, <1>4 DEF Order, Queued, Increasing
<1>8. LastIsPushed'
  BY <1>1, <1>4 DEF Order, LastIsPushed
<1> QED
  BY <1>6, <1>7, <1>8 DEF Order

LEMMA OrderOfSteps ==
  ASSUME TypeOK, Begun, Order, Next
  PROVE  Order'
<1>1. CASE UNCHANGED <<got, item, ring, bytes>> /\ (usb' = usb \/ usb' # "push")
  BY <1>1 DEF Order, DeviceOrder, Queued, LastIsPushed, Increasing
<1>2. CASE Plug \/ Unplug \/ UsbCloses \/ UsbGives \/ Main
  BY <1>1, <1>2 DEF Plug, Unplug, UsbCloses, UsbGives, Main, MainOpens, MainSetsRate, MainSetsLines,
                    MainWaits, netVars, usbVars
<1>3. CASE ClientComes \/ Callback
  BY <1>1, <1>3 DEF ClientComes, Callback, OnConnected, OnDisconnected, OnControl, OnBaudrate,
                    Transfers, ControlTransfers, BaudrateTransfers, OnData, netVars, usbVars
<1> QED
  BY <1>2, <1>3, OrderOfData, OrderOfPush, OrderOfTaking, OrderOfSending DEF Next, Usb, ToNetwork
-----------------------------------------------------------------------------
(* What the relay knows of the device it has open.                         *)

\* Only the main loop opens a device, and a plugged-in device is a new one: a device
\* that the relay works with after another step it worked with before.
LEMMA WorkingIsOld ==
  ASSUME TypeOK, Next, ~MainOpens
  PROVE  cdc_dev' = cdc_dev /\ (Working' => Working)
<1>1. CASE Plug
  BY <1>1 DEF Plug, Working, Usable, TypeOK
<1>2. CASE Unplug
  BY <1>2 DEF Unplug, Working, Usable
<1>3. CASE UsbCloses
  BY <1>3 DEF UsbCloses, Working, Usable
<1>4. CASE UsbGives \/ UsbData \/ UsbPush
  BY <1>4 DEF UsbGives, UsbData, UsbPush, Working, Usable
<1>5. CASE MainSetsRate \/ MainSetsLines \/ MainWaits \/ ToNetwork
  BY <1>5 DEF MainSetsRate, MainSetsLines, MainWaits, ToNetwork, NetTakes, NetSends, usbVars, Working, Usable
<1>6. CASE ClientComes \/ Callback
  BY <1>6 DEF ClientComes, Callback, OnConnected, OnDisconnected, OnControl, OnBaudrate,
              Transfers, ControlTransfers, BaudrateTransfers, OnData, usbVars, Working, Usable
<1> QED
  BY <1>1, <1>2, <1>3, <1>4, <1>5, <1>6 DEF Next, Usb, Main

LEMMA RateAfterSteps ==
  ASSUME TypeOK, RateKnown, Next
  PROVE  RateKnown'
<1> USE DEF RateKnown, lineVars, sessionVars
<1>1. CASE MainOpens
  BY <1>1 DEF MainOpens
<1>2. CASE MainSetsRate
  BY <1>2 DEF MainSetsRate
<1>3. CASE MainSetsLines
  BY <1>3, WorkingIsOld DEF MainSetsLines, MainOpens
<1>4. CASE MainWaits
  BY <1>4 DEF MainWaits
<1>5. CASE UNCHANGED <<s_baudrate, rate, main, call>> /\ ~MainOpens
  BY <1>5, WorkingIsOld
<1>6. CASE Plug \/ Unplug \/ UsbCloses \/ UsbGives \/ UsbData \/ UsbPush \/ ToNetwork
  BY <1>5, <1>6 DEF Plug, Unplug, UsbCloses, UsbGives, UsbData, UsbPush, ToNetwork, NetTakes, NetSends, MainOpens
<1>7. CASE ClientComes \/ OnConnected \/ OnDisconnected \/ OnData
  BY <1>5, <1>7 DEF ClientComes, OnConnected, OnDisconnected, OnData, MainOpens
<1>8. CASE (OnControl \/ ControlTransfers) /\ ~MainOpens
  <2>1. call \notin Rates /\ call' \notin Rates /\ UNCHANGED <<main, rate, s_baudrate>>
    BY <1>8 DEF OnControl, ControlTransfers, Rates
  <2> QED
    BY <1>8, <2>1, WorkingIsOld
<1>9. CASE OnBaudrate
  BY <1>9 DEF OnBaudrate
<1>10. CASE BaudrateTransfers /\ ~MainOpens
  <2>1. call \in Rates /\ UNCHANGED <<main, s_baudrate>> /\ (Working => rate' = call)
    BY <1>10 DEF BaudrateTransfers, Working
  <2>2. call' \notin Rates
    BY <1>10 DEF BaudrateTransfers, Rates
  <2> QED
    BY <1>10, <2>1, <2>2, WorkingIsOld
<1> QED
  BY <1>1, <1>2, <1>3, <1>4, <1>6, <1>7, <1>8, <1>9, <1>10 DEF Next, Usb, Main, Callback, Transfers

LEMMA LinesAfterSteps ==
  ASSUME TypeOK, LinesKnown, Next
  PROVE  LinesKnown'
<1> USE DEF lineVars, sessionVars
<1>1. CASE MainOpens
  BY <1>1 DEF MainOpens, LinesKnown, Kept
<1>2. CASE MainSetsRate
  BY <1>2 DEF MainSetsRate, LinesKnown, Kept
<1>3. CASE MainSetsLines
  BY <1>3 DEF MainSetsLines, LinesKnown, Kept
<1>4. CASE MainWaits
  BY <1>4 DEF MainWaits, LinesKnown, Kept
<1>5. CASE UNCHANGED <<s_dtr, s_rts, lines, asked, main, call>> /\ ~MainOpens
  BY <1>5, WorkingIsOld DEF LinesKnown, Kept
<1>6. CASE /\ Plug \/ Unplug \/ UsbCloses \/ UsbGives \/ UsbData \/ UsbPush \/ ToNetwork
           /\ ~MainOpens
  <2>1. UNCHANGED <<s_dtr, s_rts, lines, asked, main, call>>
    BY <1>6 DEF Plug, Unplug, UsbCloses, UsbGives, UsbData, UsbPush, ToNetwork, NetTakes, NetSends
  <2> QED
    BY <1>5, <1>6, <2>1
<1>7. CASE (ClientComes \/ OnConnected \/ OnDisconnected \/ OnData) /\ ~MainOpens
  <2>1. UNCHANGED <<s_dtr, s_rts, lines, asked, main, call>>
    BY <1>7 DEF ClientComes, OnConnected, OnDisconnected, OnData
  <2> QED
    BY <1>5, <1>7, <2>1
<1>8. CASE OnControl /\ ~MainOpens
  <2>1. PICK control \in Controls :
          /\ call' = control
          /\ s_dtr' = IF Line(control) = "dtr" THEN Level(control) ELSE s_dtr
          /\ s_rts' = IF Line(control) = "rts" THEN Level(control) ELSE s_rts
    BY <1>8 DEF OnControl
  <2>2. call \notin Controls /\ UNCHANGED <<lines, asked, main>>
    BY <1>8 DEF OnControl
  <2>3. Kept(Line(control))' = Level(control)
        /\ \A l \in Lines \ {Line(control)} : Kept(l)' = Kept(l)
    BY <2>1 DEF Kept, Line, Lines
  <2> QED
    BY <1>8, <2>1, <2>2, <2>3, WorkingIsOld DEF LinesKnown
<1>9. CASE ControlTransfers /\ ~MainOpens
  <2>1. call \in Controls /\ call' \notin Controls /\ UNCHANGED <<s_dtr, s_rts, main>>
    BY <1>9 DEF ControlTransfers
  <2>2. Working =>
          /\ \A l \in Lines : lines'[l] = Kept(l)
          /\ asked' = {c \in asked : Line(c) # Line(call)} \cup {call}
    BY <1>9 DEF ControlTransfers, Working, Kept
  <2>3. \A l : Kept(l)' = Kept(l)
    BY <2>1 DEF Kept
  <2>4. \A c : Line(c) \in Lines
    BY DEF Line, Lines
  <2>5. Working /\ main = "wait" => \A c \in asked' : lines'[Line(c)] = Level(c)
    <3> SUFFICES ASSUME Working, main = "wait", NEW c \in asked'
                 PROVE  lines'[Line(c)] = Level(c)
      OBVIOUS
    <3>1. CASE c = call
      BY <2>1, <2>2, <2>4, <3>1 DEF LinesKnown
    <3>2. CASE c \in asked /\ Line(c) # Line(call)
      BY <2>1, <2>2, <2>4, <3>2 DEF LinesKnown
    <3> QED
      BY <2>2, <3>1, <3>2
  <2> QED
    BY <1>9, <2>1, <2>2, <2>3, <2>5, WorkingIsOld DEF LinesKnown
<1>10. CASE (OnBaudrate \/ BaudrateTransfers) /\ ~MainOpens
  <2>1. call \notin Controls /\ call' \notin Controls /\ UNCHANGED <<s_dtr, s_rts, lines, asked, main>>
    BY <1>10 DEF OnBaudrate, BaudrateTransfers, Rates
  <2> QED
    BY <1>10, <2>1, WorkingIsOld DEF LinesKnown, Kept
<1> QED
  BY <1>1, <1>2, <1>3, <1>4, <1>6, <1>7, <1>8, <1>9, <1>10 DEF Next, Usb, Main, Callback, Transfers
-----------------------------------------------------------------------------
(* Theorems.                                                               *)

LEMMA InitInv == Init => IInv
<1> SUFFICES ASSUME Init PROVE IInv
  OBVIOUS
<1>1. got \in Seq([byte : 1..bytes, client : 1..clients]) /\ {ring, item} \subseteq Seq(1..bytes)
  BY DEF Init
<1>2. TypeOK
  <2>1. Len(ring) + Len(item) <= RingSize /\ {clients, bytes, plugs} = {0}
    BY DEF Init
  <2>2. 0 \in 0..MaxSessions /\ 0 \in 0..MaxPlugs /\ 0 \in 0..MaxBytes
    OBVIOUS
  <2>3. {device, open, cdc_dev} \subseteq 0..plugs
    BY DEF Init
  <2>4. {sem, s_client_connected, s_dtr, s_rts, panicked} \subseteq BOOLEAN
    BY DEF Init
  <2> QED
    BY <1>1, <2>1, <2>2, <2>3, <2>4 DEF Init, SessionInit, TypeOK, Rates
<1>3. DeviceOrder /\ Queued
  BY DEF Init, DeviceOrder, Queued, Increasing
<1> QED
  BY <1>2, <1>3 DEF Init, SessionInit, IInv, Begun, LastIsPushed, RateKnown, LinesKnown, Working, Rates

LEMMA NextInv == IInv /\ [Next]_vars => IInv'
<1> SUFFICES ASSUME IInv, [Next]_vars PROVE IInv'
  OBVIOUS
<1>1. CASE Next
  BY <1>1, TypeOfSteps, OrderOfSteps, RateAfterSteps, LinesAfterSteps DEF IInv, Order
<1>2. CASE UNCHANGED vars
  BY <1>2 DEF vars, sessionVars, usbVars, netVars, lineVars, IInv, TypeOK, Begun, DeviceOrder, Queued,
              Increasing, LastIsPushed, RateKnown, LinesKnown, Working, Usable, Kept
<1> QED
  BY <1>1, <1>2

\* Relay's state stays within its types; the ring buffer and what has been taken out of
\* it never hold more than fits, however late the network's task returns its item.
THEOREM TypeCorrect == Spec => []TypeOK
<1>1. IInv => TypeOK
  BY DEF IInv
<1> QED
  BY <1>1, InitInv, NextInv, PTL DEF Spec

\* However many devices and clients come and go, and however the driver's task and the
\* network's interleave: the clients get the device's bytes in order, none twice.
THEOREM BytesInOrder == Spec => []DeviceOrder
<1>1. IInv => DeviceOrder
  BY DEF IInv
<1> QED
  BY <1>1, InitInv, NextInv, PTL DEF Spec

\* For any number of devices and clients, and whatever they ask for: a rate other than
\* 115200 that the relay remembers is the device's, the controls it gave the device
\* since line 228 are in force, and from the first one on it knows both lines.
THEOREM RelayKnowsDevice == Spec => []DeviceKnown
<1>1. IInv => DeviceKnown
  <2> SUFFICES ASSUME IInv, Usable, open # 0, main = "wait", call = "none"
               PROVE  /\ s_baudrate # "115200" => rate = s_baudrate
                      /\ \A control \in asked : lines[Line(control)] = Level(control)
                      /\ asked # {} => lines["dtr"] = s_dtr /\ lines["rts"] = s_rts
    BY DEF DeviceKnown
  <2>1. Working /\ call \notin Rates /\ call \notin Controls
    BY DEF Working, Usable, Rates
  <2> QED
    BY <2>1 DEF IInv, RateKnown, LinesKnown, Kept, Lines
<1> QED
  BY <1>1, InitInv, NextInv, PTL DEF Spec
=============================================================================
