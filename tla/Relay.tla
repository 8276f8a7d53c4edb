------------------------------- MODULE Relay -------------------------------
(***************************************************************************)
(* main/serial_port_relay.c on top of the promise of the RFC 2217 server   *)
(* (RfcSession): the main loop that opens the USB device, the CDC driver's *)
(* task that reports its data and its disconnection, the task that takes   *)
(* the ring buffer to the network, and the callbacks of the server's       *)
(* receive thread.                                                         *)
(*                                                                         *)
(* Devices are numbered in the order in which they are plugged in.  A      *)
(* handle is the number of the device it was opened for, and cdc_dev may   *)
(* be one that has been closed.  Device bytes are numbered too.            *)
(***************************************************************************)
EXTENDS RfcSession, Integers, Sequences

CONSTANTS
  MaxSessions, \* clients served, one after another
  MaxPlugs,    \* devices plugged in, one after another
  MaxBytes,    \* bytes they send
  RingSize,    \* what the ring buffer holds
  Controls     \* what clients ask of the lines

ASSUMPTION RelayAssumption ==
  /\ {MaxSessions, MaxPlugs, MaxBytes, RingSize} \subseteq Nat \ {0}
  /\ Controls \subseteq {"set_dtr", "clear_dtr", "set_rts", "clear_rts"}

\* The line a control is about, and what it asks of it.
Lines == {"dtr", "rts"}
Line(control) == IF control \in {"set_dtr", "clear_dtr"} THEN "dtr" ELSE "rts"
Level(control) == control \in {"set_dtr", "set_rts"}

Rates == {"9600", "115200"}

VARIABLES
  clients,             \* clients so far
  call,                \* the rate or the control a callback is giving the device, or "none"
  device,              \* the device that is plugged in, 0: none
  plugs,               \* devices so far
  open,                \* the device the driver has open, 0: none
  cdc_dev,             \* the handle the relay keeps, 0: NULL
  main,                \* where serial_port_relay's loop is
  sem,                 \* s_device_disconnected_sem
  usb,                 \* where the driver's task is
  bytes,               \* bytes the devices have sent
  ring, item,          \* the ring buffer, and what has been taken but not returned
  got,                 \* the bytes clients got, each with the number of the client
  s_client_connected, s_dtr, s_rts, s_baudrate,
  lines, rate,         \* the device's DTR and RTS, and its rate since it was opened
  asked,               \* history: the controls given to the device since line 228
  panicked             \* abort, a failed ESP_ERROR_CHECK, or a fault

sessionVars == <<session, clients, call, s_client_connected>>
usbVars == <<device, plugs, open, sem, usb, bytes>>
netVars == <<ring, item, got>>
lineVars == <<s_dtr, s_rts, s_baudrate, lines, rate, asked>>
vars == <<sessionVars, usbVars, netVars, lineVars, cdc_dev, main, panicked>>

Init ==
  /\ SessionInit /\ clients = 0 /\ call = "none" /\ s_client_connected = FALSE
  /\ device = 0 /\ plugs = 0 /\ open = 0 /\ cdc_dev = 0
  /\ main = "open" /\ sem = FALSE /\ usb = "idle" /\ bytes = 0
  /\ ring = <<>> /\ item = <<>> /\ got = <<>>
  /\ s_dtr = FALSE /\ s_rts = FALSE /\ s_baudrate = "115200"
  /\ lines = [l \in Lines |-> FALSE] /\ rate = "unset" /\ asked = {}
  /\ panicked = FALSE

-----------------------------------------------------------------------------
\* The device and the driver's task (external but for the callbacks).
Plug ==
  /\ device = 0 /\ plugs < MaxPlugs
  /\ plugs' = plugs + 1 /\ device' = plugs'
  /\ UNCHANGED <<sessionVars, open, sem, usb, bytes, netVars, lineVars, cdc_dev, main, panicked>>
Unplug ==
  /\ device # 0 /\ device' = 0
  /\ UNCHANGED <<sessionVars, plugs, open, sem, usb, bytes, netVars, lineVars, cdc_dev, main, panicked>>

\* handle_event: the device is closed and the main loop is told; cdc_dev keeps the
\* handle.
UsbCloses ==
  /\ usb = "idle" /\ open # 0 /\ open # device
  /\ open' = 0 /\ usb' = "gone"
  /\ UNCHANGED <<sessionVars, device, plugs, sem, bytes, netVars, lineVars, cdc_dev, main, panicked>>
\* Mutant: the main loop is not told.
UsbGivesNothing ==
  /\ usb = "gone"
  /\ usb' = "idle"
  /\ UNCHANGED <<sessionVars, device, plugs, open, sem, bytes, netVars, lineVars, cdc_dev, main, panicked>>
UsbGives ==
  /\ usb = "gone"
  /\ sem' = TRUE /\ usb' = "idle"
  /\ UNCHANGED <<sessionVars, device, plugs, open, bytes, netVars, lineVars, cdc_dev, main, panicked>>

\* on_data_received_from_usb: the client is looked at, then the byte is queued.
UsbData ==
  /\ usb = "idle" /\ open # 0 /\ open = device /\ bytes < MaxBytes
  /\ bytes' = bytes + 1
  /\ usb' = IF s_client_connected THEN "push" ELSE "idle"
  /\ UNCHANGED <<sessionVars, device, plugs, open, sem, netVars, lineVars, cdc_dev, main, panicked>>
\* Mutant: the ring buffer is believed to have room for one more.
UsbPushLate ==
  /\ usb = "push" /\ usb' = "idle"
  /\ IF Len(ring) + Len(item) <= RingSize
     THEN ring' = Append(ring, bytes) /\ UNCHANGED panicked
     ELSE panicked' = TRUE /\ UNCHANGED ring
  /\ UNCHANGED <<sessionVars, device, plugs, open, sem, bytes, item, got, lineVars, cdc_dev, main>>
UsbPush ==
  /\ usb = "push" /\ usb' = "idle"
  /\ IF Len(ring) + Len(item) < RingSize
     THEN ring' = Append(ring, bytes) /\ UNCHANGED panicked
     ELSE panicked' = TRUE /\ UNCHANGED ring
  /\ UNCHANGED <<sessionVars, device, plugs, open, sem, bytes, item, got, lineVars, cdc_dev, main>>
-----------------------------------------------------------------------------
\* serial_port_relay.
MainOpens ==
  /\ main = "open"
  /\ IF device # 0 /\ open = 0
     THEN /\ open' = device /\ cdc_dev' = device /\ main' = "rate"
          /\ rate' = "unset"
     ELSE cdc_dev' = 0 /\ UNCHANGED <<open, main, rate>>
  /\ UNCHANGED <<sessionVars, device, plugs, sem, usb, bytes, netVars, s_dtr, s_rts, s_baudrate, lines,
                 asked, panicked>>
\* Mutant: the rate is left as the last device had it.
MainKeepsRate ==
  /\ main = "rate" /\ main' = "lines"
  /\ UNCHANGED <<sessionVars, usbVars, netVars, lineVars, cdc_dev, panicked>>
MainSetsRate ==
  /\ main = "rate"
  /\ s_baudrate' = "115200" /\ main' = "lines"
  /\ UNCHANGED <<sessionVars, usbVars, netVars, s_dtr, s_rts, lines, rate, asked, cdc_dev, panicked>>

\* A transfer fails when the device is gone.  With a handle that has been closed
\* the driver works on freed memory: it fails, or faults.
Usable == open = cdc_dev /\ open = device

\* DTR on and RTS off, whatever s_dtr and s_rts say.
MainSetsLines ==
  /\ main = "lines" /\ main' = "wait" /\ asked' = {}
  /\ IF Usable THEN lines' = [l \in Lines |-> l = "dtr"] /\ UNCHANGED panicked
     ELSE panicked' = TRUE /\ UNCHANGED lines
  /\ UNCHANGED <<sessionVars, usbVars, netVars, s_dtr, s_rts, s_baudrate, rate, cdc_dev>>
MainWaits ==
  /\ main = "wait" /\ sem
  /\ sem' = FALSE /\ main' = "open"
  /\ UNCHANGED <<sessionVars, device, plugs, open, usb, bytes, netVars, lineVars, cdc_dev, panicked>>
-----------------------------------------------------------------------------
\* usb_to_network.  What it sends goes to whoever is served when it is sent, as far
\* as the connection takes it; nobody hears of the rest.
\* Mutant: the item is sent again when the ring has more.
NetSendsAgain ==
  /\ item # <<>> /\ item' = IF ring = <<>> THEN <<>> ELSE item
  /\ \E n \in 0..Len(item) :
       /\ session = "none" => n = 0
       /\ got' = got \o [i \in 1..n |-> [byte |-> item[i], client |-> clients]]
  /\ UNCHANGED <<sessionVars, usbVars, ring, lineVars, cdc_dev, main, panicked>>
NetTakes ==
  /\ item = <<>> /\ ring # <<>>
  /\ \E n \in 1..Len(ring) : item' = SubSeq(ring, 1, n) /\ ring' = SubSeq(ring, n + 1, Len(ring))
  /\ UNCHANGED <<sessionVars, usbVars, got, lineVars, cdc_dev, main, panicked>>
NetSends ==
  /\ item # <<>> /\ item' = <<>>
  /\ \E n \in 0..Len(item) :
       /\ session = "none" => n = 0
       /\ got' = got \o [i \in 1..n |-> [byte |-> item[i], client |-> clients]]
  /\ UNCHANGED <<sessionVars, usbVars, ring, lineVars, cdc_dev, main, panicked>>
-----------------------------------------------------------------------------
\* The callbacks, made by the server's receive thread one after another.
ClientComes ==
  /\ Begins
  /\ clients < MaxSessions /\ clients' = clients + 1
  /\ UNCHANGED <<call, s_client_connected, usbVars, netVars, lineVars, cdc_dev, main, panicked>>

OnConnected ==
  /\ call = "none" /\ session = "raw" /\ SaysHello
  /\ s_client_connected' = TRUE
  /\ UNCHANGED <<clients, call, usbVars, netVars, lineVars, cdc_dev, main, panicked>>

OnDisconnected ==
  /\ call = "none" /\ Ends
  /\ s_client_connected' = FALSE
  /\ UNCHANGED <<clients, call, usbVars, netVars, lineVars, cdc_dev, main, panicked>>

\* on_control: it remembers the line, then has both lines given to the device.
OnControl ==
  /\ call = "none" /\ Asks
  /\ \E control \in Controls :
       /\ call' = control
       /\ s_dtr' = IF Line(control) = "dtr" THEN Level(control) ELSE s_dtr
       /\ s_rts' = IF Line(control) = "rts" THEN Level(control) ELSE s_rts
  /\ UNCHANGED <<clients, s_client_connected, s_baudrate, lines, rate, asked, usbVars, netVars, cdc_dev,
                 main, panicked>>

\* Nothing is done without a handle, and the result of the transfer is ignored.
ControlTransfers ==
  /\ call \in Controls /\ call' = "none"
  /\ IF cdc_dev # 0 /\ Usable
     THEN /\ lines' = [l \in Lines |-> IF l = "dtr" THEN s_dtr ELSE s_rts]
          /\ asked' = {c \in asked : Line(c) # Line(call)} \cup {call}
     ELSE UNCHANGED <<lines, asked>>
  /\ panicked' \in {FALSE, cdc_dev \notin {0, open}}
  /\ UNCHANGED <<session, clients, s_client_connected, s_dtr, s_rts, s_baudrate, rate, usbVars, netVars,
                 cdc_dev, main>>

\* on_baudrate: it remembers the rate, then has two transfers made.
OnBaudrate ==
  /\ call = "none" /\ Asks
  /\ \E baudrate \in Rates :
       /\ cdc_dev # 0 /\ baudrate # s_baudrate
       /\ s_baudrate' = baudrate /\ call' = baudrate
  /\ UNCHANGED <<clients, s_client_connected, s_dtr, s_rts, lines, rate, asked, usbVars, netVars,
                 cdc_dev, main, panicked>>
BaudrateTransfers ==
  /\ call \in Rates /\ call' = "none"
  /\ IF cdc_dev # 0 /\ Usable THEN rate' = call /\ UNCHANGED panicked
     ELSE panicked' = TRUE /\ UNCHANGED rate
  /\ UNCHANGED <<session, clients, s_client_connected, s_dtr, s_rts, s_baudrate, lines, asked, usbVars,
                 netVars, cdc_dev, main>>

\* on_data_received_from_rfc2217: what the device gets is not looked at.
OnData ==
  /\ call = "none" /\ Asks
  /\ cdc_dev \notin {0, open} /\ panicked' = TRUE
  /\ UNCHANGED <<clients, call, s_client_connected, lineVars, usbVars, netVars, cdc_dev, main>>
-----------------------------------------------------------------------------
Usb == UsbCloses \/ UsbGives \/ UsbData \/ UsbPush
Main == MainOpens \/ MainSetsRate \/ MainSetsLines \/ MainWaits
ToNetwork == NetTakes \/ NetSends
Transfers == ControlTransfers \/ BaudrateTransfers
Callback == OnConnected \/ OnDisconnected \/ OnControl \/ OnBaudrate \/ Transfers \/ OnData

\* A panic resets the board, which starts again from Init.
Next == ~panicked /\ (Plug \/ Unplug \/ Usb \/ Main \/ ToNetwork \/ ClientComes \/ Callback)

Spec == Init /\ [][Next]_vars

\* FreeRTOS runs every task that can run, and a transfer ends.  Nothing is assumed of
\* clients and devices.
FairSpec ==
  /\ Spec
  /\ WF_vars(~panicked /\ Usb) /\ WF_vars(~panicked /\ Main) /\ WF_vars(~panicked /\ ToNetwork)
  /\ WF_vars(~panicked /\ Transfers)
-----------------------------------------------------------------------------
TypeOK ==
  /\ session \in {"none", "raw", "rfc"} /\ clients \in 0..MaxSessions
  /\ call \in Rates \cup Controls \cup {"none"}
  /\ plugs \in 0..MaxPlugs /\ {device, open, cdc_dev} \subseteq 0..plugs
  /\ main \in {"open", "rate", "lines", "wait"} /\ usb \in {"idle", "gone", "push"}
  /\ bytes \in 0..MaxBytes /\ {ring, item} \subseteq Seq(1..bytes)
  /\ Len(ring) + Len(item) <= RingSize
  /\ got \in Seq([byte : 1..bytes, client : 1..clients])
  /\ s_baudrate \in Rates /\ rate \in Rates \cup {"unset"}
  /\ lines \in [Lines -> BOOLEAN] /\ asked \subseteq Controls
  /\ {sem, s_client_connected, s_dtr, s_rts, panicked} \subseteq BOOLEAN

\* The device's bytes reach the network in the order they came in, each once, over
\* disconnections of the device and of the clients: a client gets them in order,
\* and none that an earlier client got.
DeviceOrder ==
  \A i, j \in DOMAIN got : i < j => got[i].byte < got[j].byte /\ got[i].client <= got[j].client

\* What the relay knows of the device it has open and waits for, while no callback is
\* under way, however disconnections, reopening and requests fall together.  A rate
\* other than the 115200 it starts from is the device's: a request for it may be
\* answered without a transfer.  Of the controls it gave the device since line 228 the
\* last one about each line is in force, and from the first one on it knows both lines.
DeviceKnown ==
  Usable /\ open # 0 /\ main = "wait" /\ call = "none" =>
    /\ s_baudrate # "115200" => rate = s_baudrate
    /\ \A control \in asked : lines[Line(control)] = Level(control)
    /\ asked # {} => lines["dtr"] = s_dtr /\ lines["rts"] = s_rts

\* A device that stays plugged in is opened and stays open, whatever became of earlier
\* ones: no disconnection is missed and none is counted twice.
Reopened == <>[](device # 0) => <>[](panicked \/ (main = "wait" /\ open = device))
=============================================================================
