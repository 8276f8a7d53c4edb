# A verification project for rocom

rocom is the firmware of an ESP32-S3 board that gives a target machine a
network: it joins (or opens) a WiFi network, serves a web page, relays the
target's USB serial port over RFC 2217, pulses the target's reset and boot
lines, and updates itself over HTTP or TFTP. This directory holds TLA+ models
of its code, the TLC configurations that check them, and TLAPS proofs. Paths
below are relative to the repository.

## 1. Inventory

| component | state it keeps | operations | talks to |
|---|---|---|---|
| TFTP firmware server, `main/ota-tftp.c` | the netconn's peer, block number, retries, the OTA handle | wait for WRQ, receive DATA, time out, select the slot, restart | clients over UDP, OTA partitions |
| TFTP client, same file | as above | `ota_tftp_download` (nothing calls it) | a TFTP server, OTA partitions |
| HTTP update, `main/ota-http.c` | `total`, `remaining`, a handle per request | upload, progress, status, reboot | browser, OTA partitions |
| WiFi manager, `components/wilma/wilma.c` | candidate list and index, retry count, event bits, queue, timer | scan, connect, fail over, wait, open the AP, forget | WiFi driver events, timer, web handlers, an ISR |
| station store and scan list, same file and `components/wilma/utils.c` | the blob of stations in NVS, the visible access points, the candidates, the JSON mutex | add, remove, mark, filter a scan, list | NVS, WiFi driver, web handlers |
| access point settings, same file | name, password and switch in NVS | store, show, set up the driver, forget | NVS, WiFi driver, web handlers |
| WiFi web handlers, `main/wilma_cgi.c` | none | parse a request, call the manager | HTTP server, manager |
| RFC 2217 server, `main/rfc2217_server.c` | telnet mode, suboption buffer, option states, socket, threads | accept, parse, negotiate, send, stop | TCP client, relay callbacks |
| serial relay, `main/serial_port_relay.c` | device handle, ring buffer, line state | forward both ways, reopen the device | USB host library, RFC 2217 server |
| class driver, `main/class_driver.c` | device address, pending actions | enumeration | USB host library |
| kacha, `main/kacha.c` | two GPIOs | reset and boot pulses | web handlers |
| HTTP server, `main/http.c`; JSON buffer, `components/wilma/utils.c` | counters, a mutex | dispatch, serve files | all web handlers |
| start-up, mDNS, hash, words | none | sequential | - |

What is hard here: UDP loses, repeats and reorders; a peer is "connected" only
for packets that arrive after the connect; power may go between an erase and a
selection; four tasks change the WiFi manager's bits; a timer, a queue of three
and a driver that answers every call with a later event; a station store in
flash that two tasks read, change and write back and a third erases; a byte engine
whose input is cut anywhere by TCP; threads that outlive the descriptor they use.
`PROJECT.json` lists every such hazard at its line.

What makes each part correct:

- **Firmware update** (both ways in): some whole image is selected whenever
  power goes; a transfer's blocks reach flash once, in order, from one client;
  an acknowledgement means "written"; a good upload ends up running; a silent
  client does not keep the server.
- **WiFi manager**: a device with a saved station keeps trying; a device that
  waits can be reached; an event bit means what its comment says; no task is
  blocked for ever.
- **Station store**: a station is stored once; a change concerns one station, or
  forgets all; an answer shows one scan; the mutex is always released; the driver
  gets a name with the password it was added for.
- **Access point**: what was asked for is what is stored and what is set up.
- **RFC 2217 server**: bytes reach the serial port unchanged whatever the
  segmentation; negotiation answers once and ends; frames of two senders are not
  mixed; clients are served one after another.
- **Relay**: order is kept, the relay knows what the device was told, a device
  that comes back is opened again.

## 2. Modules

| module | role |
|---|---|
| `Flash` | the two OTA slots, image verification, the bootloader's choice (external) |
| `OtaPromise` | abstract specification of an update, whatever carries it |
| `TftpServer` | the server task, its clients, the network and lwIP's mailbox |
| `TftpServerProofs` | theorems about `TftpServer` |
| `OtaWriters` | the HTTP upload handler and the TFTP task writing the same slot |
| `OtaWritersProofs` | theorems about `OtaWriters` |
| `Wilma` | the WiFi manager |
| `WilmaProofs` | theorems about `Wilma` |
| `StationStore` | abstract specification of the store of stations |
| `WilmaStore` | stations, visible access points and candidates, on three tasks |
| `WilmaStoreProofs` | theorems about `WilmaStore` |
| `WilmaAp` | the settings of the device's own access point, on three tasks |
| `WilmaApProofs` | theorems about `WilmaAp` |
| `TelnetStream` | what a telnet stream means, read as a whole (RFC 854, RFC 855) |
| `Telnet` | the byte engine, option negotiation, port commands, what is sent |
| `TelnetProofs` | theorems about `Telnet` |
| `RfcSession` | abstract specification: the order of the server's callbacks |
| `RfcServer` | the server's threads, sockets, mutex and stop |
| `RfcServerProofs` | theorems about `RfcServer` |
| `Relay` | the serial relay on top of `RfcSession` |
| `RelayProofs` | theorems about `Relay` |
| `MCTftp`, `MCOta`, `MCWilma`, `MCStore`, `MCAp`, `MCTelnet`, `MCServer`, `MCRelay` | the instances for TLC |

What refines or uses what: `TftpServer` implements `OtaPromise`; every change of
the store in `WilmaStore` is one of `StationStore`, made to what its writer read;
`RfcServer` implements
`RfcSession` as long as it is not stopped, and `Relay` is built on `RfcSession`
instead of the server; `Telnet` is compared with `TelnetStream`'s `Parse`.

### TftpServer

One action per branch of `tftp_task` and `tftp_receive_data`:

| code | action |
|---|---|
| recv of anything but a WRQ, 192-209 | `DropStray` |
| wrong name or mode, 211-229 | `RejectWrq` |
| connect, ACK 0, 231-241 | `AcceptWrq` (with the failed send) |
| `ota_tftp_init`, 86-120, result ignored at 245 | `Begin` |
| timeout, 333-342 | `RecvTimeout` (repeat the last ACK, or give up) |
| recv error, 343-346 | `RecvFail` |
| not DATA, 348-353 | `RecvNotData` |
| duplicate, 356-361 | `RecvDuplicate` |
| out of order, 362-366 | `RecvOutOfOrder` |
| write all chunks, ACK, last block, 368-428 | `RecvBlock` (with the failed write and the failed ACK) |
| disconnect and select, 252-259 | `SetBoot` |
| `esp_restart`, 261 | `Restart` |
| power loss anywhere | `Crash` |

`pc` says which of the waiting points the task is at; `block`, `retries`,
`connected` and `handle` are the variables of the same name (`handle`: does
`update_handle` name an open OTA handle). A block of 512 bytes is one *unit*
`[from, n]`: whose block it is and its number in that file. The packet that is
shorter than 516 bytes is the one with `n = FileBlocks[from]`; a file whose size
is a multiple of 512 has an empty last unit. The network is the set of all
packets ever sent, so each may arrive never, once or often, in any order;
`mbox` is lwIP's bounded queue, whose filter by peer works on arrival only, and the
ghost `backlog` is what it held when the netconn was connected.
Block numbers wrap modulo `BlockMod`. Failures are switched by `Faults`:
`esp_ota_begin`, `esp_ota_write` (with nothing or a torn unit written), a failed
send of an ACK, a recv error, a failed `esp_ota_set_boot_partition`, a crash.

Abstractions: a write of one packet is one step (a crash inside it is the torn
unit); a packet too short for its opcode is not a packet of the model; leaked
netbufs are not counted.

### OtaWriters

The composition of the two ways in. The web server runs its handlers one at a
time on one task, so `http` is the place of one upload (or of
`cgi_flash_reboot`, which waits half a second); `tftp` is the session of
`tftp_task`, which `TftpServer` has packet by packet and which here only
writes, gives up or selects. Each has its own OTA handle, that is its own
offset (`off`).

| code | action |
|---|---|
| `cgi_flash_upload`, `main/ota-http.c`, 76-96 | `HttpBegin` (with its failure) |
| receive and write, 98-128 | `HttpWrite`, `HttpRecvFail` |
| `esp_ota_end`, 131-137 | `HttpEnd` |
| selection and answer, 139-152 | `HttpSelect` |
| `cgi_flash_reboot`, 155-163 | `HttpReboot`, then `Restart` |
| `ota_tftp_init`, `main/ota-tftp.c`, 86-120 | `TftpBegin` |
| a block written, 387-391; the session given up, 333-366 | `TftpWrite`, `TftpGivesUp` |
| selection, 252-262 | `TftpSelect`, then `Restart` |

In `Flash` a slot is the sequence of blocks one handle appended. That is not
enough for two handles, so here a slot is a function from cells to contents: an
erase clears the cells it covers, a write to a cell that is not erased leaves
`Torn`, and an image is whole when the slot *starts* with it. A receive that
times out (line 102) is a stutter.

### Wilma

A step is a stretch of one task's code between two points where it waits or
where another task is seen to matter: an event handler's branch, the timer
callback, a web handler up to its `send_message`, and three steps for the order
CONNECT_STA (`OrderConnectTo`, `ThreadConfig`, `ThreadConnect`). A task blocked
in `xQueueSend(..., portMAX_DELAY)` keeps the message in `outbox` and takes no
event meanwhile. `bits` is the event group without FAIL_BIT and
REQUEST_ORDER_CONNECT_STA_BIT, which nobody reads.

| code | action |
|---|---|
| CONNECTED 712-721 | `OnConnected` |
| DISCONNECTED 723-792, one branch each | `OnDisconnectedRetry`, `-OnPurpose`, `-Scanning`, `-Again`, `-Next`, `-Last` |
| SCAN_DONE 802-814 with `update_ssid_list` | `OnScanDone` |
| GOT_IP 822-842 | `OnGotIp` |
| `retry_timer_cb` 1056-1070 | `TimerFires` |
| `send_message` 198-204 | `Send` |
| the queue loop 1179-1241 | `OrderScan`, `OrderForget`, `OrderConnectAny`, `OrderConnectTo`, `ThreadConfig`, `ThreadConnect` |
| `wilma_add_ssid`, `wilma_remove_ssid`, `wilma_start_scan`, `wilma_set_ap_enabled`, `wilma_forget_config_from_isr` | `AddSsid`, `RemoveSsid`, `RequestScan`, `SetApEnabled`, `ForgetFromIsr` |

`INDEX < COUNT - 1` at line 773 compares unsigned: with COUNT 0 it holds, and
`MoreToTry` says so. The driver is external: an attempt may associate, get an
address or fail; `esp_wifi_disconnect` ends an attempt or a link with an event of
its own; `esp_wifi_connect` while one runs keeps it or starts over; the driver
keeps its last configuration in flash.

Abstractions: passwords (an attempt may fail for any reason); the scan records
(`Candidates`: any list of at most `MaxCandidates` saved stations, or the old
list if the scan found nothing or failed); a handler's branch is atomic although
a second core could run another task meanwhile.

### WilmaStore

The blob has three writers. The web server's task and the event task read all of it,
change their copy and write it back: that is two steps, and between them another
may write, or power may go. The manager's thread erases all of NVS
(FORGET_CONFIG). Nothing in the repository calls `wilma_forget_config_from_isr`, which
sends that order; `ThreadForgets` takes it at any time.

The visible access points are guarded by `WILMA_JSON_MUTEX`; the candidates are not.
All three tasks read them through `connect_to_station_index`, which has two steps here
(the name, then the password) and an index that all callers share;
`update_ssid_list` and `wilma_remove_ssid` write them. The ghost `met` is set when
two of these overlap so that one can disturb the other: a reader and a writer, two
writers, or two readers that move the index to different places. Names are numbers
in the order of `strcmp`; the records of a scan come from a constant.

| code | action |
|---|---|
| `cgi_connect_json_add`, `wilma_add_ssid` 325-397 | `WebAdds` (the read), then `AddFirst`, `AddAgain` or `AddNew` |
| `connect_to_station_index` 1026-1054 | `Indexes`, `Named` (the name), `Configures` (the password) |
| ... called at 346 | `WebConnects`, `WebConnectsWith` |
| ... called at 735 and 775 | `EventDisconnected`; `EventFails`, `EventMovesOn`; `EventConnectsWith` |
| ... called at 1208 | `ThreadConnectsAny`, `ThreadConnectsWith` |
| `wilma_remove_ssid` 422-470 | `WebRemoves`, `WebRemoveWrites`, `WebForgets`, `WebClears` |
| `wilma_foreach_visible_ap` 588-606 with `wilma_lock_json_buffer` | `WebShows`, `WebLocks`, `WebShowsNext` (one access point each) |
| an order to connect with a station, 1213-1230 | `ThreadConnects` |
| FORGET_CONFIG 1195-1201 | `ThreadForgets`, `ThreadClears` |
| `update_ssid_state` 296-323 | `EventSetsState`, `EventStateWrites` |
| `update_ssid_list` 608-693 | `EventScanDone`, `EventLocks`, `EventTakesScan`, `EventFills` (one record each) |
| `ap_filter_sort_unique` 487-543 | `FilterSortUnique` |
| power loss, a panic | `Reboot` |

`get_saved_stations` answers NULL for an empty store and for a failed `malloc` or
read alike; `Reads` gives `<<>>` for both, which is why `AddFirst` may replace a
store that was only unreadable. `nvs_erase_key` of a blob that is gone already ends in
a panic (`WebRemoveWrites`). Line 341 copies a password with the length of a
name, `Cut`. The lock is given up after a second: `WebLocks` and `EventLocks`
take it or go on without. `qsort` (538) may leave records that compare equal in any
order; `FilterSortUnique` chooses one order of the records that is sorted.

### WilmaAp

`wifi_configure_softap` decides, sets the mode, reads the name, reads the
password and configures the driver; the web server's task, the event task and
the manager's thread all run it, without a lock. `met` says that two of them
have been at it at once and none alone since; `asked` is what was asked for last
unless something else has changed NVS.

| code | action |
|---|---|
| `wilma_cgi_ap_configure`, `main/wilma_cgi.c`, 160-191 | `WebAsks`, `WebStoresName`, `WebErases`, `WebStoresPassword`, `WebStoresEnabled` |
| `wilma_cgi_ap_config_json`, `wilma_ap_ssid` | `WebShows`, `WebShown` (only when they change something) |
| FORGET_CONFIG 1195-1200 | `Forget` |
| `wifi_configure_softap` 1075-1132 | `Configure`, `Decide`, `TurnOff`, `TurnOn`, `FillSsid`, `EraseKey`, `FillPassword`, `SetConfig` |
| the bits it asks for | `BitsChange` |

NVS counts the zero at the end of a string. A name of 32 bytes, which the request
accepts, is taken for too long by line 947 and erased with its password; a
password of 64 bytes is replaced by the default (984); and the driver is told a
name that is one zero longer than the one asked for (964, `ap.zero`). The driver
is external: `esp_wifi_set_config` fails while the access point is off and for a
password of 1 to 7 bytes.

### Telnet

One action per thing that happens to a connection: `Connect` (with
`tcp_receive_thread_fn`'s reset), `Receive` (one `recv` and all of
`process_received_over_tcp`), `SendData` (`rfc2217_server_send_data`), `Close`.
The functions below them are operators of the code's names on one record `tn`,
the fields of `rfc2217_server_s`: `telnet_negotiate_option`,
`telnet_option_process_incoming`, `on_client_ok`, `process_subnegotiation`,
`rfc2217_send_subnegotiation`. `Parse` of `TelnetStream` is the reference: what the
bytes mean when they are read at once, with no state left from another
connection. It is written as recursive functions (`Read` for a stream, `Inside`
for a suboption), which can be proved about. The one thing it does not read is a
telnet command inside a suboption, where RFC 855 has every IAC doubled: it stops
there with the token `Odd`. The engine goes on, and takes the command as if it
stood outside; the properties suppose `Doubled`, that the client did not do this.

### RfcServer

The server thread, one receive thread per client, a task `Net` that sends device
data, and a caller of `rfc2217_server_stop`. lwIP gives the lowest free
descriptor, here always the same: `client_socket` may name the next client's
connection by the time it is used. A frame is what one call of `tcp_send` sends,
in pieces; `send` may take any part of it or fail.

| code | action |
|---|---|
| `server_thread_fn` 265-320 | `Listen`, `Accept`, `StartFails`, `AcceptError`, `ServerJoin`, `ServerJoined`, `CloseClient` |
| `tcp_receive_thread_fn` 344-366 | `Recv` (with its answer), `RecvEnds` |
| `rfc2217_server_send_data` 484-516 | `NetSends` |
| `tcp_send` 368-384 | `Lock`, `Write` |
| `rfc2217_server_stop` 242-258 | `StopBegins`, `StopJoined`, `StopJoinsServer`, `StopReturns` |

`Faults` are a socket that cannot be made, a failed accept and a failed
`pthread_create`, whose result nobody looks at (307).

### Relay

| code | action |
|---|---|
| `handle_event` 34-45 | `UsbCloses`, `UsbGives` |
| `on_data_received_from_usb` 130-143 | `UsbData` (is there a client), `UsbPush` |
| `serial_port_relay` 215-233 | `MainOpens`, `MainSetsRate`, `MainSetsLines`, `MainWaits` |
| `usb_to_network` 145-164 | `NetTakes`, `NetSends` |
| the server's callbacks 56-128 | `OnConnected`, `OnDisconnected`, `OnControl` and `ControlTransfers`, `OnBaudrate` and `BaudrateTransfers`, `OnData` |

A handle is the number of the device it was opened for, so a stale `cdc_dev` is a
number that is not `open`; using one fails or faults (`panicked`). `on_control`
and `on_baudrate` return the value asked for even with no device, and
`rfc2217_server_send_data` returns 0 for a failed send, so nobody hears of either.
What the relay believes (`s_dtr`, `s_rts`, `s_baudrate`) and what the device was told
(`lines`, `rate`) are apart, and the callbacks write the first one step before the
second: the main loop can come in between. `asked` is the history of the controls
that were given to the device since line 228.
At this commit `app_main` holds the call of `serial_port_relay` behind `if (0)`
(`main/rocom.c:142`): the module is about the code as it runs when called.

## 3. Runs

Every run finishes in about three and a half minutes at most with two workers.

### Firmware update

| run | instance | shows |
|---|---|---|
| `tftp_two` | a file of 4 blocks into a partition of 2 next to firmware of 1, mailbox 2, every failure but that of a sent ACK | `TypeOK`, `InOrder`, `NoAlias`, `AlwaysBootable`, `ForeignBlocksWereQueued`, `PromiseKept` |
| `tftp_mixed` | as `tftp_two` | violates `TransferIsOneFile` |
| `tftp_live` | one upload of 2 blocks, one refused client, mailbox 2, failing writes and ACKs, fairness | `AckAfterWrite`, `DoneBoots`, `SilentClientReleasesServer` |
| `ota_writers` | HTTP and TFTP, three files (firmware of 2 blocks and of 1, one of 3), every failure | `TypeOK`, `SafeFallback` |

Bounds: two clients are enough for one to be taken for the other, and a third
adds no new kind of packet. `tftp_two` has a file that fills the partition before
it ends and one that fits; in `tftp_live` the file has a first, a repeated and a
last block. One retransmission has both the repeated ACK and the giving up. The
state space is finite without a constraint: a client has at most `FileBlocks`
packets, the partition bounds the slot. `BlockMod` is the smallest number the
assumption allows, so that a wrap would show at once. `InOrder` says nothing about
whose blocks they are: blocks of two clients do get mixed. `TransferIsOneFile`, which
says they do not, is violated in `tftp_mixed`; `ForeignBlocksWereQueued` says how far it
goes, in `tftp_two`, where the mailbox is large enough to hold the WRQ of one client
and a block of the other. `AckAfterWrite` is false in the same way, and is for
`tftp_live`, where one client is served.
In `ota_writers` a partition of two cells and files that leave it half full,
full or overfull have every overlap of two writers: erased under an open handle,
written twice, selected and then erased.

Fairness: `FairSpec` has `WF_vars(Task)` only. FreeRTOS schedules the task, and
every `netconn_recv` inside a transfer returns within its 10 s timeout. Nothing
is assumed of the network or the clients: `DoneBoots` speaks of a client that
saw its last ACK, `SilentClientReleasesServer` of a network that became silent.

### WiFi

| run | instance | shows |
|---|---|---|
| `wilma_orders` | one station, candidate lists of 2, queue of 1, any 2 of add, remove, scan, forget, fairness | `TypeOK`, `ScanBitMeansScan`, `WaitingDeviceHasAp`, `EverySendCompletes` |
| `wilma_candidates` | two saved stations in range, lists of 2, the code's queue of 3, access-point requests, fairness | `OnlyFailoverStrands`, `KeepsConnecting` |
| `wilma_failover` | two saved stations, no request | violates `NeverStranded` |
| `store` | two names, lists of 2, passwords long and cut, three requests, two driver events, one failure, power loss | `TypeOK`, `NamesOnce`, `ShowsOneScan`, `MutexHeldInside`, `CandidatesKnown`, `ScanIsSorted`, `PromiseKept` |
| `ap` | a name of 32 bytes and a shorter one, passwords open, short, usual and of 64 bytes, three calls, one failed write, power loss | `SettlesAsAsked`, `PanicNeedsTwo` |

The passing runs keep to what holds. `NeverStranded` is false (`wilma_failover`);
`wilma_candidates` has the failover and says that it is the only way to be stranded. It
has no scan request, because a scan can strand the device too (below). `wilma_orders`
has a queue of one message, so that every sender gets to wait, and two requests, one
that is under way when the other comes. It has no access-point request, because one
that meets a removal switches the access point of a waiting device off.
`CHECK_DEADLOCK FALSE`: requests are
bounded by `MaxOrders`, and a device without stations, or a stranded one, really
rests. The driver has at most `MaxEvents` unseen events of its own making;
`esp_wifi_disconnect` may add more.

Fairness: every task that can run runs (`WF`), a blocked sender is woken when
there is room (`SF`: other senders may take the slot first, FreeRTOS wakes the
longest waiting one), the driver ends every scan and attempt. `InRangeSpec` adds
that the saved network is there: scans see it again and again (`SF`), attempts
made again and again succeed again and again (`SF`). Without that nothing can
promise a connection.

`store` has two requests that write and one that lists, or any other three (to forget
everything is one), next to two driver events: two writers that overlap, a second
writer on an old copy, a blob erased under either, and a scan during a listing. Two
candidates make the list full and let readers ask for different ones; the scans have a
repeated network, a hidden one, one with two modes of authentication, one that is
longer than `MAX_SCAN_RESULTS` (3 here) and none at all. In `ap` three calls are
one for each task at once, or a request in between two calls; the requests are
every combination of name, password and switch.

### RFC 2217 and the relay

| run | instance | shows |
|---|---|---|
| `telnet` | a client says two of eleven things and may stop in the middle of a command, in segments cut anywhere; then another | `TypeOK`, `DataUnchanged`, `CommandsFaithful`, `ClientAnnounced`, `AnswersSettle`, `WireDecodes` |
| `server` | an RFC 2217 client and a plain one, frames of 2 pieces, every fault, a stop | `TypeOK`, `FramesWhole`, `SessionKept`, `NextIsServed` |
| `relay` | two devices, two clients who set the rate and RTS, three bytes through a ring of two | `TypeOK`, `DeviceOrder`, `DeviceKnown`, `Reopened` |

`RxSize` of 10 is shorter than most pairs of items, so segments end inside them
and hold more than one; `SubSize` of 6 is what SET_BAUDRATE needs, so the
over-long suboption is one byte longer; `DataSize` of 2 makes the data buffer
flush in the middle. `DataUnchanged` and `CommandsFaithful` except what the fast
path of line 389 does inside a suboption (`cut`), a suboption longer than its buffer
(`Fits`) and a command in a suboption (`Doubled`), though the client of the run
sends all three; `CommandsFaithful` also supposes suboptions of the lengths that
RFC 2217 gives them and no IAC SE by itself (`WellFormed`): the engine takes a
command's arguments from its buffer without asking how many arrived. The constraint
`Uncut` stops there, since what follows depends on each way of cutting. A third client, device
or frame would meet nothing but what the second one left behind.

`FairSpec` of `RfcServer`: the threads run; who waits for `tcp_send_mutex` gets it
in turn (`SF`, a FreeRTOS mutex wakes the longest waiting of the highest
priority). Clients may stay for ever, so `NextIsServed` is about the one before
having closed. `FairSpec` of `Relay`: the tasks run and transfers end. Nothing is
assumed of devices or clients: `Reopened` is about a device that stays.
`CHECK_DEADLOCK FALSE`: clients, devices and frames run out, and a dead server
thread really rests.

### What the code does otherwise

Two disagreements with the repository's own comments have a run each, described with
the quotation under `findings` in `PROJECT.json`:

- `wilma_failover`: the inverted test after choosing the next station
  (`components/wilma/wilma.c:775`) leaves the second station untried.
- `tftp_mixed`: a DATA packet of another client, queued before the connect, is written
  as part of the transfer (`main/ota-tftp.c:232`).

These the models show too. They are no properties here, because the code does not
have them; the properties above say what holds next to them.

- The ignored result of `ota_tftp_init` lets a transfer continue through an old
  handle (245).
- A failed selection is answered with success (`main/ota-http.c:139`: the result
  of `esp_ota_set_boot_partition` is not stored).
- A forgotten network is connected to again from the list in RAM
  (`components/wilma/wilma.c:735`).
- `OnlyFailoverStrands` fails with one station and `Requests = {"scan"}`: a connection
  ordered during a scan sets RETRY_CONNECTION, which nothing uses when the scan
  ends (1238); and with no saved station and `Requests = {"add"}`: the first
  station is looked up in a list that only a scan fills (346).
- `WaitingDeviceHasAp` fails with `Requests = {"remove", "ap"}`: GOT_IP is handled
  for a link that a removal has ended, CONNECTED stays set, and the next
  access-point request takes the device for connected (832).
- Two tasks that write back the blob at once lose one of the two changes (329), and
  a copy written after FORGET_CONFIG (1197) brings the forgotten stations back;
  an unreadable store is replaced by the one new station (331).
- Two tasks in `connect_to_station_index`, or one there while the candidates are
  cleared or filled, give the driver a name with another's password, or with none
  (1045, 1047): `CandidatesKnown` fails without its hypothesis `~met`. When
  `wilma_remove_ssid` meets `update_ssid_list` between 460 and 461, the candidates
  count one without a name.
- Two tasks in `wifi_configure_softap` at once may leave the access point with a
  new name and an old password, or off although it is enabled, or reset the board
  inside `ESP_ERROR_CHECK` (1095, 1128). A stored password of 1 to 7 bytes does
  that at every start. `wilma_ap_ssid`, declared to return "true if a password is
  required" (`wilma.h:35`), measures an empty buffer when a password is stored
  (1020) and returns false.
- Inside a suboption a segment without an IAC byte goes to the serial port
  (`main/rfc2217_server.c:389`); a command may overtake data of the same segment
  that is still buffered (453); options in state REQUESTED are never requested.
- One failed accept ends the server (301); after a failed `pthread_create` the
  thread before is joined again and the client dropped (307); `rfc2217_server_stop`
  waits for threads that read no shutdown flag (251, 255).
- A new device is presumed to run at 115200 (`main/serial_port_relay.c:226`)
  without being told: a client that sets 9600 just before leaves the device at 9600, and
  a later request for 115200 is answered without a transfer (91-94). Line 228 turns DTR
  on and not `s_dtr`, so the next control of RTS turns it off (80).
- What is left in the ring goes to the next client (145); a ring that is full calls
  `abort` (140).

## 4. Proofs

What each module's theorems say of every value of its constants; where a theorem
has a hypothesis, the third column says it. The assumptions are those the modules
declare and TLC evaluates.

| module | theorems | hypothesis |
|---|---|---|
| `TftpServerProofs` | `TypeCorrect`, `Invariance`, `BlocksInOrder`, `BlockNumbersDoNotWrap`, `PowerLossIsSafe`, `Refinement` | |
| | `ForeignBlocksAreQueuedOnes` | |
| | `WriteComesBeforeAck` | one upload is acceptable |
| `OtaWritersProofs` | `TypeCorrect`, `FallbackIsSafe` | |
| `WilmaProofs` | `TypeCorrect`, `ScanBitStandsForScan` | |
| | `WaitingHasAp` | no access-point request |
| | `OnlyFailoverLeavesBehind` | access-point requests only |
| `WilmaStoreProofs` | `TypeCorrect`, `NamesStayDistinct`, `MutexIsReleased`, `ScansAreSorted`, `AnswersShowOneScan`, `CandidatesAreKnown`, `Refinement` | |
| `WilmaApProofs` | `SettlesWhenAlone`, `AloneNeverPanics` | |
| `TelnetProofs` | `EngineTypeCorrect`, `DataAlwaysUnchanged`, `CommandsAlwaysFaithful`, `ClientAlwaysAnnounced`, `AnswersAlwaysSettle`, `WireAlwaysDecodes` | |
| `RfcServerProofs` | `TypeCorrect`, `FramesStayWhole`, `SessionIsKept` | |
| `RelayProofs` | `TypeCorrect`, `BytesInOrder`, `RelayKnowsDevice` | |

Every module has an inductive invariant, one lemma or step per action, and splits
`Next` once. Each strengthening that TLC can evaluate was checked with it before it
was proved; those of `Telnet` speak of every continuation of a stream and cannot be.

The library's induction theorems take an operator as a parameter, which none of the
provers can instantiate. Where a proof goes over the records of a scan, the entries of
a table or the bytes of a stream, it uses `Upwards` instead, induction for a *set* of
numbers, proved from the library's `WFMin`.

### TftpServer

For every set of uploads, partition size, mailbox size, retransmission count and
set of faults, from `FlashAssumption` (the factory image is firmware and fits),
`TftpAssumption` and `BlockModAssumption` (`PartBlocks + 1 < BlockMod`: a 1700 KiB
partition has 3400 blocks, the modulus is 65536).

`IInv == TypeOK /\ InOrder /\ Bounded /\ Bootable`. `InOrder` alone is not
inductive: that a packet taken for block k *is* block k needs block numbers
below the modulus, which is `Bounded`; that in turn needs `InOrder`'s first
conjunct, because the only thing that stops `block` is a full slot: a transfer
that waits for block k has written k - 1 units, so once the partition is full the
write of block `PartBlocks + 1` fails and the session ends. `Bootable` adds to
`AlwaysBootable` that the *running* slot holds an image too and that the two
selections differ only between `SetBoot` and `Restart`: without it the update
slot could be the configured one, and erasing it would break the promise.
The refinement maps `next` to the block number while a transfer is open; `Begin`
is the abstract open, a failed or complete block closes or continues it, `SetBoot`
commits, `Restart` and `Crash` reboot, and every network or client step stutters.

`TransferIsOneFile` is false (section 3). What is left of it is
`ForeignBlocksWereQueued`, for any number of clients that the server accepts: a block
of another client in the open transfer was waiting in the mailbox when the netconn
was connected. Its strengthening `QueuedWereQueued` says the same of what the mailbox
holds during a transfer: a DATA packet of another sender than the peer is of the backlog,
because `netconn_connect`'s filter admits no later one.

`AckAfterWrite` is false for two clients that the server accepts, so its theorem has
the hypothesis `Uploads \ BadRequest \subseteq {c}`: any number of clients, of which
the server accepts `c` only. `OnlyClient` is the induction: DATA comes only from who was
acknowledged, and ACKs go only to the client connected to. An ACK that is new in
the network is that of the block just written because the ACKs that a timeout or a
duplicate repeats have been sent before, which is `Confirmed`.

### OtaWriters

For every set of files, partition size and set of faults, with one or both writers,
from `FlashAssumption` and `OtaAssumption`. The invariant is `TypeOK` and
`Bootable(cells[running])`. `AlwaysBootable` of `TftpServer` would be false here:
once one writer has selected the update slot the other may erase it. What is left
is that nobody touches the *running* slot. Every erase and write goes to
`Update`, `UpdateNotRunning` says what that means, and five lemmas carry it from
one cell to a whole erase; a reset moves `running` to `Boots`, which is either a
selection that verifies or, by the invariant, the running slot itself
(`BootsHasImage`).

### Wilma

For any stations, queue length, number of retries and bounds. `ScanBitMeansScan`
is inductive with `TypeOK`: the bit is set with the start of a scan, or is set
already, and the one step that takes the event a scan ends with clears it. What
`WaitingDeviceHasAp` rests on is stronger than it says: `timer => apOn`
(`WaitsWithAp`), also while the other tasks are busy, because each step that
starts the timer turns the access point on, and the only one that turns it off by
itself, the got-IP event's, stops the timer. An access-point request turns it off
under a running timer, and the property is then false (section 3), so
`WaitingHasAp` supposes `"ap" \notin Requests`.

`NeverStranded` is false: line 775 strands a device with two candidates, a scan or an
added station can do it with one. `OnlyFailoverStrands` leaves out the first of these and
no more: a device at rest without a link or the timer has the candidate configured that
line 775 selected, and nobody has tried it (`Untried`). Its theorem has any number of
candidates and supposes `Requests \subseteq {"ap"}`. The invariant `Alone` says why the
device goes on otherwise. `SomebodyConnects`: a device without a link has a timer, an
event, a scan, a message or a call under way, or is `Untried`. That needs each of those
to lead to the next one: an attempt that the bits still count has the event of its end on the way, or a scan
(`AttemptGoesOn`); a got-IP event of a link that is gone is followed by the event
that says so (`LossFollows`), or it would pass for a connection; there is one scan,
and the device connects after it (`OneScan`); the bits never count an attempt and
at once the wait for its end (`NotBoth`); and what is in the queue is a scan or an
order to connect (`OwnOrders`).

### WilmaStore

For every set of names and passwords, every scan and every bound, with failures
and power loss, from `WilmaStoreAssumption`. `NamesOnce` alone is not inductive:
the blob is overwritten by copies that may be out of date, so each copy a task may
yet write back must have distinct names as well (`WebHolds`, `EventHolds`),
together with what the task has found out about it (the name to be removed is in
it). Copies are taken from the store and changed at one place, so a lemma about
sequences per kind of change (`ReplacedIsGood`, `AppendedIsGood`, `SwappedIsGood`)
is all that the actions need. Distinct names are also what `Refinement` rests on:
without them a change of the first entry with a name would not be a change of the
station. It speaks of every write, those of a stale copy too: a writer changes one
station of what it *read*, or forgets all. For a copy that is still what the blob holds
that is a step of `StoreNext`; for another it says that nothing but the stations that
somebody else changed meanwhile is lost.

The lists in RAM have an invariant of their own, `ListsInv`, on top of that one.
`ShowsOneScan` needs that all of the visible access points below `found` are of one
scan whenever the event task is not filling them (`OneScanShown`), and that it fills
them under the mutex, which the answer holds from its first access point to its
last. `CandidatesKnown` needs that names and passwords travel together: in the
blob, in each copy, in the orders, and in the candidates below `count` (`OnlyGiven`,
`CandidatesStand`). As long as no two tasks met, a task between the name and the
password of a candidate still finds that candidate under the index (`Finds`), because
every step of another that would move it counts as a meeting (`Undisturbed`).

All of this rests on what `ap_filter_sort_unique` makes of *any* list of records
(`FilterPresents`): records of that list, no two with the same name and mode of
authentication, of each such pair the strongest signal, none without a name,
strongest first, and no more than came in. The first loop is a fold, so the lemma
is about its state after each step (`ClearsAll`): of each pair met so far the first
record has the greatest strength of all and the others are cleared, and the rest of
the list is as it was; `ClearsOne` is the step. The sort is a choice among the orders of the
remaining records, and `SomeOrderSorts` shows, by taking a worst record from a set
and going on with the rest, that a sorted one exists. `ScanIsSorted` is then the
filter's result carried along by the loop that fills `WILMA_VISIBLE_APS`.

### WilmaAp

For any names, passwords and bounds, with failing writes and power loss.
`SettlesAsAsked` speaks of the end of a call; `AloneKnows` is what a task that is
alone has read and stored at each step on the way there (`DriverIsAt`, `WishIsAt`),
so that every step's knowledge is the one before's and what the step did. It holds
only while no two tasks have met, and a request that has met another is not
`asked` any more (`MetForgets`). `PanicNeedsTwo` is part of the same induction: the
configuration that a task alone hands to the driver fails for no other reason than
a password of the lengths that the driver refuses.

### Telnet

For every stream, every way of cutting it into segments, every data of the device
and any size of the three buffers that `TelnetAssumption` allows. `Decodes(w, toks)`
says that a reader who reads `w` and then anything at all has read `toks` and then
that anything: a stream read so far has been read for good. `Gives` says the same of
the inside of a suboption. Both are preserved by putting streams end to end, which is
what makes the reader, defined from the first byte, a thing that can be followed from
the last one. That the two recursive functions exist and obey their equations is itself
proved first (`Recursion`, `InsideDef`, `ReadDef`): each call is for a shorter stream.

What the engine *sends* is the smaller half, `OK`: whatever is on the wire decodes to
what was meant, 255 doubled (`DecodesEscape`, `DecodesNeg`, `DecodesSub`),
and the answers about the COM port option alternate and end with the state the option
is in (`Settled`). The last needs more than `AnswersSettle` says: an option that is still
in state "requested" has not been answered, so the first answer has no other before it.

What the engine *understands* is `Follows`. Either the stream holds a command inside a
suboption (`HasOdd`), or there are tokens that the reader has read, a place where it
stands after them (in the text, after an IAC, after a verb, in a suboption, after an
IAC there: `Stands`) and the engine agrees with it (`Agree`):

- its mode is the reader's place (`Sync`);
- it has called `on_client_connected` just if one of the tokens negotiates the COM
  port option (`AnnouncedFor`): that needs the option states, since only a change of
  one calls it;
- and, unless the fast path has been at a suboption or one was too long, it collects
  just the suboption that the reader is in, byte for byte (`Tracks`), has heard the
  data read so far, counting what is still in the data buffer (`Got`), and every port
  command has made its call and its answers (`Served`). That the suboption buffer keeps
  bytes of earlier clients does no harm, because `Tracks` covers all that a command of
  the right length is read from.

There is one lemma per place and kind of byte (`TextByte`, `IacByte`, `VerbByte`,
`SubByte`, `SubiacByte`), from which `ByteFollows`; `FoldFollows` takes it over a
segment, `FlushFollows` empties the data buffer at its end, and the fast path of line
389, which looks at no byte, is shown to do the same for a segment without an IAC while
the reader is in the text (`FastText`); in a suboption it sets `cut`, and what is left
of `Agree` still holds (`FastSub`). The invariant is `IInv /\ Recorded`; the three
theorems read their property off it, where a stream that ends in the middle of
something has given the tokens read and no more (`ReadSoFar`).

### RfcServer

For any clients, frames and faults, from `RfcServerAssumption`, which has the names
of clients and threads distinct. `FramesWhole` is about what is on the wire; its
induction needs what is *not* yet: the rest of a sender's frame is the end of one
frame of its own (`OwnRest`), all of it unless the sender holds the mutex
(`WaitsWhole`), and only earlier pieces of it are on any connection
(`EarlierSent`). If the present connection has anything of the holder's frame, it
ends with the piece before the holder's next one (`GoesOn`); if the descriptor came to
name another client in the middle of the frame, it has nothing of it yet.
`SessionKept` rests on `OneThread`: until the stop, the only receive thread there is is
the one the server joins next, so no callback of an earlier client comes after a later
client's first.

### Relay

For any number of devices, clients and bytes and any ring. `DeviceOrder` is about
what has been sent; `Queued` extends its order over the item taken from the ring, the
ring itself and the byte that the driver's task is about to push, each before the
next. `DeviceKnown` speaks of the device that is open, with no callback under way and
the main loop waiting; `RateKnown` and `LinesKnown` say what that rests on from lines
226 and 228 on, also while a callback has remembered what it has not yet transferred.
Interleavings of the two are not excepted. What the relay can be believed for is what is left once line 226 and line 228 have written over what callbacks know:
a rate other than 115200, and, from the first control on that reached the device after
line 228, both lines. The run has one control, `set_rts`, with which both lines change;
the theorem has all four.

### What stays with TLC

Every other invariant and action property of the passing runs is stated by a theorem,
some under the hypothesis that the table gives. Left are:

- Liveness and fairness (`DoneBoots`, `SilentClientReleasesServer`, `KeepsConnecting`,
  `EverySendCompletes`, `NextIsServed`, `Reopened`): out of the prover's reach.
- `AckAfterWrite` and `WaitingDeviceHasAp` without their theorems' hypotheses are not
  open: they are false then.

## 5. Not modelled

- The TFTP client (`ota_tftp_download`, the same file as the server): nothing
  calls it. The class driver (`main/class_driver.c`): the enumeration loop of an
  ESP-IDF example; nothing starts it.
- kacha (`main/kacha.c`): two pulses on two pins, made with delays inside one
  handler of the single web server task.
- `main/http.c`: the table of URIs, file serving and counters. `main/mdns.c`, the
  hash, the map wrapper and the word table: pure functions and data, without a
  state that two steps could disagree on. The pages.
- WM_ORDER_SHUTDOWN: `wilma_stop` sends it and nothing calls `wilma_stop`.
- Formatting: the JSON of the answers, escaping of names, headers of requests.
- The ISR's message that is dropped when the manager's queue is full: the button
  has to be pressed again, and no state says that it was.

## 6. Plan

What could be added:

1. `OtaWriters`: that with one writer at a time it implements `OtaPromise`, which
   `TftpServer` does by itself.
2. `Wilma`: what other requests than access-point ones may be allowed in
   `OnlyFailoverLeavesBehind`.
