------------------------------- MODULE Wilma -------------------------------
(***************************************************************************)
(* The WiFi manager of components/wilma/wilma.c: which access point the     *)
(* device tries, when it scans, when it waits and when it opens its own     *)
(* access point.                                                            *)
(*                                                                          *)
(* Four tasks share its state: the manager's own thread, which takes orders *)
(* from a queue of three; the event loop, which runs wifi_event_handler;    *)
(* the timer service, which runs retry_timer_cb; and the web server, whose  *)
(* handlers add and remove stations.  A step below is a stretch of one      *)
(* task's code between two points where it waits or where another task is   *)
(* seen to matter: the order CONNECT_STA is three steps, and a task whose   *)
(* xQueueSend finds the queue full waits with the message in its outbox.    *)
(*                                                                          *)
(* The WiFi driver is external: link, target, cfg, scanning and the queue   *)
(* of events it posts.  Passwords are abstracted: an attempt may fail.      *)
(***************************************************************************)
EXTENDS Naturals, Sequences, FiniteSets

CONSTANTS
  Ssids,          \* network names
  None,           \* no name
  Saved0,         \* the stations in NVS when the device boots
  MaxCandidates,  \* WILMA_MAX_CANDIDATE_STATIONS
  Retries,        \* WILMA_RETRIES_BEFORE_CONTINUING
  QueueLen,       \* xQueueCreate(3, ...)
  MaxEvents,      \* bound: events the driver has posted and not yet seen
  MaxOrders,      \* bound: user requests in a behaviour
  Requests        \* which user requests this instance makes

RequestKinds == {"add", "remove", "scan", "ap", "forget"}

ASSUMPTION WilmaAssumption ==
  /\ None \notin Ssids
  /\ Saved0 \subseteq Ssids
  /\ MaxCandidates \in Nat \ {0}
  /\ Retries \in Nat
  /\ QueueLen \in Nat \ {0}
  /\ MaxEvents \in Nat \ {0}
  /\ MaxOrders \in Nat
  /\ Requests \subseteq RequestKinds

VARIABLES
  saved,      \* NVS: the state of each configured station
  apEnabled,  \* NVS: AP_ENABLED_KEY
  list,       \* WILMA_CONNECTION_LIST, WILMA_CONNECTION_LIST_COUNT
  index,      \* WILMA_CONNECTION_INDEX
  station,    \* WILMA_STATION_SSID
  retryNum,   \* WILMA_RETRY_NUM
  bits,       \* WILMA_EVENT_GROUP, the bits that are read
  timer,      \* WILMA_RETRY_TIMER is running
  queue,      \* WILMA_QUEUE
  outbox,     \* the message a task is about to send or blocked on
  thread,     \* where wilma_thread is, and for which station
  apOn,       \* the WiFi mode is APSTA
  link,       \* driver: the station interface
  target,     \* driver: the network it tries or is connected to
  cfg,        \* driver: esp_wifi_set_config(WIFI_IF_STA)
  scanning,   \* driver: a scan runs
  events,     \* driver: posted events, oldest first
  orders      \* how many user requests were made

nvs == <<saved, apEnabled>>
driver == <<link, target, cfg, scanning, events>>
choice == <<list, index, station>>
vars == <<nvs, choice, retryNum, bits, timer, queue, outbox, thread, apOn,
          driver, orders>>

Bits == {"disconnected", "connected", "connecting", "afterscan", "retry",
         "scan"}
Senders == {"event", "timer", "httpd"}

Scan == [code |-> "scan", ssid |-> None]
ScanThenConnect == [code |-> "scan_connect", ssid |-> None]
ConnectAny == [code |-> "connect", ssid |-> None]
ConnectTo(s) == [code |-> "connect", ssid |-> s]
Forget == [code |-> "forget", ssid |-> None]
NoMessage == [code |-> "none", ssid |-> None]

Event(type, s) == [type |-> type, ssid |-> s]

\* wilma_thread up to its loop: the AP is on, a scan is ordered.  The driver
\* keeps the last station configuration in flash.
Init ==
  /\ saved = [s \in Saved0 |-> "new"]
  /\ apEnabled \in BOOLEAN
  /\ list = <<>> /\ index = 0 /\ station = None
  /\ retryNum = 0
  /\ bits = {}
  /\ timer = FALSE
  /\ queue = <<ScanThenConnect>>
  /\ outbox = [t \in Senders |-> NoMessage]
  /\ thread = [at |-> "wait", ssid |-> None]
  /\ apOn = TRUE
  /\ link = "down" /\ target = None
  /\ cfg \in Saved0 \cup {None}
  /\ scanning = FALSE
  /\ events = <<>>
  /\ orders = 0
-----------------------------------------------------------------------------
(* The driver (external).                                                  *)

Post(e) == Len(events) < MaxEvents /\ events' = Append(events, e)

\* An attempt associates, then gets an address; one without a name fails.
Associate ==
  /\ link = "trying" /\ target # None
  /\ link' = "associated"
  /\ Post(Event("connected", target))
  /\ UNCHANGED <<nvs, choice, retryNum, bits, timer, queue, outbox, thread,
                 apOn, target, cfg, scanning, orders>>

GetIp ==
  /\ link = "associated"
  /\ link' = "up"
  /\ Post(Event("got_ip", target))
  /\ UNCHANGED <<nvs, choice, retryNum, bits, timer, queue, outbox, thread,
                 apOn, target, cfg, scanning, orders>>

\* An attempt fails, or an established link is lost.
LinkLost ==
  /\ link # "down"
  /\ link' = "down"
  /\ Post(Event("disconnected", target))
  /\ UNCHANGED <<nvs, choice, retryNum, bits, timer, queue, outbox, thread,
                 apOn, target, cfg, scanning, orders>>

ScanEnds ==
  /\ scanning
  /\ scanning' = FALSE
  /\ Post(Event("scan_done", None))
  /\ UNCHANGED <<nvs, choice, retryNum, bits, timer, queue, outbox, thread,
                 apOn, link, target, cfg, orders>>

\* esp_wifi_disconnect, called with the events of q pending: an attempt or a
\* connection ends with an event of its own.
WifiDisconnect(q) ==
  IF link = "down"
    THEN events' = q /\ UNCHANGED <<link, target>>
    ELSE /\ link' = "down"
         /\ events' = Append(q, Event("disconnected", target))
         /\ UNCHANGED target

\* esp_wifi_connect with configuration c: starts an attempt; while one runs
\* or stands the driver keeps it or starts over.
WifiConnect(q, c) ==
  /\ events' = q
  /\ \/ link' = "trying" /\ target' = c
     \/ link # "down" /\ UNCHANGED <<link, target>>
-----------------------------------------------------------------------------
(* Pieces the handlers share.                                              *)

\* Mutant: force_on does not override the configuration.
SoftApUnforced(force, enabled, b) ==
  apOn' = (enabled \/ b \cap {"connecting", "connected"} = {})

\* wifi_configure_softap(force_on) with event bits b.
SoftAp(force, enabled, b) ==
  apOn' = (force \/ enabled \/ b \cap {"connecting", "connected"} = {})

\* clear_sta_config: what it does to the event bits.
Cleared(b) ==
  (b \ {"connected", "connecting"})
    \cup (IF "connected" \in b THEN {"disconnected"} ELSE {})

\* connect_to_station_index(i) on a list that is not empty.
Choose(i) == IF i < Len(list) THEN i ELSE 0

SelectStation(i) ==
  /\ index' = Choose(i)
  /\ cfg' = list[Choose(i) + 1]

\* Mutant: the retry timer is not started.
TimerForgotten == UNCHANGED timer

StartTimer == timer' = TRUE

\* Mutant: the timer runs on after the device got its address.
TimerRunsOn == UNCHANGED timer

StopTimer == timer' = FALSE

\* update_ssid_state, when the station is in the store.
WithState(s, state) ==
  IF s \in DOMAIN saved THEN [saved EXCEPT ![s] = state] ELSE saved
-----------------------------------------------------------------------------
(* The event loop: wifi_event_handler.                                     *)

Takes(type) ==
  /\ outbox["event"] = NoMessage
  /\ events # <<>> /\ Head(events).type = type

Rest == Tail(events)

OnConnected ==
  /\ Takes("connected")
  /\ station' = Head(events).ssid
  /\ IF "retry" \in bits
       THEN bits' = bits \ {"retry"} /\ WifiConnect(Rest, cfg)
       ELSE events' = Rest /\ UNCHANGED <<bits, link, target>>
  /\ UNCHANGED <<nvs, list, index, retryNum, timer, queue, outbox, thread,
                 apOn, cfg, scanning, orders>>

\* The configuration changed during the attempt that just ended: try it.
OnDisconnectedRetry ==
  /\ Takes("disconnected")
  /\ "retry" \in bits
  /\ bits' = bits \ {"retry"}
  /\ WifiConnect(Rest, cfg)
  /\ UNCHANGED <<nvs, choice, retryNum, timer, queue, outbox, thread, apOn,
                 cfg, scanning, orders>>

\* clear_sta_config asked for this event: back to the head of the list.
OnDisconnectedOnPurpose ==
  /\ Takes("disconnected")
  /\ "retry" \notin bits /\ "disconnected" \in bits
  /\ \/ /\ list = <<>>
        /\ bits' = bits \ {"disconnected"}
        /\ SoftAp(TRUE, apEnabled, bits')
        /\ StartTimer
        /\ events' = Rest
        /\ UNCHANGED <<link, target, cfg, index>>
     \/ /\ list # <<>>
        /\ bits' = (bits \ {"disconnected"}) \cup {"connecting"}
        /\ SelectStation(0)
        /\ WifiConnect(Rest, cfg')
        /\ UNCHANGED <<apOn, timer>>
  /\ UNCHANGED <<nvs, list, station, retryNum, queue, outbox, thread,
                 scanning, orders>>

OnDisconnectedScanning ==
  /\ Takes("disconnected")
  /\ bits \cap {"retry", "disconnected"} = {} /\ "scan" \in bits
  /\ events' = Rest
  /\ UNCHANGED <<nvs, choice, retryNum, bits, timer, queue, outbox, thread,
                 apOn, link, target, cfg, scanning, orders>>

Unexpected ==
  /\ Takes("disconnected")
  /\ bits \cap {"retry", "disconnected", "scan"} = {}

\* Mutant: one retry too many.
RetriesLeftInclusive == retryNum <= Retries

RetriesLeft == retryNum < Retries

OnDisconnectedAgain ==
  /\ Unexpected
  /\ RetriesLeft
  /\ retryNum' = retryNum + 1
  /\ WifiConnect(Rest, cfg)
  /\ UNCHANGED <<nvs, choice, bits, timer, queue, outbox, thread, apOn, cfg,
                 scanning, orders>>

\* Retries are used up; a handshake timeout marks the station in NVS.
GiveUp ==
  /\ Unexpected
  /\ ~RetriesLeft
  /\ saved' \in {saved, WithState(Head(events).ssid, "auth_failure")}

\* INDEX < COUNT - 1 is an unsigned comparison: it holds when COUNT is 0.
MoreToTry == list = <<>> \/ index + 1 < Len(list)

\* The next station is selected; esp_wifi_connect is called only when that
\* failed, because the list is empty.
OnDisconnectedNext ==
  /\ GiveUp
  /\ MoreToTry
  /\ \/ /\ list = <<>>
        /\ SoftAp(TRUE, apEnabled, bits \ {"connecting"})
        /\ bits' = bits \cup {"connecting"}
        /\ WifiConnect(Rest, cfg)
        /\ retryNum' = 0
        /\ UNCHANGED <<index, cfg>>
     \/ /\ list # <<>>
        /\ SelectStation(index + 1)
        /\ bits' = bits \ {"connecting"}
        /\ events' = Rest
        /\ UNCHANGED <<apOn, link, target, retryNum>>
  /\ UNCHANGED <<apEnabled, list, station, timer, queue, outbox, thread,
                 scanning, orders>>

OnDisconnectedLast ==
  /\ GiveUp
  /\ ~MoreToTry
  /\ bits' = Cleared(bits)
  /\ WifiDisconnect(Rest)
  /\ cfg' = None
  /\ SoftAp(TRUE, apEnabled, bits')
  /\ StartTimer
  /\ UNCHANGED <<apEnabled, choice, retryNum, queue, outbox, thread,
                 scanning, orders>>

\* update_ssid_list: the candidates are the visible saved stations, strongest
\* first (a name is seen twice if two networks share it); a scan that finds
\* nothing or fails leaves the old list.
Candidates ==
  {list} \cup UNION {[1 .. n -> DOMAIN saved] : n \in 0 .. MaxCandidates}

\* Mutant: the bit is cleared only when no connection is to be restored.
ScanOverUnlessBusy(b) ==
  IF b \cap {"connected", "connecting"} # {} THEN b ELSE b \ {"scan"}

ScanOver(b) == b \ {"scan"}

OnScanDone ==
  /\ Takes("scan_done")
  /\ list' \in Candidates
  /\ \/ /\ bits \cap {"connected", "connecting"} # {}
        /\ bits' = ScanOver(bits)
        /\ WifiConnect(Rest, cfg)
        /\ UNCHANGED outbox
     \/ /\ bits \cap {"connected", "connecting"} = {}
        /\ bits' = ScanOver(bits) \ {"afterscan"}
        /\ outbox' = IF "afterscan" \in bits
                       THEN [outbox EXCEPT !["event"] = ConnectAny] ELSE outbox
        /\ events' = Rest
        /\ UNCHANGED <<link, target>>
  /\ UNCHANGED <<nvs, index, station, retryNum, timer, queue, thread, apOn,
                 cfg, scanning, orders>>

OnGotIp ==
  /\ Takes("got_ip")
  /\ retryNum' = 0
  /\ StopTimer
  /\ bits' = (bits \ {"connecting"}) \cup {"connected"}
  /\ saved' = WithState(station, "ok")
  /\ SoftAp(FALSE, apEnabled, bits')
  /\ events' = Rest
  /\ UNCHANGED <<apEnabled, choice, queue, outbox, thread, link, target, cfg,
                 scanning, orders>>
-----------------------------------------------------------------------------
(* The timer service: retry_timer_cb.                                      *)

\* Mutant: the timer scans, and nobody connects afterwards.
RetryOrderScansOnly == Scan

RetryOrder == ScanThenConnect

TimerFires ==
  /\ timer /\ outbox["timer"] = NoMessage
  /\ timer' = FALSE
  /\ outbox' = IF saved = <<>> THEN outbox
                 ELSE [outbox EXCEPT !["timer"] = RetryOrder]
  /\ UNCHANGED <<nvs, choice, retryNum, bits, queue, thread, apOn, driver,
                 orders>>

\* xQueueSend with portMAX_DELAY, from any of the tasks.
Send(t) ==
  /\ outbox[t] # NoMessage
  /\ Len(queue) < QueueLen
  /\ queue' = Append(queue, outbox[t])
  /\ outbox' = [outbox EXCEPT ![t] = NoMessage]
  /\ UNCHANGED <<nvs, choice, retryNum, bits, timer, thread, apOn, driver,
                 orders>>
-----------------------------------------------------------------------------
(* The manager's thread.                                                   *)

\* Mutant: the message is looked at and stays in the queue.
OrdersPeeked(code) ==
  /\ thread.at = "wait"
  /\ queue # <<>> /\ Head(queue).code = code
  /\ UNCHANGED queue

Orders(code) ==
  /\ thread.at = "wait"
  /\ queue # <<>> /\ Head(queue).code = code
  /\ queue' = Tail(queue)

\* WM_ORDER_START_WIFI_SCAN and ..._THEN_CONNECT: start_scan.
OrderScan ==
  /\ \/ Orders("scan") /\ bits' = bits \cup {"scan"}
     \/ Orders("scan_connect") /\ bits' = bits \cup {"scan", "afterscan"}
  /\ IF "scan" \in bits
       THEN UNCHANGED <<link, target, events, scanning>>
       ELSE WifiDisconnect(events) /\ scanning' = TRUE
  /\ UNCHANGED <<nvs, choice, retryNum, timer, outbox, thread, apOn, cfg,
                 orders>>

OrderForget ==
  /\ Orders("forget")
  /\ saved' = <<>>
  /\ apEnabled' = TRUE
  /\ bits' = Cleared(bits)
  /\ WifiDisconnect(events)
  /\ cfg' = None
  /\ SoftAp(TRUE, apEnabled', bits')
  /\ UNCHANGED <<choice, retryNum, timer, outbox, thread, scanning, orders>>

\* WM_ORDER_CONNECT_STA without a station: the head of the list.
OrderConnectAny ==
  /\ Orders("connect") /\ Head(queue).ssid = None
  /\ retryNum' = 0
  /\ \/ /\ list = <<>>
        /\ SoftAp(TRUE, apEnabled, bits)
        /\ StartTimer
        /\ UNCHANGED <<index, cfg, thread>>
     \/ /\ list # <<>>
        /\ SelectStation(0)
        /\ thread' = [at |-> "connect", ssid |-> None]
        /\ UNCHANGED <<apOn, timer>>
  /\ UNCHANGED <<nvs, list, station, bits, outbox, link, target, scanning,
                 events, orders>>

\* With a station: clear_sta_config, then its configuration, then connect.
OrderConnectTo ==
  /\ Orders("connect") /\ Head(queue).ssid # None
  /\ retryNum' = 0
  /\ bits' = Cleared(bits)
  /\ WifiDisconnect(events)
  /\ cfg' = None
  /\ thread' = [at |-> "config", ssid |-> Head(queue).ssid]
  /\ UNCHANGED <<nvs, choice, timer, outbox, apOn, scanning, orders>>

ThreadConfig ==
  /\ thread.at = "config"
  /\ cfg' = thread.ssid
  /\ thread' = [thread EXCEPT !.at = "connect"]
  /\ UNCHANGED <<nvs, choice, retryNum, bits, timer, queue, outbox, apOn,
                 link, target, scanning, events, orders>>

ThreadConnect ==
  /\ thread.at = "connect"
  /\ thread' = [at |-> "wait", ssid |-> None]
  /\ IF bits \cap {"scan", "connecting"} = {}
       THEN WifiConnect(events, cfg) /\ UNCHANGED bits
       ELSE /\ bits' = bits \cup {"retry"}
            /\ UNCHANGED <<link, target, events>>
  /\ UNCHANGED <<nvs, choice, retryNum, timer, queue, outbox, apOn, cfg,
                 scanning, orders>>
-----------------------------------------------------------------------------
(* The web server's handlers and the forget button.                        *)

Requested(kind) ==
  /\ kind \in Requests
  /\ outbox["httpd"] = NoMessage
  /\ orders < MaxOrders
  /\ orders' = orders + 1

\* wilma_add_ssid: the first station connects to the head of the list itself.
AddSsid(s) ==
  /\ Requested("add")
  /\ saved' = [n \in DOMAIN saved \cup {s} |->
                IF n = s THEN "new" ELSE saved[n]]
  /\ \/ /\ saved # <<>>
        /\ outbox' = [outbox EXCEPT !["httpd"] = ConnectTo(s)]
        /\ UNCHANGED <<bits, apOn, index, cfg, link, target, events>>
     \/ /\ saved = <<>> /\ list = <<>>
        /\ SoftAp(TRUE, apEnabled, bits)
        /\ UNCHANGED <<outbox, bits, index, cfg, link, target, events>>
     \/ /\ saved = <<>> /\ list # <<>>
        /\ SelectStation(0)
        /\ bits' = bits \cup {"connecting"}
        /\ WifiConnect(events, cfg')
        /\ UNCHANGED <<outbox, apOn>>
  /\ UNCHANGED <<apEnabled, list, station, retryNum, timer, queue, thread,
                 scanning>>

\* wilma_remove_ssid: forget the network; leave it if it is configured.
RemoveSsid(s) ==
  /\ Requested("remove")
  /\ s \in DOMAIN saved
  /\ saved' = [n \in DOMAIN saved \ {s} |-> saved[n]]
  /\ \/ /\ cfg = s
        /\ list' = <<>> /\ station' = None
        /\ bits' = Cleared(bits)
        /\ WifiDisconnect(events)
        /\ cfg' = None
     \/ /\ cfg # s
        /\ UNCHANGED <<list, station, bits, link, target, events, cfg>>
  /\ UNCHANGED <<apEnabled, index, retryNum, timer, queue, outbox, thread,
                 apOn, scanning>>

\* wilma_start_scan
RequestScan ==
  /\ Requested("scan")
  /\ outbox' = [outbox EXCEPT !["httpd"] = Scan]
  /\ UNCHANGED <<nvs, choice, retryNum, bits, timer, queue, thread, apOn,
                 driver>>

\* wilma_set_ap_enabled
SetApEnabled(enabled) ==
  /\ Requested("ap")
  /\ apEnabled' = enabled
  /\ SoftAp(FALSE, enabled, bits)
  /\ UNCHANGED <<saved, choice, retryNum, bits, timer, queue, outbox, thread,
                 driver>>

\* wilma_forget_config_from_isr: dropped when the queue is full.
ForgetFromIsr ==
  /\ Requested("forget")
  /\ queue' = IF Len(queue) < QueueLen THEN Append(queue, Forget) ELSE queue
  /\ UNCHANGED <<nvs, choice, retryNum, bits, timer, outbox, thread, apOn,
                 driver>>
-----------------------------------------------------------------------------
Driver == Associate \/ GetIp \/ LinkLost \/ ScanEnds

EventLoop ==
  \/ OnConnected \/ OnDisconnectedRetry \/ OnDisconnectedOnPurpose
  \/ OnDisconnectedScanning \/ OnDisconnectedAgain \/ OnDisconnectedNext
  \/ OnDisconnectedLast \/ OnScanDone \/ OnGotIp

Thread ==
  \/ OrderScan \/ OrderForget \/ OrderConnectAny \/ OrderConnectTo
  \/ ThreadConfig \/ ThreadConnect

Users ==
  \/ \E s \in Ssids : AddSsid(s) \/ RemoveSsid(s)
  \/ RequestScan \/ ForgetFromIsr
  \/ \E enabled \in BOOLEAN : SetApEnabled(enabled)

Next ==
  \/ Driver \/ EventLoop \/ Thread \/ TimerFires \/ Users
  \/ \E t \in Senders : Send(t)

Spec == Init /\ [][Next]_vars

\* FreeRTOS runs every task that can run, and the driver ends every scan and
\* every attempt.
Fairness ==
  /\ WF_vars(EventLoop) /\ WF_vars(Thread) /\ WF_vars(TimerFires)
  /\ \A t \in Senders : SF_vars(Send(t))
  /\ WF_vars(ScanEnds) /\ WF_vars(Associate \/ GetIp \/ LinkLost)

FairSpec == Spec /\ Fairness

\* The saved network is there: scans see it again and again, and attempts
\* that are made again and again succeed again and again.
InRange ==
  /\ SF_vars(OnScanDone /\ list' # <<>>)
  /\ SF_vars(Associate) /\ SF_vars(GetIp)

InRangeSpec == FairSpec /\ InRange
-----------------------------------------------------------------------------
(* Properties.                                                             *)

Messages == [code : {"scan", "scan_connect", "connect", "forget", "none"},
             ssid : Ssids \cup {None}]

\* The type invariant.
TypeOK ==
  /\ DOMAIN saved \subseteq Ssids
  /\ saved \in [DOMAIN saved -> {"new", "ok", "auth_failure"}]
  /\ apEnabled \in BOOLEAN
  /\ list \in Seq(Ssids) /\ Len(list) <= MaxCandidates
  /\ index \in 0 .. MaxCandidates - 1
  /\ station \in Ssids \cup {None}
  /\ retryNum \in 0 .. Retries
  /\ bits \subseteq Bits
  /\ timer \in BOOLEAN
  /\ queue \in Seq(Messages) /\ Len(queue) <= QueueLen
  /\ outbox \in [Senders -> Messages]
  /\ thread \in [at : {"wait", "config", "connect"}, ssid : Ssids \cup {None}]
  /\ apOn \in BOOLEAN
  /\ link \in {"down", "trying", "associated", "up"}
  /\ target \in Ssids \cup {None}
  /\ cfg \in Ssids \cup {None}
  /\ scanning \in BOOLEAN
  /\ events \in Seq([type : {"connected", "disconnected", "got_ip",
                             "scan_done"}, ssid : Ssids \cup {None}])
  /\ orders \in 0 .. MaxOrders

\* No event, message or step is pending anywhere.
Quiet ==
  /\ events = <<>> /\ queue = <<>> /\ ~scanning
  /\ \A t \in Senders : outbox[t] = NoMessage
  /\ thread.at = "wait"

Pending(type) == \E i \in 1 .. Len(events) : events[i].type = type

\* The SCAN bit stands for a scan: while it is set one runs or its result is
\* on the way.  Otherwise start_scan would refuse every later scan.
ScanBitMeansScan == "scan" \in bits => scanning \/ Pending("scan_done")

\* A device that waits for its retry timer can be reached over its own
\* access point ("Start the AP in case we're in a new place with no known
\* APs"), whatever is stored and whatever the other tasks did since.
WaitingDeviceHasAp == Quiet /\ link = "down" /\ timer => apOn

\* A device with a saved station never comes to rest without a connection,
\* an attempt or the timer.
NeverStranded ==
  Quiet /\ link = "down" /\ saved # <<>> => timer

\* The station that a failover selected (line 775) and nobody has tried yet.
Untried ==
  index \in 1 .. Len(list) - 1 /\ cfg = list[index + 1] /\ "connecting" \notin bits

\* The code does not keep NeverStranded when it moves on to another candidate
\* ("moving on to the next one", line 43).  That is the only way: whoever else
\* waits, fails, scans or is postponed, somebody connects.
OnlyFailoverStrands ==
  Quiet /\ link = "down" /\ saved # <<>> => timer \/ Untried

\* A device whose saved networks are in range gets connected, again and again, or
\* a failover leaves it behind in the end.
KeepsConnecting == []<>(link = "up") \/ <>[]Untried

\* No task waits for the queue forever: the manager's thread never waits for
\* a task that waits for it.
EverySendCompletes ==
  \A t \in Senders : outbox[t] # NoMessage ~> outbox[t] = NoMessage
=============================================================================
