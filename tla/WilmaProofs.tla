---------------------------- MODULE WilmaProofs ----------------------------
(***************************************************************************)
(* Theorems about Wilma.  The scan bit is set and cleared together with the *)
(* driver's scan and its event.  A waiting device has its access point on   *)
(* because what starts the timer sets up the access point in the same step. *)
(* That only a failover leaves a device with a saved station behind takes   *)
(* more: what each task has sent, that there is one scan at a time, and     *)
(* that each bit the event task waits on has an event or a scan on the way  *)
(* that ends it.                                                            *)
(***************************************************************************)
EXTENDS Wilma, SequenceTheorems, TLAPS

USE WilmaAssumption

Events == [type : {"connected", "disconnected", "got_ip", "scan_done"}, ssid : Ssids \cup {None}]

\* The parts of TypeOK.
StoreOK ==
  /\ DOMAIN saved \subseteq Ssids /\ saved \in [DOMAIN saved -> {"new", "ok", "auth_failure"}]
  /\ apEnabled \in BOOLEAN
ChoiceOK ==
  /\ list \in Seq(Ssids) /\ Len(list) <= MaxCandidates /\ index \in 0 .. MaxCandidates - 1
  /\ station \in Ssids \cup {None} /\ cfg \in Ssids \cup {None}
CountsOK == retryNum \in 0 .. Retries /\ orders \in 0 .. MaxOrders
SwitchesOK == bits \subseteq Bits /\ timer \in BOOLEAN /\ apOn \in BOOLEAN /\ scanning \in BOOLEAN
MessagesOK ==
  /\ queue \in Seq(Messages) /\ Len(queue) <= QueueLen /\ outbox \in [Senders -> Messages]
  /\ thread \in [at : {"wait", "config", "connect"}, ssid : Ssids \cup {None}]
LinkOK ==
  /\ link \in {"down", "trying", "associated", "up"} /\ target \in Ssids \cup {None}
  /\ events \in Seq(Events)
-----------------------------------------------------------------------------
(* Types.                                                                  *)

LEMMA TypeParts == TypeOK <=> StoreOK /\ ChoiceOK /\ CountsOK /\ SwitchesOK /\ MessagesOK /\ LinkOK
  BY DEF TypeOK, StoreOK, ChoiceOK, CountsOK, SwitchesOK, MessagesOK, LinkOK, Events

LEMMA TakingOne ==
  ASSUME NEW S, NEW s \in Seq(S), s # <<>>
  PROVE  /\ Head(s) \in S /\ Tail(s) \in Seq(S) /\ Len(s) \in Nat \ {0} /\ Len(Tail(s)) = Len(s) - 1
         /\ Head(s) = s[1] /\ \A i \in 1 .. Len(s) - 1 : Tail(s)[i] = s[i + 1]
  OBVIOUS

LEMMA AddingOne ==
  ASSUME NEW S, NEW s \in Seq(S), NEW e \in S
  PROVE  /\ Append(s, e) \in Seq(S) /\ Len(s) \in Nat /\ Len(Append(s, e)) = Len(s) + 1
         /\ Append(s, e)[Len(s) + 1] = e /\ \A i \in 1 .. Len(s) : Append(s, e)[i] = s[i]
  OBVIOUS

LEMMA RestIsEvents ==
  ASSUME LinkOK, events # <<>>
  PROVE  /\ Rest \in Seq(Events) /\ Head(events) \in Events /\ Head(events).ssid \in Ssids \cup {None}
         /\ Len(events) \in Nat \ {0} /\ Len(Rest) = Len(events) - 1 /\ Head(events) = events[1]
         /\ \A i \in 1 .. Len(events) - 1 : Rest[i] = events[i + 1]
<1>1. events \in Seq(Events)
  BY DEF LinkOK
<1>2. Head(events) \in Events
  BY <1>1, TakingOne
<1>3. Head(events).ssid \in Ssids \cup {None}
  BY <1>2 DEF Events
<1> QED
  BY <1>1, <1>2, <1>3, TakingOne DEF Rest

LEMMA EventIs ==
  /\ \A s \in Ssids \cup {None} : Event("disconnected", s) \in Events /\ Event("connected", s) \in Events
                                  /\ Event("got_ip", s) \in Events /\ Event("scan_done", s) \in Events
  /\ \A type, s : Event(type, s).type = type
  BY DEF Event, Events

LEMMA LinkOfConnect ==
  ASSUME LinkOK, NEW q \in Seq(Events), NEW c \in Ssids \cup {None}, WifiConnect(q, c)
  PROVE  LinkOK' /\ events' = q
  BY DEF LinkOK, WifiConnect

LEMMA LinkOfDisconnect ==
  ASSUME LinkOK, NEW q \in Seq(Events), WifiDisconnect(q)
  PROVE  LinkOK' /\ link' = "down"
         /\ events' = IF link = "down" THEN q ELSE Append(q, Event("disconnected", target))
<1>1. target \in Ssids \cup {None} /\ Event("disconnected", target) \in Events
  BY EventIs DEF LinkOK
<1>2. Append(q, Event("disconnected", target)) \in Seq(Events)
  BY <1>1, AddingOne
<1> QED
  BY <1>1, <1>2 DEF WifiDisconnect, LinkOK

LEMMA LinkOfPost ==
  ASSUME LinkOK, NEW e \in Events, Post(e), link' \in {"down", "trying", "associated", "up"}, target' = target
  PROVE  LinkOK'
<1>1. Append(events, e) \in Seq(Events)
  BY AddingOne DEF LinkOK
<1> QED
  BY <1>1 DEF LinkOK, Post

LEMMA Selects ==
  ASSUME ChoiceOK, list # <<>>, NEW i \in Nat, SelectStation(i)
  PROVE  index' \in 0 .. MaxCandidates - 1 /\ cfg' \in Ssids
<1>1. Len(list) \in Nat \ {0} /\ Len(list) <= MaxCandidates /\ \A k \in 1 .. Len(list) : list[k] \in Ssids
  BY DEF ChoiceOK
<1>2. Choose(i) \in 0 .. Len(list) - 1
  BY <1>1 DEF Choose
<1>3. Choose(i) \in 0 .. MaxCandidates - 1 /\ Choose(i) + 1 \in 1 .. Len(list)
  BY <1>1, <1>2
<1> QED
  BY <1>1, <1>3 DEF SelectStation

LEMMA CandidatesAreSaved ==
  ASSUME StoreOK, ChoiceOK, list' \in Candidates
  PROVE  list' \in Seq(Ssids) /\ Len(list') <= MaxCandidates
<1>1. CASE list' = list
  BY <1>1 DEF ChoiceOK
<1>2. ASSUME NEW n \in 0 .. MaxCandidates, list' \in [1 .. n -> DOMAIN saved]
      PROVE  list' \in Seq(Ssids) /\ Len(list') <= MaxCandidates
  <2>1. n \in Nat /\ list' \in [1 .. n -> Ssids]
    BY <1>2 DEF StoreOK
  <2> QED
    BY <2>1
<1>3. list' = list \/ \E n \in 0 .. MaxCandidates : list' \in [1 .. n -> DOMAIN saved]
  BY Zenon DEF Candidates
<1> QED
  BY <1>1, <1>2, <1>3
-----------------------------------------------------------------------------
(* What a step may change.                                                 *)

LEMMA StoreSteps ==
  Next => \/ UNCHANGED nvs \/ OnGotIp \/ OrderForget \/ OnDisconnectedNext \/ OnDisconnectedLast
          \/ \E s \in Ssids : AddSsid(s) \/ RemoveSsid(s)
          \/ \E enabled \in BOOLEAN : SetApEnabled(enabled)
  BY DEF Next, Driver, EventLoop, Thread, Users, Associate, GetIp, LinkLost, ScanEnds, OnConnected, OnDisconnectedRetry,
         OnDisconnectedOnPurpose, OnDisconnectedScanning, OnDisconnectedAgain, OnScanDone, TimerFires, Send, OrderScan,
         OrderConnectAny, OrderConnectTo, ThreadConfig, ThreadConnect, RequestScan, ForgetFromIsr

LEMMA StoreStep ==
  ASSUME TypeOK, Next
  PROVE  StoreOK'
<1> USE DEF StoreOK
<1>1. StoreOK
  BY TypeParts
<1>2. ASSUME NEW s, NEW state \in {"new", "ok", "auth_failure"}, saved' = WithState(s, state), apEnabled' = apEnabled
      PROVE  StoreOK'
  BY <1>1, <1>2 DEF WithState
<1>3. CASE OnDisconnectedNext \/ OnDisconnectedLast
  <2>1. saved' \in {saved, WithState(Head(events).ssid, "auth_failure")} /\ apEnabled' = apEnabled
    BY <1>3 DEF OnDisconnectedNext, OnDisconnectedLast, GiveUp
  <2> QED
    BY <1>1, <1>2, <2>1
<1>4. CASE OnGotIp
  BY <1>2, <1>4 DEF OnGotIp
<1>5. CASE OrderForget
  BY <1>5 DEF OrderForget
<1>6. ASSUME NEW s \in Ssids, AddSsid(s) PROVE StoreOK'
  BY <1>1, <1>6 DEF AddSsid
<1>7. ASSUME NEW s \in Ssids, RemoveSsid(s) PROVE StoreOK'
  BY <1>1, <1>7 DEF RemoveSsid
<1>8. ASSUME NEW enabled \in BOOLEAN, SetApEnabled(enabled) PROVE StoreOK'
  BY <1>1, <1>8 DEF SetApEnabled
<1>9. CASE UNCHANGED nvs
  BY <1>1, <1>9 DEF nvs
<1> QED
  BY <1>3, <1>4, <1>5, <1>6, <1>7, <1>8, <1>9, StoreSteps

LEMMA ChoiceSteps ==
  Next => \/ UNCHANGED <<list, index, station, cfg>> \/ OnConnected \/ OnDisconnectedOnPurpose \/ OnDisconnectedNext
          \/ OnDisconnectedLast \/ OnScanDone \/ OrderForget \/ OrderConnectAny \/ OrderConnectTo \/ ThreadConfig
          \/ \E s \in Ssids : AddSsid(s) \/ RemoveSsid(s)
  BY DEF Next, Driver, EventLoop, Thread, Users, Associate, GetIp, LinkLost, ScanEnds, OnDisconnectedRetry,
         OnDisconnectedScanning, OnDisconnectedAgain, OnGotIp, TimerFires, Send, OrderScan, ThreadConnect, RequestScan,
         ForgetFromIsr, SetApEnabled, choice, driver

LEMMA ChoiceStep ==
  ASSUME TypeOK, Next
  PROVE  ChoiceOK'
<1> USE DEF ChoiceOK
<1>1. ChoiceOK /\ StoreOK /\ LinkOK /\ MessagesOK
  BY TypeParts
<1>2. ASSUME UNCHANGED <<list, index, station>>, cfg' \in Ssids \cup {None} PROVE ChoiceOK'
  BY <1>1, <1>2
<1>3. ASSUME UNCHANGED <<list, station>>, list # <<>>, NEW i \in Nat, SelectStation(i) PROVE ChoiceOK'
  BY <1>1, <1>3, Selects
<1>4. CASE OnConnected
  <2>1. Head(events).ssid \in Ssids \cup {None}
    BY <1>1, <1>4, RestIsEvents DEF OnConnected, Takes
  <2> QED
    BY <1>1, <1>4, <2>1 DEF OnConnected
<1>5. CASE OnDisconnectedOnPurpose
  <2>1. UNCHANGED <<list, station>>
    BY <1>5 DEF OnDisconnectedOnPurpose
  <2>2. (list # <<>> /\ SelectStation(0)) \/ UNCHANGED <<index, cfg>>
    BY <1>5 DEF OnDisconnectedOnPurpose
  <2> QED
    BY <1>1, <1>2, <1>3, <2>1, <2>2
<1>6. CASE OnDisconnectedNext
  <2>1. UNCHANGED <<list, station>> /\ index + 1 \in Nat
    BY <1>1, <1>6 DEF OnDisconnectedNext
  <2>2. (list # <<>> /\ SelectStation(index + 1)) \/ UNCHANGED <<index, cfg>>
    BY <1>6 DEF OnDisconnectedNext
  <2> QED
    BY <1>1, <1>2, <1>3, <2>1, <2>2
<1>7. CASE OnScanDone
  BY <1>1, <1>7, CandidatesAreSaved DEF OnScanDone
<1>8. CASE OrderConnectAny
  <2>1. UNCHANGED <<list, station>>
    BY <1>8 DEF OrderConnectAny
  <2>2. (list # <<>> /\ SelectStation(0)) \/ UNCHANGED <<index, cfg>>
    BY <1>8 DEF OrderConnectAny
  <2> QED
    BY <1>1, <1>2, <1>3, <2>1, <2>2
<1>9. CASE OnDisconnectedLast \/ OrderForget \/ OrderConnectTo
  BY <1>2, <1>9 DEF OnDisconnectedLast, OrderForget, OrderConnectTo, choice
<1>10. CASE ThreadConfig
  BY <1>1, <1>2, <1>10 DEF ThreadConfig, choice, MessagesOK
<1>11. ASSUME NEW s \in Ssids, AddSsid(s) PROVE ChoiceOK'
  <2>1. UNCHANGED <<list, station>>
    BY <1>11 DEF AddSsid
  <2>2. (list # <<>> /\ SelectStation(0)) \/ UNCHANGED <<index, cfg>>
    BY <1>11 DEF AddSsid
  <2> QED
    BY <1>1, <1>2, <1>3, <2>1, <2>2
<1>12. ASSUME NEW s \in Ssids, RemoveSsid(s) PROVE ChoiceOK'
  <2>1. index' = index /\ (list' = list \/ list' = <<>>)
    BY <1>12 DEF RemoveSsid
  <2>2. station' \in {station, None} /\ cfg' \in {cfg, None}
    BY <1>12 DEF RemoveSsid
  <2>3. <<>> \in Seq(Ssids) /\ Len(<<>>) <= MaxCandidates
    OBVIOUS
  <2>4. list' \in Seq(Ssids) /\ Len(list') <= MaxCandidates
    BY <1>1, <2>1, <2>3
  <2> QED
    BY <1>1, <2>1, <2>2, <2>4
<1>13. CASE UNCHANGED <<list, index, station, cfg>>
  BY <1>1, <1>2, <1>13
<1> QED
  BY <1>4, <1>5, <1>6, <1>7, <1>8, <1>9, <1>10, <1>11, <1>12, <1>13, ChoiceSteps

LEMMA CountsStep ==
  ASSUME TypeOK, Next
  PROVE  CountsOK'
<1> USE DEF CountsOK
<1>1. CountsOK
  BY TypeParts
<1>2. ASSUME retryNum' \in {retryNum, 0}, orders' = orders \/ (orders' = orders + 1 /\ orders < MaxOrders)
      PROVE  CountsOK'
  BY <1>1, <1>2
<1>3. ASSUME OnDisconnectedAgain PROVE CountsOK'
  BY <1>1, <1>3 DEF OnDisconnectedAgain, RetriesLeft
<1>4. ASSUME Driver \/ EventLoop, ~OnDisconnectedAgain PROVE CountsOK'
  <2>1. retryNum' \in {retryNum, 0} /\ orders' = orders
    BY <1>4 DEF Driver, EventLoop, Associate, GetIp, LinkLost, ScanEnds, OnConnected, OnDisconnectedRetry,
       OnDisconnectedOnPurpose, OnDisconnectedScanning, OnDisconnectedNext, OnDisconnectedLast, OnScanDone, OnGotIp
  <2> QED
    BY <1>2, <2>1
<1>5. ASSUME Thread \/ TimerFires \/ \E t \in Senders : Send(t) PROVE CountsOK'
  <2>1. retryNum' \in {retryNum, 0} /\ orders' = orders
    BY <1>5 DEF Thread, OrderScan, OrderForget, OrderConnectAny, OrderConnectTo, ThreadConfig, ThreadConnect,
       TimerFires, Send
  <2> QED
    BY <1>2, <2>1
<1>6. ASSUME Users PROVE CountsOK'
  <2>1. retryNum' = retryNum /\ orders' = orders + 1 /\ orders < MaxOrders
    BY <1>6 DEF Users, AddSsid, RemoveSsid, RequestScan, ForgetFromIsr, SetApEnabled, Requested
  <2> QED
    BY <1>2, <2>1
<1> QED
  BY <1>3, <1>4, <1>5, <1>6 DEF Next

LEMMA SwitchesStep ==
  ASSUME TypeOK, Next
  PROVE  SwitchesOK'
<1> USE DEF SwitchesOK
<1>1. SwitchesOK
  BY TypeParts
<1>2. bits' \subseteq Bits
  <2>1. bits \subseteq Bits
    BY <1>1
  <2>2. Cleared(bits) \subseteq Bits
    BY <2>1 DEF Cleared, Bits
  <2>3. ASSUME Driver \/ TimerFires \/ \E t \in Senders : Send(t) PROVE bits' = bits
    BY <2>3 DEF Driver, Associate, GetIp, LinkLost, ScanEnds, TimerFires, Send
  <2>4. ASSUME EventLoop PROVE bits' \subseteq bits \cup {"connecting", "connected"} \/ bits' = Cleared(bits)
    BY <2>4 DEF EventLoop, OnConnected, OnDisconnectedRetry, OnDisconnectedOnPurpose, OnDisconnectedScanning,
       OnDisconnectedAgain, OnDisconnectedNext, OnDisconnectedLast, OnScanDone, OnGotIp, ScanOver
  <2>5. ASSUME Thread PROVE bits' \subseteq bits \cup {"scan", "afterscan", "retry"} \/ bits' = Cleared(bits)
    BY <2>5 DEF Thread, OrderScan, OrderForget, OrderConnectAny, OrderConnectTo, ThreadConfig, ThreadConnect
  <2>6. ASSUME Users PROVE bits' \subseteq bits \cup {"connecting"} \/ bits' = Cleared(bits)
    BY <2>6 DEF Users, AddSsid, RemoveSsid, RequestScan, ForgetFromIsr, SetApEnabled
  <2>7. {"connecting", "connected", "scan", "afterscan", "retry"} \subseteq Bits
    BY DEF Bits
  <2> QED
    BY <2>1, <2>2, <2>3, <2>4, <2>5, <2>6, <2>7 DEF Next
<1>3. timer' \in BOOLEAN /\ scanning' \in BOOLEAN
  <2>1. ASSUME Driver \/ TimerFires \/ Users \/ \E t \in Senders : Send(t)
        PROVE  timer' \in {timer, FALSE} /\ scanning' \in {scanning, FALSE}
    BY <2>1 DEF Driver, Associate, GetIp, LinkLost, ScanEnds, TimerFires, Send, Users, AddSsid, RemoveSsid, RequestScan,
       ForgetFromIsr, SetApEnabled, driver
  <2>2. ASSUME EventLoop \/ Thread PROVE timer' \in {timer, TRUE, FALSE} /\ scanning' \in {scanning, TRUE}
    BY <2>2 DEF EventLoop, OnConnected, OnDisconnectedRetry, OnDisconnectedOnPurpose, OnDisconnectedScanning,
       OnDisconnectedAgain, OnDisconnectedNext, OnDisconnectedLast, OnScanDone, OnGotIp, Thread, OrderScan, OrderForget,
       OrderConnectAny, OrderConnectTo, ThreadConfig, ThreadConnect, StartTimer, StopTimer
  <2> QED
    BY <1>1, <2>1, <2>2 DEF Next
<1>4. apOn' \in BOOLEAN
  <2>1. ASSUME NEW force \in BOOLEAN, NEW enabled \in BOOLEAN, NEW b, SoftAp(force, enabled, b) PROVE apOn' \in BOOLEAN
    BY <2>1 DEF SoftAp
  <2>2. apEnabled \in BOOLEAN /\ TRUE \in BOOLEAN /\ FALSE \in BOOLEAN
    BY DEF TypeOK
  <2>3. CASE apOn' = apOn
    BY <1>1, <2>3
  <2>4. apOn' = apOn \/ \E force, enabled \in BOOLEAN : \E b : SoftAp(force, enabled, b)
    <3>1. ASSUME Driver \/ TimerFires \/ \E t \in Senders : Send(t) PROVE apOn' = apOn
      BY <3>1 DEF Driver, Associate, GetIp, LinkLost, ScanEnds, TimerFires, Send
    <3>2. ASSUME EventLoop PROVE apOn' = apOn \/ \E force \in BOOLEAN : \E b : SoftAp(force, apEnabled, b)
      BY <3>2 DEF EventLoop, OnConnected, OnDisconnectedRetry, OnDisconnectedOnPurpose, OnDisconnectedScanning,
         OnDisconnectedAgain, OnDisconnectedNext, OnDisconnectedLast, OnScanDone, OnGotIp
    <3>3. ASSUME Thread PROVE apOn' = apOn \/ SoftAp(TRUE, TRUE, bits') \/ SoftAp(TRUE, apEnabled, bits)
      BY <3>3 DEF Thread, OrderScan, OrderForget, OrderConnectAny, OrderConnectTo, ThreadConfig, ThreadConnect
    <3>4. ASSUME Users
          PROVE  apOn' = apOn \/ SoftAp(TRUE, apEnabled, bits) \/ \E enabled \in BOOLEAN : SoftAp(FALSE, enabled, bits)
      BY <3>4 DEF Users, AddSsid, RemoveSsid, RequestScan, ForgetFromIsr, SetApEnabled
    <3> QED
      BY <2>2, <3>1, <3>2, <3>3, <3>4 DEF Next
  <2> QED
    BY <2>1, <2>3, <2>4
<1> QED
  BY <1>2, <1>3, <1>4

LEMMA MessageTypes ==
  /\ {Scan, ScanThenConnect, ConnectAny, Forget, NoMessage} \subseteq Messages
  /\ \A s \in Ssids : ConnectTo(s) \in Messages
  /\ None \in Ssids \cup {None}
  BY DEF Scan, ScanThenConnect, ConnectAny, Forget, NoMessage, ConnectTo, Messages

LEMMA MessageSteps ==
  Next => \/ UNCHANGED <<queue, outbox, thread>> \/ OnScanDone \/ TimerFires \/ Thread \/ RequestScan \/ ForgetFromIsr
          \/ \E s \in Ssids : AddSsid(s)
          \/ \E t \in Senders : Send(t)
  BY DEF Next, Driver, EventLoop, Users, Associate, GetIp, LinkLost, ScanEnds, OnConnected, OnDisconnectedRetry,
         OnDisconnectedOnPurpose, OnDisconnectedScanning, OnDisconnectedAgain, OnDisconnectedNext, OnDisconnectedLast,
         OnGotIp, RemoveSsid, SetApEnabled

LEMMA Taken ==
  ASSUME MessagesOK, queue # <<>>, queue' = Tail(queue)
  PROVE  queue' \in Seq(Messages) /\ Len(queue') <= QueueLen /\ Head(queue) \in Messages
<1>1. queue \in Seq(Messages)
  BY DEF MessagesOK
<1>2. Head(queue) \in Messages /\ Tail(queue) \in Seq(Messages) /\ Len(Tail(queue)) = Len(queue) - 1 /\ Len(queue) \in Nat
  BY <1>1, TakingOne
<1> QED
  BY <1>2 DEF MessagesOK

LEMMA MessagesStep ==
  ASSUME TypeOK, Next
  PROVE  MessagesOK'
<1>1. MessagesOK
  BY TypeParts
<1>2. ASSUME NEW t \in Senders, NEW m \in Messages, outbox' \in {outbox, [outbox EXCEPT ![t] = m]},
             UNCHANGED <<queue, thread>>
      PROVE  MessagesOK'
  BY <1>1, <1>2 DEF MessagesOK
<1>3. ASSUME NEW m \in Messages, queue' = Append(queue, m), Len(queue) < QueueLen
      PROVE  queue' \in Seq(Messages) /\ Len(queue') <= QueueLen
  <2>1. queue \in Seq(Messages)
    BY <1>1 DEF MessagesOK
  <2>2. Append(queue, m) \in Seq(Messages) /\ Len(queue) \in Nat /\ Len(Append(queue, m)) = Len(queue) + 1
    BY <2>1, AddingOne
  <2> QED
    BY <1>3, <2>2
<1>4. CASE OnScanDone
  BY <1>2, <1>4, MessageTypes DEF OnScanDone, Senders
<1>5. CASE TimerFires
  BY <1>2, <1>5, MessageTypes DEF TimerFires, RetryOrder, Senders
<1>6. CASE RequestScan
  BY <1>2, <1>6, MessageTypes DEF RequestScan, Senders
<1>7. ASSUME NEW s \in Ssids, AddSsid(s) PROVE MessagesOK'
  BY <1>2, <1>7, MessageTypes DEF AddSsid, Senders
<1>8. CASE ForgetFromIsr
  BY <1>1, <1>3, <1>8, MessageTypes DEF ForgetFromIsr, MessagesOK
<1>9. ASSUME NEW t \in Senders, Send(t) PROVE MessagesOK'
  <2>1. outbox[t] \in Messages /\ NoMessage \in Messages
    BY <1>1, MessageTypes DEF MessagesOK
  <2> QED
    BY <1>1, <1>3, <1>9, <2>1 DEF Send, MessagesOK
<1>10. ASSUME NEW code, Orders(code) PROVE queue' \in Seq(Messages) /\ Len(queue') <= QueueLen /\ Head(queue) \in Messages
  BY <1>1, <1>10, Taken DEF Orders
<1>11. CASE OrderScan \/ OrderForget
  <2>1. \E code : Orders(code)
    BY <1>11 DEF OrderScan, OrderForget
  <2>2. UNCHANGED <<outbox, thread>>
    BY <1>11 DEF OrderScan, OrderForget
  <2> QED
    BY <1>1, <1>10, <2>1, <2>2 DEF MessagesOK
<1>12. CASE OrderConnectAny
  <2>1. Orders("connect") /\ outbox' = outbox /\ thread' \in {thread, [at |-> "connect", ssid |-> None]}
    BY <1>12 DEF OrderConnectAny
  <2> QED
    BY <1>1, <1>10, <2>1 DEF MessagesOK
<1>13. CASE OrderConnectTo
  <2>1. Orders("connect") /\ outbox' = outbox /\ thread' = [at |-> "config", ssid |-> Head(queue).ssid]
    BY <1>13 DEF OrderConnectTo
  <2>2. Head(queue).ssid \in Ssids \cup {None}
    BY <1>10, <2>1 DEF Messages
  <2> QED
    BY <1>1, <1>10, <2>1, <2>2 DEF MessagesOK
<1>14. CASE ThreadConfig
  BY <1>1, <1>14 DEF ThreadConfig, MessagesOK
<1>15. CASE ThreadConnect
  BY <1>1, <1>15 DEF ThreadConnect, MessagesOK
<1>16. CASE UNCHANGED <<queue, outbox, thread>>
  BY <1>1, <1>16 DEF MessagesOK
<1> QED
  BY <1>4, <1>5, <1>6, <1>7, <1>8, <1>9, <1>11, <1>12, <1>13, <1>14, <1>15, <1>16, MessageSteps DEF Thread

\* What a step does with the driver's events: the event loop takes the first, ...
Took == events # <<>> /\ Rest \in Seq(Events)
\* ... and any task may ask the driver to connect or to disconnect.
EventMoves ==
  \/ UNCHANGED <<link, target, events>>
  \/ Took /\ events' = Rest /\ UNCHANGED <<link, target>>
  \/ \E c \in Ssids \cup {None} : WifiConnect(events, c) \/ (Took /\ WifiConnect(Rest, c))
  \/ WifiDisconnect(events) \/ (Took /\ WifiDisconnect(Rest))

LEMMA EventLoopMoves ==
  ASSUME TypeOK, ChoiceOK', EventLoop
  PROVE  EventMoves
<1>1. cfg \in Ssids \cup {None} /\ cfg' \in Ssids \cup {None} /\ LinkOK
  BY TypeParts DEF ChoiceOK
<1>2. \A type : Takes(type) => Took
  BY <1>1, RestIsEvents DEF Takes, Took
<1>3. CASE OnConnected
  BY <1>1, <1>2, <1>3 DEF OnConnected, EventMoves
<1>4. CASE OnDisconnectedRetry
  BY <1>1, <1>2, <1>4 DEF OnDisconnectedRetry, EventMoves
<1>5. CASE OnDisconnectedOnPurpose
  BY <1>1, <1>2, <1>5 DEF OnDisconnectedOnPurpose, EventMoves
<1>6. CASE OnDisconnectedScanning
  BY <1>1, <1>2, <1>6 DEF OnDisconnectedScanning, EventMoves
<1>7. CASE OnDisconnectedAgain
  BY <1>1, <1>2, <1>7 DEF OnDisconnectedAgain, Unexpected, EventMoves
<1>8. CASE OnDisconnectedNext
  BY <1>1, <1>2, <1>8 DEF OnDisconnectedNext, GiveUp, Unexpected, EventMoves
<1>9. CASE OnDisconnectedLast
  BY <1>1, <1>2, <1>9 DEF OnDisconnectedLast, GiveUp, Unexpected, EventMoves
<1>10. CASE OnScanDone
  BY <1>1, <1>2, <1>10 DEF OnScanDone, EventMoves
<1>11. CASE OnGotIp
  BY <1>1, <1>2, <1>11 DEF OnGotIp, EventMoves
<1> QED
  BY <1>3, <1>4, <1>5, <1>6, <1>7, <1>8, <1>9, <1>10, <1>11 DEF EventLoop

LEMMA OtherMoves ==
  ASSUME TypeOK, ChoiceOK', Thread \/ TimerFires \/ Users \/ \E t \in Senders : Send(t)
  PROVE  EventMoves
<1>1. cfg \in Ssids \cup {None} /\ cfg' \in Ssids \cup {None}
  BY TypeParts DEF ChoiceOK
<1>2. CASE Thread
  <2>1. CASE OrderScan
    BY <2>1 DEF OrderScan, EventMoves
  <2>2. CASE OrderForget
    BY <2>2 DEF OrderForget, EventMoves
  <2>3. CASE OrderConnectAny
    BY <2>3 DEF OrderConnectAny, EventMoves
  <2>4. CASE OrderConnectTo
    BY <2>4 DEF OrderConnectTo, EventMoves
  <2>5. CASE ThreadConfig
    BY <2>5 DEF ThreadConfig, EventMoves
  <2>6. CASE ThreadConnect
    BY <1>1, <2>6 DEF ThreadConnect, EventMoves
  <2> QED
    BY <1>2, <2>1, <2>2, <2>3, <2>4, <2>5, <2>6 DEF Thread
<1>3. CASE TimerFires \/ RequestScan \/ ForgetFromIsr
  BY <1>3 DEF TimerFires, RequestScan, ForgetFromIsr, driver, EventMoves
<1>4. ASSUME NEW s \in Ssids, AddSsid(s) PROVE EventMoves
  BY <1>1, <1>4 DEF AddSsid, EventMoves
<1>5. ASSUME NEW s \in Ssids, RemoveSsid(s) PROVE EventMoves
  BY <1>5 DEF RemoveSsid, EventMoves
<1>6. ASSUME NEW enabled \in BOOLEAN, SetApEnabled(enabled) PROVE EventMoves
  BY <1>6 DEF SetApEnabled, driver, EventMoves
<1>7. ASSUME NEW t \in Senders, Send(t) PROVE EventMoves
  BY <1>7 DEF Send, driver, EventMoves
<1> QED
  BY <1>2, <1>3, <1>4, <1>5, <1>6, <1>7 DEF Users

LEMMA LinkStep ==
  ASSUME TypeOK, ChoiceOK', Next
  PROVE  LinkOK'
<1>1. LinkOK /\ events \in Seq(Events) /\ target \in Ssids \cup {None}
  BY TypeParts DEF LinkOK
<1>2. CASE EventMoves
  <2>1. CASE UNCHANGED <<link, target, events>> \/ (Took /\ events' = Rest /\ UNCHANGED <<link, target>>)
    BY <1>1, <2>1 DEF LinkOK, Took
  <2>2. ASSUME NEW c \in Ssids \cup {None}, WifiConnect(events, c) \/ (Took /\ WifiConnect(Rest, c)) PROVE LinkOK'
    BY <1>1, <2>2, LinkOfConnect DEF Took
  <2>3. CASE WifiDisconnect(events) \/ (Took /\ WifiDisconnect(Rest))
    BY <1>1, <2>3, LinkOfDisconnect DEF Took
  <2> QED
    BY <1>2, <2>1, <2>2, <2>3 DEF EventMoves
<1>3. ASSUME Driver PROVE LinkOK'
  <2>1. PICK e \in Events : Post(e)
    BY <1>1, <1>3, EventIs DEF Driver, Associate, GetIp, LinkLost, ScanEnds
  <2>2. link' \in {link, "associated", "up", "down"} /\ target' = target
    BY <1>3 DEF Driver, Associate, GetIp, LinkLost, ScanEnds
  <2> QED
    BY <1>1, <2>1, <2>2, LinkOfPost DEF LinkOK
<1> QED
  BY <1>2, <1>3, EventLoopMoves, OtherMoves DEF Next

LEMMA TypeStep == TypeOK /\ [Next]_vars => TypeOK'
<1>1. ASSUME TypeOK, Next PROVE TypeOK'
  <2>1. StoreOK' /\ ChoiceOK' /\ CountsOK' /\ SwitchesOK' /\ MessagesOK'
    BY <1>1, StoreStep, ChoiceStep, CountsStep, SwitchesStep, MessagesStep
  <2>2. LinkOK'
    BY <1>1, <2>1, LinkStep
  <2> QED
    BY <2>1, <2>2 DEF TypeOK, StoreOK, ChoiceOK, CountsOK, SwitchesOK, MessagesOK, LinkOK, Events
<1>2. ASSUME TypeOK, UNCHANGED vars PROVE TypeOK'
  BY <1>2 DEF TypeOK, vars, nvs, choice, driver
<1> QED
  BY <1>1, <1>2

LEMMA TypeInit == Init => TypeOK
<1> SUFFICES ASSUME Init PROVE TypeOK
  OBVIOUS
<1>1. StoreOK /\ CountsOK /\ SwitchesOK
  <2>1. StoreOK
    BY DEF Init, StoreOK
  <2>2. CountsOK
    BY DEF Init, CountsOK
  <2> QED
    BY <2>1, <2>2 DEF Init, SwitchesOK
<1>2. ChoiceOK /\ LinkOK
  BY DEF Init, ChoiceOK, LinkOK
<1>3. MessagesOK
  <2>1. ScanThenConnect \in Messages /\ NoMessage \in Messages
    BY MessageTypes
  <2>2. <<ScanThenConnect>> \in Seq(Messages) /\ Len(<<ScanThenConnect>>) = 1
    BY <2>1
  <2> QED
    BY <2>1, <2>2 DEF Init, MessagesOK
<1> QED
  BY <1>1, <1>2, <1>3, TypeParts

\* Everything the manager and the driver keep stays within its values: the list index
\* within the list, the queue within its length, the retries within their number.
THEOREM TypeCorrect == Spec => []TypeOK
  BY TypeInit, TypeStep, PTL DEF Spec
-----------------------------------------------------------------------------
(* The SCAN bit.                                                           *)

\* An event stays pending until it is taken.
LEMMA PendingKept ==
  ASSUME LinkOK, NEW type, Pending(type),
         \/ events' = events
         \/ \E e \in Events : events' = Append(events, e)
         \/ Took /\ Head(events).type # type
              /\ (events' = Rest \/ \E e \in Events : events' = Append(Rest, e))
  PROVE  Pending(type)'
<1>1. events \in Seq(Events) /\ Len(events) \in Nat
  BY DEF LinkOK
<1>2. PICK i \in 1 .. Len(events) : events[i].type = type
  BY DEF Pending
<1>3. ASSUME NEW q \in Seq(Events), NEW e \in Events, NEW k \in 1 .. Len(q), q[k].type = type, events' = Append(q, e)
      PROVE  Pending(type)'
  <2>1. Len(q) \in Nat /\ Len(Append(q, e)) = Len(q) + 1 /\ Append(q, e)[k] = q[k]
    BY AddingOne
  <2>2. k \in 1 .. Len(events')
    BY <1>3, <2>1
  <2> QED
    BY <1>3, <2>1, <2>2 DEF Pending
<1>4. CASE events' = events
  BY <1>4 DEF Pending
<1>5. ASSUME NEW e \in Events, events' = Append(events, e) PROVE Pending(type)'
  BY <1>1, <1>2, <1>3, <1>5
<1>6. ASSUME Took, Head(events).type # type, events' = Rest \/ \E e \in Events : events' = Append(Rest, e)
      PROVE  Pending(type)'
  <2>1. /\ Rest \in Seq(Events) /\ Len(events) \in Nat \ {0} /\ Len(Rest) = Len(events) - 1 /\ Head(events) = events[1]
        /\ \A k \in 1 .. Len(events) - 1 : Rest[k] = events[k + 1]
    BY <1>6, RestIsEvents DEF Took
  <2>2. i # 1
    BY <1>2, <1>6, <2>1
  <2>3. i - 1 \in 1 .. Len(Rest) /\ i - 1 \in 1 .. Len(events) - 1 /\ i - 1 + 1 = i
    BY <2>1, <2>2
  <2>4. Rest[i - 1].type = type
    BY <1>2, <2>1, <2>3
  <2>5. CASE events' = Rest
    BY <2>3, <2>4, <2>5 DEF Pending
  <2>6. ASSUME NEW e \in Events, events' = Append(Rest, e) PROVE Pending(type)'
    BY <1>3, <2>1, <2>3, <2>4, <2>6
  <2> QED
    BY <1>6, <2>5, <2>6
<1> QED
  BY <1>4, <1>5, <1>6

\* Asking the driver for something adds an event or none.
LEMMA AskingAdds ==
  ASSUME LinkOK, NEW q
  PROVE  /\ \A c : WifiConnect(q, c) => events' = q
         /\ WifiDisconnect(q) => events' = q \/ \E e \in Events : events' = Append(q, e)
<1>1. Event("disconnected", target) \in Events
  BY EventIs DEF LinkOK
<1> QED
  BY <1>1 DEF WifiConnect, WifiDisconnect

LEMMA ScanKept ==
  ASSUME LinkOK, ScanBitMeansScan, "scan" \in bits' => "scan" \in bits, scanning' = scanning,
         \/ events' = events
         \/ \E e \in Events : events' = Append(events, e)
         \/ Took /\ Head(events).type # "scan_done"
              /\ (events' = Rest \/ \E e \in Events : events' = Append(Rest, e))
  PROVE  ScanBitMeansScan'
<1>1. Pending("scan_done") => Pending("scan_done")'
  BY PendingKept
<1> QED
  BY <1>1 DEF ScanBitMeansScan

LEMMA ScanStep ==
  ASSUME TypeOK, ScanBitMeansScan, Next
  PROVE  ScanBitMeansScan'
<1>1. LinkOK
  BY TypeParts
<1>2. ASSUME NEW type, Takes(type), type # "scan_done" PROVE Took /\ Head(events).type # "scan_done"
  BY <1>1, <1>2, RestIsEvents DEF Takes, Took
<1>3. ASSUME NEW q, events' = q \/ (\E c : WifiConnect(q, c)) \/ WifiDisconnect(q)
      PROVE  events' = q \/ \E e \in Events : events' = Append(q, e)
  BY <1>1, <1>3, AskingAdds
<1>4. ASSUME Associate \/ GetIp \/ LinkLost PROVE ScanBitMeansScan'
  <2>1. \E e \in Events : events' = Append(events, e)
    BY <1>1, <1>4, EventIs DEF Associate, GetIp, LinkLost, Post, LinkOK
  <2>2. bits' = bits /\ scanning' = scanning
    BY <1>4 DEF Associate, GetIp, LinkLost
  <2> QED
    BY <1>1, <2>1, <2>2, ScanKept
\* A scan that ends has its event pending.
<1>5. CASE ScanEnds
  <2>1. events' = Append(events, Event("scan_done", None)) /\ Event("scan_done", None) \in Events
    BY <1>5, EventIs DEF ScanEnds, Post
  <2>2. events' \in Seq(Events) /\ Len(events) \in Nat /\ Len(events') = Len(events) + 1
        /\ events'[Len(events) + 1] = Event("scan_done", None)
    BY <1>1, <2>1, AddingOne DEF LinkOK
  <2>3. Len(events) + 1 \in 1 .. Len(events') /\ events'[Len(events) + 1].type = "scan_done"
    BY <2>2, EventIs
  <2>4. Pending("scan_done")'
    BY <2>3 DEF Pending
  <2> QED
    BY <2>4 DEF ScanBitMeansScan
<1>6. ASSUME OnConnected \/ OnDisconnectedRetry \/ OnDisconnectedOnPurpose \/ OnDisconnectedScanning
             \/ OnDisconnectedAgain \/ OnDisconnectedNext \/ OnDisconnectedLast \/ OnGotIp
      PROVE  ScanBitMeansScan'
  <2>1. Took /\ Head(events).type # "scan_done"
    BY <1>2, <1>6 DEF OnConnected, OnDisconnectedRetry, OnDisconnectedOnPurpose, OnDisconnectedScanning,
       OnDisconnectedAgain, OnDisconnectedNext, OnDisconnectedLast, OnGotIp, Unexpected, GiveUp
  <2>2. scanning' = scanning /\ ("scan" \in bits' => "scan" \in bits)
    BY <1>6 DEF OnConnected, OnDisconnectedRetry, OnDisconnectedOnPurpose, OnDisconnectedScanning,
       OnDisconnectedAgain, OnDisconnectedNext, OnDisconnectedLast, OnGotIp, Cleared
  <2>3. events' = Rest \/ (\E c : WifiConnect(Rest, c)) \/ WifiDisconnect(Rest)
    BY <1>6 DEF OnConnected, OnDisconnectedRetry, OnDisconnectedOnPurpose, OnDisconnectedScanning,
       OnDisconnectedAgain, OnDisconnectedNext, OnDisconnectedLast, OnGotIp
  <2>4. events' = Rest \/ \E e \in Events : events' = Append(Rest, e)
    BY <1>3, <2>3
  <2> QED
    BY <1>1, <2>1, <2>2, <2>4, ScanKept
<1>7. CASE OnScanDone
  BY <1>7 DEF OnScanDone, ScanOver, ScanBitMeansScan
<1>8. CASE OrderScan
  <2>1. CASE "scan" \in bits
    <3>1. UNCHANGED <<events, scanning>>
      BY <1>8, <2>1 DEF OrderScan
    <3> QED
      BY <2>1, <3>1 DEF ScanBitMeansScan, Pending
  <2>2. CASE "scan" \notin bits
    BY <1>8, <2>2 DEF OrderScan, ScanBitMeansScan
  <2> QED
    BY <2>1, <2>2
<1>9. ASSUME OrderForget \/ OrderConnectAny \/ OrderConnectTo \/ ThreadConfig \/ ThreadConnect \/ TimerFires
             \/ RequestScan \/ ForgetFromIsr \/ (\E s \in Ssids : AddSsid(s) \/ RemoveSsid(s))
             \/ (\E enabled \in BOOLEAN : SetApEnabled(enabled)) \/ (\E t \in Senders : Send(t))
      PROVE  ScanBitMeansScan'
  <2>1. scanning' = scanning
    BY <1>9 DEF OrderForget, OrderConnectAny, OrderConnectTo, ThreadConfig, ThreadConnect, TimerFires, RequestScan,
       ForgetFromIsr, AddSsid, RemoveSsid, SetApEnabled, Send, driver
  <2>2. \/ bits' = bits \/ bits' = Cleared(bits)
        \/ \E b \in {"retry", "connecting"} : bits' = bits \cup {b}
    <3>1. ASSUME OrderForget \/ OrderConnectTo \/ \E s \in Ssids : RemoveSsid(s)
          PROVE  bits' = bits \/ bits' = Cleared(bits)
      BY <3>1 DEF OrderForget, OrderConnectTo, RemoveSsid
    <3>2. ASSUME ThreadConnect \/ \E s \in Ssids : AddSsid(s)
          PROVE  bits' = bits \/ \E b \in {"retry", "connecting"} : bits' = bits \cup {b}
      BY <3>2 DEF ThreadConnect, AddSsid
    <3>3. ASSUME OrderConnectAny \/ ThreadConfig \/ TimerFires \/ RequestScan \/ ForgetFromIsr
                 \/ (\E enabled \in BOOLEAN : SetApEnabled(enabled)) \/ (\E t \in Senders : Send(t))
          PROVE  bits' = bits
      BY <3>3 DEF OrderConnectAny, ThreadConfig, TimerFires, RequestScan, ForgetFromIsr, SetApEnabled, Send
    <3> QED
      BY <1>9, <3>1, <3>2, <3>3
  <2>3. "scan" \in bits' => "scan" \in bits
    BY <2>2 DEF Cleared
  <2>4. events' = events \/ (\E c : WifiConnect(events, c)) \/ WifiDisconnect(events)
    BY <1>9 DEF OrderForget, OrderConnectAny, OrderConnectTo, ThreadConfig, ThreadConnect, TimerFires, RequestScan,
       ForgetFromIsr, AddSsid, RemoveSsid, SetApEnabled, Send, driver
  <2>5. events' = events \/ \E e \in Events : events' = Append(events, e)
    BY <1>3, <2>4
  <2> QED
    BY <1>1, <2>1, <2>5, <2>3, ScanKept
<1> QED
  BY <1>4, <1>5, <1>6, <1>7, <1>8, <1>9 DEF Next, Driver, EventLoop, Thread, Users

\* start_scan refuses a scan only while one runs or its result is on the way.
THEOREM ScanBitStandsForScan == Spec => []ScanBitMeansScan
<1>1. Init => ScanBitMeansScan
  BY DEF Init, ScanBitMeansScan
<1>2. TypeOK /\ ScanBitMeansScan /\ [Next]_vars => ScanBitMeansScan'
  <2>1. ScanBitMeansScan /\ UNCHANGED vars => ScanBitMeansScan'
    BY DEF ScanBitMeansScan, Pending, vars, driver
  <2> QED
    BY <2>1, ScanStep
<1> QED
  BY <1>1, <1>2, TypeCorrect, PTL DEF Spec
-----------------------------------------------------------------------------
(* The access point of a device that waits.                                *)

\* Whoever starts the retry timer opens the access point, and it is closed only by an
\* address, which stops the timer.  A user's request would close it.
WaitsWithAp == timer => apOn

LEMMA WaitsStep ==
  ASSUME TypeOK, WaitsWithAp, Next, "ap" \notin Requests
  PROVE  WaitsWithAp'
<1> USE DEF WaitsWithAp
<1>1. ASSUME timer' = FALSE \/ timer' = timer, apOn' = apOn PROVE WaitsWithAp'
  BY <1>1 DEF TypeOK
<1>2. ASSUME NEW enabled, NEW b, SoftAp(TRUE, enabled, b) PROVE WaitsWithAp'
  BY <1>2 DEF SoftAp
<1>3. ASSUME OnConnected \/ OnDisconnectedRetry \/ OnDisconnectedScanning \/ OnDisconnectedAgain \/ OnScanDone
             \/ Driver \/ TimerFires
      PROVE  WaitsWithAp'
  BY <1>1, <1>3 DEF OnConnected, OnDisconnectedRetry, OnDisconnectedScanning, OnDisconnectedAgain, OnScanDone, Driver,
     Associate, GetIp, LinkLost, ScanEnds, TimerFires
<1>4. CASE OnDisconnectedOnPurpose
  <2>1. (timer' = timer /\ apOn' = apOn) \/ SoftAp(TRUE, apEnabled, bits')
    BY <1>4 DEF OnDisconnectedOnPurpose
  <2> QED
    BY <1>1, <1>2, <2>1
<1>5. CASE OnDisconnectedNext
  <2>1. (timer' = timer /\ apOn' = apOn) \/ SoftAp(TRUE, apEnabled, bits \ {"connecting"})
    BY <1>5 DEF OnDisconnectedNext
  <2> QED
    BY <1>1, <1>2, <2>1
<1>6. CASE OnDisconnectedLast
  BY <1>2, <1>6 DEF OnDisconnectedLast
<1>7. CASE OnGotIp
  BY <1>7 DEF OnGotIp, StopTimer
<1>8. CASE OrderForget
  BY <1>2, <1>8 DEF OrderForget
<1>9. CASE OrderConnectAny
  <2>1. (timer' = timer /\ apOn' = apOn) \/ SoftAp(TRUE, apEnabled, bits)
    BY <1>9 DEF OrderConnectAny
  <2> QED
    BY <1>1, <1>2, <2>1
<1>10. ASSUME OrderScan \/ OrderConnectTo \/ ThreadConfig \/ ThreadConnect \/ RequestScan \/ ForgetFromIsr
              \/ (\E s \in Ssids : RemoveSsid(s)) \/ (\E t \in Senders : Send(t))
       PROVE  WaitsWithAp'
  BY <1>1, <1>10 DEF OrderScan, OrderConnectTo, ThreadConfig, ThreadConnect, RequestScan, ForgetFromIsr, RemoveSsid, Send
<1>11. ASSUME NEW s \in Ssids, AddSsid(s) PROVE WaitsWithAp'
  <2>1. (timer' = timer /\ apOn' = apOn) \/ SoftAp(TRUE, apEnabled, bits)
    BY <1>11 DEF AddSsid
  <2> QED
    BY <1>1, <1>2, <2>1
<1>12. ASSUME NEW enabled \in BOOLEAN PROVE ~SetApEnabled(enabled)
  BY DEF SetApEnabled, Requested
<1> QED
  BY <1>3, <1>4, <1>5, <1>6, <1>7, <1>8, <1>9, <1>10, <1>11, <1>12 DEF Next, EventLoop, Thread, Users

\* As long as nobody disables it by hand, the access point of a device that waits for its
\* retry timer is on.
THEOREM WaitingHasAp ==
  ASSUME "ap" \notin Requests
  PROVE  Spec => []WaitingDeviceHasAp
<1>1. Init => WaitsWithAp
  BY DEF Init, WaitsWithAp
<1>2. TypeOK /\ WaitsWithAp /\ [Next]_vars => WaitsWithAp'
  <2>1. WaitsWithAp /\ UNCHANGED vars => WaitsWithAp'
    BY DEF WaitsWithAp, vars
  <2> QED
    BY <2>1, WaitsStep
<1>3. WaitsWithAp => WaitingDeviceHasAp
  BY DEF WaitsWithAp, WaitingDeviceHasAp
<1> QED
  BY <1>1, <1>2, <1>3, TypeCorrect, PTL DEF Spec
-----------------------------------------------------------------------------
(* A device that only its own tasks drive, with one station to try, is     *)
(* never stranded.                                                         *)

\* Without a user's orders, what is sent is the restart of a scan and what follows it.
OwnOrders ==
  /\ \A i \in 1 .. Len(queue) : queue[i] \in {ScanThenConnect, ConnectAny}
  /\ \A t \in Senders : outbox[t] \in {ScanThenConnect, ConnectAny, NoMessage}
  /\ thread.at # "config"

\* A scan that runs or whose result is on the way.
ScanInFlight == scanning \/ Pending("scan_done")

AtMostOne(type) == \A i, j \in 1 .. Len(events) : events[i].type = type /\ events[j].type = type => i = j

\* There is one scan at a time, the bits know of it, and the device connects after it.
OneScan ==
  /\ scanning => ~Pending("scan_done")
  /\ AtMostOne("scan_done")
  /\ ScanInFlight => {"scan", "afterscan"} \subseteq bits

\* A link that is down after an address was given has said so.
LossFollows ==
  \A i \in 1 .. Len(events) :
    events[i].type = "got_ip" =>
      link # "down" \/ \E j \in i + 1 .. Len(events) : events[j].type = "disconnected"

\* An attempt that the bits still count and that ended is taken up again.
AttemptGoesOn == "connecting" \in bits /\ link = "down" => Pending("disconnected") \/ ScanInFlight

\* The bits do not count an attempt and at once wait for the end of one.
NotBoth == ~({"connecting", "disconnected"} \subseteq bits)

\* Somebody will connect: an event, a scan, a message, the thread or the timer.
Underway ==
  \/ timer \/ Pending("disconnected") \/ ScanInFlight
  \/ queue # <<>> \/ thread.at = "connect" \/ \E t \in Senders : outbox[t] # NoMessage

\* The exception is the station that line 775 selected and nobody has tried.
SomebodyConnects == link = "down" /\ saved # <<>> => Underway \/ Untried

Alone == OwnOrders /\ OneScan /\ LossFollows /\ NotBoth /\ AttemptGoesOn /\ SomebodyConnects

\* The events that a step leaves, before it adds one.
Left(q) == q = events \/ (Took /\ q = Rest)

LEMMA LeftFits ==
  ASSUME LinkOK, NEW q, Left(q)
  PROVE  /\ q \in Seq(Events) /\ Len(q) \in Nat /\ Len(events) \in Nat
         /\ \E d \in {0, 1} : Len(q) = Len(events) - d /\ \A i \in 1 .. Len(q) : q[i] = events[i + d]
<1>1. events \in Seq(Events) /\ Len(events) \in Nat
  BY DEF LinkOK
<1>2. CASE q = events
  <2>1. Len(q) = Len(events) - 0 /\ \A i \in 1 .. Len(q) : q[i] = events[i + 0]
    BY <1>1, <1>2
  <2> QED
    BY <1>1, <1>2, <2>1
<1>3. CASE Took /\ q = Rest
  <2>1. Len(q) = Len(events) - 1 /\ q \in Seq(Events) /\ \A i \in 1 .. Len(events) - 1 : q[i] = events[i + 1]
    BY <1>3, RestIsEvents DEF Took
  <2>2. Len(q) \in Nat
    BY <2>1
  <2> QED
    BY <1>1, <2>1, <2>2
<1> QED
  BY <1>2, <1>3 DEF Left

LEMMA NoneAdded ==
  ASSUME LinkOK, NEW type, NEW q, Left(q),
         events' = q \/ \E e \in Events : e.type # type /\ events' = Append(q, e)
  PROVE  (Pending(type)' => Pending(type)) /\ (AtMostOne(type) => AtMostOne(type)')
<1>1. q \in Seq(Events) /\ Len(q) \in Nat /\ Len(events) \in Nat
  BY LeftFits
<1>2. PICK d \in {0, 1} : Len(q) = Len(events) - d /\ \A i \in 1 .. Len(q) : q[i] = events[i + d]
  BY LeftFits
<1>3. ASSUME NEW i \in 1 .. Len(events'), events'[i].type = type
      PROVE  i + d \in 1 .. Len(events) /\ events[i + d].type = type
  <2>1. i \in 1 .. Len(q) /\ events'[i] = q[i]
    <3>1. CASE events' = q
      BY <3>1
    <3>2. ASSUME NEW e \in Events, e.type # type, events' = Append(q, e) PROVE i \in 1 .. Len(q) /\ events'[i] = q[i]
      <4>1. Len(events') = Len(q) + 1 /\ events'[Len(q) + 1] = e /\ \A k \in 1 .. Len(q) : events'[k] = q[k]
        BY <1>1, <3>2, AddingOne
      <4>2. i # Len(q) + 1
        BY <1>3, <3>2, <4>1
      <4> QED
        BY <1>1, <4>1, <4>2
    <3> QED
      BY <3>1, <3>2
  <2> QED
    BY <1>1, <1>2, <1>3, <2>1
<1>4. Pending(type)' => Pending(type)
  BY <1>3 DEF Pending
<1>5. ASSUME AtMostOne(type), NEW i \in 1 .. Len(events'), NEW j \in 1 .. Len(events'),
             events'[i].type = type, events'[j].type = type
      PROVE  i = j
  <2>1. i + d = j + d
    BY <1>3, <1>5 DEF AtMostOne
  <2> QED
    BY <2>1
<1> QED
  BY <1>4, <1>5 DEF AtMostOne

LEMMA MovesAdd ==
  ASSUME LinkOK, EventMoves \/ Associate \/ GetIp \/ LinkLost
  PROVE  \E q : Left(q) /\ (events' = q \/ \E e \in Events : e.type # "scan_done" /\ events' = Append(q, e))
<1>1. \A type \in {"connected", "got_ip", "disconnected"} :
        Event(type, target) \in Events /\ Event(type, target).type # "scan_done"
  BY EventIs DEF LinkOK
<1>2. CASE EventMoves
  <2>1. \E q : Left(q) /\ (events' = q \/ (\E c : WifiConnect(q, c)) \/ WifiDisconnect(q))
    BY <1>2 DEF EventMoves, Left
  <2>2. PICK q : Left(q) /\ (events' = q \/ (\E c : WifiConnect(q, c)) \/ WifiDisconnect(q))
    BY <2>1
  <2>3. events' = q \/ events' = Append(q, Event("disconnected", target))
    BY <2>2 DEF WifiConnect, WifiDisconnect
  <2> QED
    BY <1>1, <2>2, <2>3
<1>3. ASSUME Associate \/ GetIp \/ LinkLost
      PROVE  \E type \in {"connected", "got_ip", "disconnected"} : events' = Append(events, Event(type, target))
  BY <1>3 DEF Associate, GetIp, LinkLost, Post
<1> QED
  BY <1>1, <1>2, <1>3 DEF Left

LEMMA LossStep ==
  ASSUME LinkOK, LossFollows, EventMoves \/ Driver
  PROVE  LossFollows'
<1>1. ASSUME link' # "down" PROVE LossFollows'
  BY <1>1 DEF LossFollows
<1>2. ASSUME NEW q, Left(q), link = "down",
             events' = q \/ \E e \in Events : e.type # "got_ip" /\ events' = Append(q, e)
      PROVE  LossFollows'
  <2>1. q \in Seq(Events) /\ Len(q) \in Nat /\ Len(events) \in Nat
    BY <1>2, LeftFits
  <2>2. PICK d \in {0, 1} : Len(q) = Len(events) - d /\ \A i \in 1 .. Len(q) : q[i] = events[i + d]
    BY <1>2, LeftFits
  <2>3. /\ Len(events') \in {Len(q), Len(q) + 1} /\ \A i \in 1 .. Len(q) : events'[i] = q[i]
        /\ Len(events') = Len(q) + 1 => events'[Len(q) + 1].type # "got_ip"
    <3>1. CASE events' = q
      BY <2>1, <3>1
    <3>2. ASSUME NEW e \in Events, e.type # "got_ip", events' = Append(q, e)
          PROVE  /\ Len(events') = Len(q) + 1 /\ \A i \in 1 .. Len(q) : events'[i] = q[i]
                 /\ events'[Len(q) + 1].type # "got_ip"
      BY <2>1, <3>2, AddingOne
    <3> QED
      BY <1>2, <3>1, <3>2
  <2>4. ASSUME NEW i \in 1 .. Len(events'), events'[i].type = "got_ip"
        PROVE  \E j \in i + 1 .. Len(events') : events'[j].type = "disconnected"
    <3>1. i \in 1 .. Len(q) /\ events'[i] = q[i]
      BY <2>1, <2>3, <2>4
    <3>2. i + d \in 1 .. Len(events) /\ events[i + d].type = "got_ip"
      BY <2>1, <2>2, <2>4, <3>1
    <3>3. PICK j \in i + d + 1 .. Len(events) : events[j].type = "disconnected"
      BY <1>2, <3>2 DEF LossFollows
    <3>4. j - d \in 1 .. Len(q) /\ j - d \in i + 1 .. Len(events') /\ (j - d) + d = j
      BY <2>1, <2>2, <2>3, <3>1, <3>3
    <3>5. events'[j - d] = q[j - d] /\ q[j - d] = events[j]
      BY <2>2, <2>3, <3>4
    <3> QED
      BY <3>3, <3>4, <3>5
  <2> QED
    BY <2>4 DEF LossFollows
<1>3. ASSUME NEW q, Left(q), NEW e \in Events, e.type = "disconnected", events' = Append(q, e)
      PROVE  LossFollows'
  <2>1. q \in Seq(Events) /\ Len(q) \in Nat
    BY <1>3, LeftFits
  <2>2. Len(events') = Len(q) + 1 /\ events'[Len(q) + 1] = e
    BY <1>3, <2>1, AddingOne
  <2>3. ASSUME NEW i \in 1 .. Len(events'), events'[i].type = "got_ip"
        PROVE  Len(q) + 1 \in i + 1 .. Len(events')
    <3>1. i # Len(q) + 1
      BY <1>3, <2>2, <2>3
    <3> QED
      BY <2>1, <2>2, <3>1
  <2> QED
    BY <1>3, <2>2, <2>3 DEF LossFollows
<1>4. \A type \in {"connected", "got_ip", "disconnected"} :
        Event(type, target) \in Events /\ Event(type, target).type = type
  BY EventIs DEF LinkOK
<1>5. ASSUME EventMoves PROVE LossFollows'
  <2>1. PICK q : Left(q) /\ \/ events' = q /\ link' = link
                            \/ \E c : WifiConnect(q, c)
                            \/ WifiDisconnect(q)
    BY <1>5 DEF EventMoves, Left
  <2>2. CASE events' = q /\ link' = link
    BY <1>1, <1>2, <2>1, <2>2
  <2>3. CASE \E c : WifiConnect(q, c)
    BY <1>1, <2>3 DEF WifiConnect
  <2>4. CASE WifiDisconnect(q)
    BY <1>2, <1>3, <1>4, <2>1, <2>4 DEF WifiDisconnect
  <2> QED
    BY <2>1, <2>2, <2>3, <2>4
<1>6. CASE Associate \/ GetIp
  BY <1>1, <1>6 DEF Associate, GetIp
<1>7. CASE LinkLost
  BY <1>3, <1>4, <1>7 DEF LinkLost, Post, Left
<1>8. CASE ScanEnds
  <2>1. Event("scan_done", None) \in Events /\ Event("scan_done", None).type # "got_ip"
    BY EventIs
  <2>2. events' = Append(events, Event("scan_done", None)) /\ link' = link /\ Left(events)
    BY <1>8 DEF ScanEnds, Post, Left
  <2> QED
    BY <1>1, <1>2, <2>1, <2>2
<1> QED
  BY <1>5, <1>6, <1>7, <1>8 DEF Driver

LEMMA OneScanKept ==
  ASSUME LinkOK, OneScan, scanning' = scanning, EventMoves \/ Associate \/ GetIp \/ LinkLost,
         bits \cap {"scan", "afterscan"} \subseteq bits'
  PROVE  OneScan'
<1>1. PICK q : Left(q) /\ (events' = q \/ \E e \in Events : e.type # "scan_done" /\ events' = Append(q, e))
  BY MovesAdd
<1>2. (Pending("scan_done")' => Pending("scan_done")) /\ AtMostOne("scan_done")'
  BY <1>1, NoneAdded DEF OneScan
<1> QED
  BY <1>2 DEF OneScan, ScanInFlight

\* Taking the event of the only scan leaves none.
LEMMA ScanTaken ==
  ASSUME LinkOK, OneScan, Took, Head(events).type = "scan_done", scanning' = scanning, events' = Rest
  PROVE  OneScan'
<1>1. /\ Len(events) \in Nat \ {0} /\ Len(Rest) = Len(events) - 1 /\ events[1].type = "scan_done"
      /\ \A i \in 1 .. Len(events) - 1 : Rest[i] = events[i + 1]
  BY RestIsEvents DEF Took
<1>2. Pending("scan_done") /\ ~scanning
  <2>1. 1 \in 1 .. Len(events)
    BY <1>1
  <2> QED
    BY <1>1, <2>1 DEF Pending, OneScan
<1>3. ASSUME NEW i \in 1 .. Len(events'), events'[i].type = "scan_done" PROVE FALSE
  <2>1. i + 1 \in 1 .. Len(events) /\ 1 \in 1 .. Len(events) /\ i + 1 # 1 /\ i \in 1 .. Len(events) - 1
    BY <1>1
  <2>2. events[i + 1].type = "scan_done"
    BY <1>1, <1>3, <2>1
  <2> QED
    BY <1>1, <2>1, <2>2 DEF OneScan, AtMostOne
<1>4. ~Pending("scan_done")' /\ AtMostOne("scan_done")'
  BY <1>3 DEF Pending, AtMostOne
<1> QED
  BY <1>2, <1>4 DEF OneScan, ScanInFlight

LEMMA ScanEnded ==
  ASSUME LinkOK, OneScan, ScanEnds
  PROVE  OneScan'
<1>1. events' = Append(events, Event("scan_done", None)) /\ Event("scan_done", None) \in Events
  BY EventIs DEF ScanEnds, Post
<1>2. Len(events) \in Nat /\ Len(events') = Len(events) + 1 /\ \A i \in 1 .. Len(events) : events'[i] = events[i]
  BY <1>1, AddingOne DEF LinkOK
<1>3. scanning /\ ~Pending("scan_done") /\ scanning' = FALSE /\ bits' = bits
  BY DEF ScanEnds, OneScan
<1>4. \A i \in 1 .. Len(events') : events'[i].type = "scan_done" => i = Len(events) + 1
  BY <1>2, <1>3 DEF Pending
<1>5. AtMostOne("scan_done")'
  BY <1>4 DEF AtMostOne
<1> QED
  BY <1>3, <1>5 DEF OneScan, ScanInFlight

\* Without a user's orders every scan is one of those that connect.
LEMMA OwnSteps ==
  ASSUME TypeOK, OwnOrders, Requests \subseteq {"ap"}
  PROVE  /\ \A s : ~AddSsid(s) /\ ~RemoveSsid(s)
         /\ ~RequestScan /\ ~ForgetFromIsr /\ ~OrderForget /\ ~OrderConnectTo /\ ~ThreadConfig
         /\ OrderScan => bits' = bits \cup {"scan", "afterscan"}
<1>1. /\ \A s : ~AddSsid(s) /\ ~RemoveSsid(s)
      /\ ~RequestScan /\ ~ForgetFromIsr
  BY DEF AddSsid, RemoveSsid, RequestScan, ForgetFromIsr, Requested
<1>2. ASSUME NEW code, Orders(code) PROVE Head(queue) \in {ScanThenConnect, ConnectAny} /\ Head(queue).code = code
  <2>1. queue \in Seq(Messages) /\ queue # <<>>
    BY <1>2 DEF TypeOK, Orders
  <2>2. Head(queue) = queue[1] /\ 1 \in 1 .. Len(queue)
    BY <2>1
  <2> QED
    BY <1>2, <2>2 DEF OwnOrders, Orders
<1>3. /\ ScanThenConnect.code = "scan_connect" /\ ConnectAny.code = "connect"
      /\ ScanThenConnect.ssid = None /\ ConnectAny.ssid = None
  BY DEF ScanThenConnect, ConnectAny
<1>4. ~Orders("scan") /\ ~Orders("forget") /\ (Orders("connect") => Head(queue).ssid = None)
  BY <1>2, <1>3
<1>5. ~OrderForget /\ ~OrderConnectTo /\ ~ThreadConfig
  BY <1>4 DEF OrderForget, OrderConnectTo, ThreadConfig, OwnOrders
<1>6. OrderScan => bits' = bits \cup {"scan", "afterscan"}
  BY <1>4 DEF OrderScan
<1> QED
  BY <1>1, <1>5, <1>6

LEMMA OwnOrdersStep ==
  ASSUME TypeOK, OwnOrders, Requests \subseteq {"ap"}, Next
  PROVE  OwnOrders'
<1>1. MessagesOK
  BY TypeParts
<1>2. ASSUME UNCHANGED <<queue, outbox, thread>> PROVE OwnOrders'
  BY <1>2 DEF OwnOrders
<1>3. ASSUME NEW t \in Senders, NEW m \in {ScanThenConnect, ConnectAny, NoMessage},
             outbox' \in {outbox, [outbox EXCEPT ![t] = m]}
      PROVE  \A u \in Senders : outbox'[u] \in {ScanThenConnect, ConnectAny, NoMessage}
  BY <1>1, <1>3 DEF OwnOrders, MessagesOK
<1>4. CASE OnScanDone \/ TimerFires
  <2>1. "event" \in Senders /\ "timer" \in Senders
    BY DEF Senders
  <2>2. \E t \in Senders, m \in {ScanThenConnect, ConnectAny, NoMessage} : outbox' \in {outbox, [outbox EXCEPT ![t] = m]}
    BY <1>4, <2>1 DEF OnScanDone, TimerFires, RetryOrder
  <2>3. UNCHANGED <<queue, thread>>
    BY <1>4 DEF OnScanDone, TimerFires
  <2> QED
    BY <1>3, <2>2, <2>3 DEF OwnOrders
<1>5. ASSUME NEW t \in Senders, Send(t) PROVE OwnOrders'
  <2>1. outbox[t] \in {ScanThenConnect, ConnectAny} /\ outbox[t] \in Messages /\ queue \in Seq(Messages)
    BY <1>1, <1>5 DEF Send, OwnOrders, MessagesOK
  <2>2. queue' = Append(queue, outbox[t]) /\ outbox' = [outbox EXCEPT ![t] = NoMessage] /\ thread' = thread
    BY <1>5 DEF Send
  <2>3. /\ Len(queue) \in Nat /\ Len(queue') = Len(queue) + 1 /\ queue'[Len(queue) + 1] = outbox[t]
        /\ \A i \in 1 .. Len(queue) : queue'[i] = queue[i]
    BY <2>1, <2>2, AddingOne
  <2>4. \A i \in 1 .. Len(queue') : queue'[i] \in {ScanThenConnect, ConnectAny}
    BY <2>1, <2>3 DEF OwnOrders
  <2> QED
    BY <1>3, <2>2, <2>4 DEF OwnOrders
<1>6. CASE OrderScan \/ OrderConnectAny
  <2>1. \E code : Orders(code)
    BY <1>6 DEF OrderScan, OrderConnectAny
  <2>2. queue \in Seq(Messages) /\ queue # <<>> /\ queue' = Tail(queue)
    BY <1>1, <2>1 DEF Orders, MessagesOK
  <2>3. Len(queue) \in Nat /\ Len(queue') = Len(queue) - 1 /\ \A i \in 1 .. Len(queue) - 1 : queue'[i] = queue[i + 1]
    BY <2>2, TakingOne
  <2>4. \A i \in 1 .. Len(queue') : queue'[i] \in {ScanThenConnect, ConnectAny}
    BY <2>3 DEF OwnOrders
  <2>5. outbox' = outbox /\ (thread' = thread \/ thread' = [at |-> "connect", ssid |-> None])
    BY <1>6 DEF OrderScan, OrderConnectAny
  <2> QED
    BY <2>4, <2>5 DEF OwnOrders
<1>7. CASE ThreadConnect
  BY <1>7 DEF ThreadConnect, OwnOrders
<1> QED
  BY <1>2, <1>4, <1>5, <1>6, <1>7, OwnSteps, MessageSteps DEF Thread

LEMMA OneScanStep ==
  ASSUME TypeOK, OwnOrders, OneScan, Requests \subseteq {"ap"}, Next, EventMoves \/ Driver
  PROVE  OneScan'
<1>1. LinkOK
  BY TypeParts
<1>2. CASE ScanEnds
  BY <1>1, <1>2, ScanEnded
<1>3. CASE OnScanDone
  <2>1. Took /\ Head(events).type = "scan_done"
    BY <1>1, <1>3, RestIsEvents DEF OnScanDone, Takes, Took
  <2>2. scanning' = scanning /\ events' = Rest
    BY <1>3 DEF OnScanDone, WifiConnect
  <2> QED
    BY <1>1, <2>1, <2>2, ScanTaken
<1>4. CASE OrderScan
  <2>1. bits' = bits \cup {"scan", "afterscan"} /\ Left(events)
    BY <1>4, OwnSteps DEF Left
  <2>2. CASE "scan" \in bits
    <3>1. events' = events /\ scanning' = scanning
      BY <1>4, <2>2 DEF OrderScan
    <3> QED
      BY <2>1, <3>1 DEF OneScan, ScanInFlight, Pending, AtMostOne
  <2>3. CASE "scan" \notin bits
    <3>1. events' = events \/ events' = Append(events, Event("disconnected", target))
      BY <1>4, <2>3 DEF OrderScan, WifiDisconnect
    <3>2. Event("disconnected", target) \in Events /\ Event("disconnected", target).type # "scan_done"
      BY <1>1, EventIs DEF LinkOK
    <3>3. (Pending("scan_done")' => Pending("scan_done")) /\ (AtMostOne("scan_done") => AtMostOne("scan_done")')
      BY <1>1, <2>1, <3>1, <3>2, NoneAdded
    <3>4. ~Pending("scan_done")
      BY <2>3 DEF OneScan, ScanInFlight
    <3> QED
      BY <2>1, <3>3, <3>4 DEF OneScan
  <2> QED
    BY <2>2, <2>3
<1>5. ASSUME ~ScanEnds, ~OnScanDone, ~OrderScan PROVE OneScan'
  <2>1. ASSUME Associate \/ GetIp \/ LinkLost \/ OrderConnectAny \/ TimerFires
               \/ (\E enabled \in BOOLEAN : SetApEnabled(enabled)) \/ (\E t \in Senders : Send(t))
        PROVE  scanning' = scanning /\ bits' = bits
    BY <2>1 DEF Associate, GetIp, LinkLost, OrderConnectAny, TimerFires, SetApEnabled, Send, driver
  <2>2. ASSUME OnConnected \/ OnDisconnectedRetry \/ OnDisconnectedOnPurpose \/ OnDisconnectedScanning
               \/ OnDisconnectedAgain \/ OnDisconnectedNext \/ OnGotIp \/ ThreadConnect
        PROVE  scanning' = scanning /\ bits \cap {"scan", "afterscan"} \subseteq bits'
    BY <2>2 DEF OnConnected, OnDisconnectedRetry, OnDisconnectedOnPurpose, OnDisconnectedScanning, OnDisconnectedAgain,
       OnDisconnectedNext, OnGotIp, ThreadConnect
  <2>3. ASSUME OnDisconnectedLast PROVE scanning' = scanning /\ bits \cap {"scan", "afterscan"} \subseteq bits'
    BY <2>3 DEF OnDisconnectedLast, Cleared
  <2>4. scanning' = scanning /\ bits \cap {"scan", "afterscan"} \subseteq bits'
    BY <1>5, <2>1, <2>2, <2>3, OwnSteps DEF Next, Driver, EventLoop, Thread, Users
  <2>5. EventMoves \/ Associate \/ GetIp \/ LinkLost
    BY <1>5 DEF Driver
  <2> QED
    BY <1>1, <2>4, <2>5, OneScanKept
<1> QED
  BY <1>2, <1>3, <1>4, <1>5

LEMMA NotBothStep ==
  ASSUME TypeOK, OwnOrders, NotBoth, Requests \subseteq {"ap"}, Next
  PROVE  NotBoth'
<1>1. ASSUME Driver \/ OnDisconnectedScanning \/ OnDisconnectedAgain \/ OrderConnectAny \/ TimerFires
             \/ (\E enabled \in BOOLEAN : SetApEnabled(enabled)) \/ (\E t \in Senders : Send(t))
      PROVE  bits' = bits
  BY <1>1 DEF Driver, Associate, GetIp, LinkLost, ScanEnds, OnDisconnectedScanning, OnDisconnectedAgain, OrderConnectAny,
     TimerFires, SetApEnabled, Send, driver
<1>2. ASSUME OnConnected \/ OnDisconnectedRetry \/ OnScanDone \/ OnGotIp
      PROVE  bits' \subseteq bits \cup {"connected"}
  <2>1. ASSUME OnConnected \/ OnDisconnectedRetry PROVE bits' = bits \/ bits' = bits \ {"retry"}
    BY <2>1 DEF OnConnected, OnDisconnectedRetry
  <2>2. ASSUME OnScanDone PROVE bits' = bits \ {"scan"} \/ bits' = (bits \ {"scan"}) \ {"afterscan"}
    BY <2>2 DEF OnScanDone, ScanOver
  <2>3. ASSUME OnGotIp PROVE bits' = (bits \ {"connecting"}) \cup {"connected"}
    BY <2>3 DEF OnGotIp
  <2> QED
    BY <1>2, <2>1, <2>2, <2>3
<1>3. ASSUME OnDisconnectedOnPurpose PROVE "disconnected" \notin bits'
  <2>1. bits' = bits \ {"disconnected"} \/ bits' = (bits \ {"disconnected"}) \cup {"connecting"}
    BY <1>3 DEF OnDisconnectedOnPurpose
  <2> QED
    BY <2>1
<1>4. ASSUME OnDisconnectedNext PROVE "disconnected" \notin bits'
  <2>1. "disconnected" \notin bits
    BY <1>4 DEF OnDisconnectedNext, GiveUp, Unexpected
  <2>2. bits' = bits \cup {"connecting"} \/ bits' = bits \ {"connecting"}
    BY <1>4 DEF OnDisconnectedNext
  <2> QED
    BY <2>1, <2>2
<1>5. ASSUME OnDisconnectedLast PROVE "connecting" \notin bits'
  BY <1>5 DEF OnDisconnectedLast, Cleared
<1>6. ASSUME OrderScan PROVE bits' \subseteq bits \cup {"scan", "afterscan"}
  BY <1>6 DEF OrderScan
<1>7. ASSUME ThreadConnect PROVE bits' \subseteq bits \cup {"retry"}
  BY <1>7 DEF ThreadConnect
<1>8. bits' \subseteq bits \cup {"connected", "scan", "afterscan", "retry"} \/ "disconnected" \notin bits' \/ "connecting" \notin bits'
  BY <1>1, <1>2, <1>3, <1>4, <1>5, <1>6, <1>7, OwnSteps DEF Next, EventLoop, Thread, Users
<1> QED
  BY <1>8 DEF NotBoth

LEMMA SavedStays ==
  ASSUME OwnOrders, Requests \subseteq {"ap"}, TypeOK, Next
  PROVE  saved = <<>> => saved' = <<>>
<1>1. ASSUME saved = <<>>, NEW s, NEW state PROVE WithState(s, state) = <<>>
  BY <1>1 DEF WithState
<1>2. ASSUME OnDisconnectedNext \/ OnDisconnectedLast \/ OnGotIp
      PROVE  saved' = saved \/ \E s, state : saved' = WithState(s, state)
  BY <1>2 DEF OnDisconnectedNext, OnDisconnectedLast, OnGotIp, GiveUp
<1>3. ASSUME Driver \/ OnConnected \/ OnDisconnectedRetry \/ OnDisconnectedOnPurpose \/ OnDisconnectedScanning
             \/ OnDisconnectedAgain \/ OnScanDone \/ OrderScan \/ OrderConnectAny \/ ThreadConnect \/ TimerFires
             \/ (\E enabled \in BOOLEAN : SetApEnabled(enabled)) \/ (\E t \in Senders : Send(t))
      PROVE  saved' = saved
  BY <1>3 DEF Driver, Associate, GetIp, LinkLost, ScanEnds, OnConnected, OnDisconnectedRetry, OnDisconnectedOnPurpose,
     OnDisconnectedScanning, OnDisconnectedAgain, OnScanDone, OrderScan, OrderConnectAny, ThreadConnect, TimerFires,
     SetApEnabled, Send, nvs
<1> QED
  BY <1>1, <1>2, <1>3, OwnSteps DEF Next, EventLoop, Thread, Users

\* A step that leaves a link, the end of an attempt or a scan has done enough.
LEMMA Enough ==
  ASSUME link' # "down" \/ Pending("disconnected")' \/ ScanInFlight'
  PROVE  AttemptGoesOn' /\ SomebodyConnects'
  BY DEF AttemptGoesOn, SomebodyConnects, Underway

\* A step that takes no loss and no result of a scan keeps them on the way.
LEMMA StillPending ==
  ASSUME LinkOK, scanning' = scanning,
         events' = events \/ (Took /\ events' = Rest /\ Head(events).type \notin {"disconnected", "scan_done"})
  PROVE  (Pending("disconnected") => Pending("disconnected")') /\ (ScanInFlight => ScanInFlight')
<1>1. \A type \in {"disconnected", "scan_done"} : Pending(type) => Pending(type)'
  BY PendingKept
<1> QED
  BY <1>1 DEF ScanInFlight

LEMMA ConnectsUp == \A q, c : WifiConnect(q, c) => link' # "down"
  BY DEF WifiConnect

LEMMA EventLoopGoesOn ==
  ASSUME TypeOK, ScanBitMeansScan, Alone, EventLoop, saved = <<>> => saved' = <<>>
  PROVE  AttemptGoesOn' /\ SomebodyConnects'
<1>1. LinkOK /\ ChoiceOK
  BY TypeParts
<1>2. ASSUME NEW type, Takes(type) PROVE Took /\ Head(events).type = type
  BY <1>1, <1>2, RestIsEvents DEF Takes, Took
<1>3. CASE OnConnected
  <2>1. Took /\ Head(events).type = "connected"
    BY <1>2, <1>3 DEF OnConnected
  <2>2. CASE "retry" \in bits
    BY <1>3, <2>2, ConnectsUp, Enough DEF OnConnected
  <2>3. CASE "retry" \notin bits
    <3>1. events' = Rest /\ UNCHANGED <<bits, link, scanning, saved, timer, queue, thread, outbox>>
      BY <1>3, <2>3 DEF OnConnected, nvs
    <3>2. (Pending("disconnected") => Pending("disconnected")') /\ (ScanInFlight => ScanInFlight')
      BY <1>1, <2>1, <3>1, StillPending
    <3>3. (Underway => Underway') /\ (Untried => Untried')
      BY <1>3, <3>1, <3>2 DEF Underway, Untried, OnConnected
    <3> QED
      BY <3>1, <3>2, <3>3 DEF Alone, AttemptGoesOn, SomebodyConnects
  <2> QED
    BY <2>2, <2>3
<1>4. CASE OnDisconnectedRetry \/ OnDisconnectedAgain
  BY <1>4, ConnectsUp, Enough DEF OnDisconnectedRetry, OnDisconnectedAgain
<1>5. CASE OnDisconnectedOnPurpose
  <2>1. CASE \E q, c : WifiConnect(q, c)
    BY <2>1, ConnectsUp, Enough
  <2>2. CASE bits' = bits \ {"disconnected"} /\ timer'
    <3>1. "connecting" \notin bits'
      BY <1>5, <2>2 DEF OnDisconnectedOnPurpose, Alone, NotBoth
    <3> QED
      BY <2>2, <3>1 DEF AttemptGoesOn, SomebodyConnects, Underway
  <2> QED
    BY <1>5, <2>1, <2>2 DEF OnDisconnectedOnPurpose, StartTimer
<1>6. CASE OnDisconnectedScanning
  <2>1. Took /\ Head(events).type = "disconnected" /\ events' = Rest /\ scanning' = scanning
    BY <1>2, <1>6 DEF OnDisconnectedScanning
  <2>2. scanning \/ Pending("scan_done")
    BY <1>6 DEF OnDisconnectedScanning, ScanBitMeansScan
  <2>3. ScanInFlight'
    BY <1>1, <2>1, <2>2, PendingKept DEF ScanInFlight
  <2> QED
    BY <2>3, Enough
<1>7. CASE OnDisconnectedNext
  <2>1. CASE list = <<>>
    BY <1>7, <2>1, ConnectsUp, Enough DEF OnDisconnectedNext
  <2>2. CASE list # <<>>
    <3>1. Len(list) \in Nat /\ index \in Nat /\ index + 1 < Len(list)
      BY <1>1, <1>7, <2>2 DEF ChoiceOK, OnDisconnectedNext, MoreToTry
    <3>2. index' = index + 1 /\ cfg' = list[index + 1 + 1]
      BY <1>7, <2>2, <3>1 DEF OnDisconnectedNext, SelectStation, Choose
    <3>3. list' = list /\ bits' = bits \ {"connecting"}
      BY <1>7, <2>2 DEF OnDisconnectedNext
    <3>4. Untried'
      BY <3>1, <3>2, <3>3 DEF Untried
    <3> QED
      BY <3>3, <3>4 DEF AttemptGoesOn, SomebodyConnects
  <2> QED
    BY <2>1, <2>2
<1>8. CASE OnDisconnectedLast
  <2>1. timer' /\ "connecting" \notin bits'
    BY <1>8 DEF OnDisconnectedLast, StartTimer, Cleared
  <2> QED
    BY <2>1 DEF AttemptGoesOn, SomebodyConnects, Underway
<1>9. CASE OnScanDone
  <2>1. CASE \E q, c : WifiConnect(q, c)
    BY <2>1, ConnectsUp, Enough
  <2>2. CASE bits \cap {"connected", "connecting"} = {}
    <3>1. Took /\ Head(events).type = "scan_done"
      BY <1>2, <1>9 DEF OnScanDone
    <3>2. Pending("scan_done")
      <4>1. Len(events) \in Nat \ {0} /\ Head(events) = events[1]
        BY <1>1, <3>1, RestIsEvents DEF Took
      <4> QED
        BY <3>1, <4>1 DEF Pending
    <3>3. "afterscan" \in bits
      BY <3>2 DEF Alone, OneScan, ScanInFlight
    <3>4. "connecting" \notin bits' /\ outbox' = [outbox EXCEPT !["event"] = ConnectAny]
      BY <1>9, <2>2, <3>3 DEF OnScanDone, ScanOver
    <3>5. outbox'["event"] # NoMessage /\ "event" \in Senders
      <4>1. ConnectAny # NoMessage
        BY DEF ConnectAny, NoMessage
      <4>2. outbox \in [Senders -> Messages] /\ "event" \in Senders
        BY DEF TypeOK, Senders
      <4> QED
        BY <3>4, <4>1, <4>2
    <3> QED
      BY <3>4, <3>5 DEF AttemptGoesOn, SomebodyConnects, Underway
  <2> QED
    BY <1>9, <2>1, <2>2 DEF OnScanDone
<1>10. CASE OnGotIp
  <2>1. Took /\ Head(events).type = "got_ip"
    BY <1>2, <1>10 DEF OnGotIp
  <2>2. events' = Rest /\ link' = link /\ scanning' = scanning
    BY <1>10 DEF OnGotIp
  <2>3. CASE link = "down"
    <3>1. 1 \in 1 .. Len(events) /\ events[1].type = "got_ip" /\ Len(events) \in Nat
      BY <1>1, <2>1, RestIsEvents DEF Took
    <3>2. PICK j \in 2 .. Len(events) : events[j].type = "disconnected"
      BY <2>3, <3>1 DEF Alone, LossFollows
    <3>3. Pending("disconnected")
      BY <3>1, <3>2 DEF Pending
    <3>4. Pending("disconnected")'
      BY <1>1, <2>1, <2>2, <3>3, StillPending
    <3> QED
      BY <3>4, Enough
  <2> QED
    BY <2>2, <2>3, Enough
<1> QED
  BY <1>3, <1>4, <1>5, <1>6, <1>7, <1>8, <1>9, <1>10 DEF EventLoop

LEMMA OthersGoOn ==
  ASSUME TypeOK, ScanBitMeansScan, Alone, Requests \subseteq {"ap"}, Next, ~EventLoop, saved = <<>> => saved' = <<>>
  PROVE  AttemptGoesOn' /\ SomebodyConnects'
<1>1. LinkOK
  BY TypeParts
<1>2. CASE Associate \/ GetIp
  BY <1>2, Enough DEF Associate, GetIp
<1>3. ASSUME NEW type, NEW s \in Ssids \cup {None}, Post(Event(type, s)), type \in {"disconnected", "scan_done"}
      PROVE  Pending(type)'
  <2>1. events' = Append(events, Event(type, s)) /\ Event(type, s) \in Events /\ Event(type, s).type = type
    BY <1>3, EventIs DEF Post
  <2>2. Len(events) \in Nat /\ Len(events') = Len(events) + 1 /\ events'[Len(events) + 1] = Event(type, s)
    BY <1>1, <2>1, AddingOne DEF LinkOK
  <2>3. Len(events) + 1 \in 1 .. Len(events') /\ events'[Len(events) + 1].type = type
    BY <2>1, <2>2
  <2> QED
    BY <2>3 DEF Pending
<1>4. CASE LinkLost
  BY <1>1, <1>3, <1>4, Enough DEF LinkLost, LinkOK
<1>5. CASE ScanEnds
  <2>1. Pending("scan_done")'
    BY <1>3, <1>5 DEF ScanEnds
  <2> QED
    BY <2>1, Enough DEF ScanInFlight
<1>6. ASSUME events' = events, scanning' = scanning
      PROVE  /\ Pending("disconnected") => Pending("disconnected")'
             /\ ScanInFlight => ScanInFlight'
  BY <1>1, <1>6, StillPending
<1>7. CASE OrderScan
  <2>1. CASE "scan" \in bits
    <3>1. events' = events /\ scanning' = scanning
      BY <1>7, <2>1 DEF OrderScan
    <3> QED
      BY <1>6, <2>1, <3>1, Enough DEF ScanBitMeansScan, ScanInFlight
  <2>2. CASE "scan" \notin bits
    BY <1>7, <2>2, Enough DEF OrderScan, ScanInFlight
  <2> QED
    BY <2>1, <2>2
<1>8. CASE OrderConnectAny
  <2>1. UNCHANGED <<bits, link, events, scanning>>
    BY <1>8 DEF OrderConnectAny
  <2>2. timer' = TRUE \/ thread' = [at |-> "connect", ssid |-> None]
    BY <1>8 DEF OrderConnectAny, StartTimer
  <2>3. timer' \/ thread'.at = "connect"
    BY <2>2
  <2> QED
    BY <1>6, <2>1, <2>3 DEF Alone, AttemptGoesOn, SomebodyConnects, Underway
<1>9. CASE ThreadConnect
  <2>1. CASE bits \cap {"scan", "connecting"} = {}
    BY <1>9, <2>1, ConnectsUp, Enough DEF ThreadConnect
  <2>2. CASE bits \cap {"scan", "connecting"} # {}
    <3>1. UNCHANGED <<link, events, scanning>>
      BY <1>9, <2>2 DEF ThreadConnect
    <3>2. "scan" \in bits => ScanInFlight
      BY DEF ScanBitMeansScan, ScanInFlight
    <3>3. link # "down" \/ Pending("disconnected") \/ ScanInFlight
      BY <2>2, <3>2 DEF Alone, AttemptGoesOn
    <3> QED
      BY <1>6, <3>1, <3>3, Enough
  <2> QED
    BY <2>1, <2>2
<1>10. CASE TimerFires
  <2>1. UNCHANGED <<bits, link, events, scanning, saved>>
    BY <1>10 DEF TimerFires, nvs, driver
  <2>2. AttemptGoesOn'
    BY <1>6, <2>1 DEF Alone, AttemptGoesOn
  <2>3. ASSUME saved # <<>> PROVE \E t \in Senders : outbox'[t] # NoMessage
    <3>1. outbox' = [outbox EXCEPT !["timer"] = ScanThenConnect]
      BY <1>10, <2>3 DEF TimerFires, RetryOrder
    <3>2. ScanThenConnect # NoMessage
      BY DEF ScanThenConnect, NoMessage
    <3>3. outbox \in [Senders -> Messages] /\ "timer" \in Senders
      BY DEF TypeOK, Senders
    <3> QED
      BY <3>1, <3>2, <3>3
  <2> QED
    BY <2>1, <2>2, <2>3 DEF SomebodyConnects, Underway
<1>11. ASSUME NEW enabled \in BOOLEAN, SetApEnabled(enabled) PROVE AttemptGoesOn' /\ SomebodyConnects'
  <2>1. UNCHANGED <<bits, link, events, scanning, saved, timer, queue, outbox, thread>>
    BY <1>11 DEF SetApEnabled, driver
  <2>2. (Underway => Underway') /\ (Untried => Untried')
    BY <1>6, <1>11, <2>1 DEF Underway, Untried, SetApEnabled, choice, driver
  <2> QED
    BY <1>6, <2>1, <2>2 DEF Alone, AttemptGoesOn, SomebodyConnects
<1>12. ASSUME NEW t \in Senders, Send(t) PROVE AttemptGoesOn' /\ SomebodyConnects'
  <2>1. UNCHANGED <<bits, link, events, scanning>>
    BY <1>12 DEF Send, driver
  <2>2. queue' # <<>>
    <3>1. queue' = Append(queue, outbox[t]) /\ queue \in Seq(Messages) /\ outbox[t] \in Messages
      BY <1>12 DEF Send, TypeOK
    <3>2. Len(queue) \in Nat /\ Len(queue') = Len(queue) + 1
      BY <3>1, AddingOne
    <3> QED
      BY <3>2
  <2> QED
    BY <1>6, <2>1, <2>2 DEF Alone, AttemptGoesOn, SomebodyConnects, Underway
<1> QED
  BY <1>2, <1>4, <1>5, <1>7, <1>8, <1>9, <1>10, <1>11, <1>12, OwnSteps DEF Next, Driver, Thread, Users, Alone

LEMMA AloneStep ==
  ASSUME TypeOK, TypeOK', ScanBitMeansScan, Alone, Requests \subseteq {"ap"}, Next
  PROVE  Alone'
<1>1. LinkOK /\ ChoiceOK'
  BY TypeParts DEF TypeOK, ChoiceOK
<1>2. EventMoves \/ Driver
  BY <1>1, EventLoopMoves, OtherMoves DEF Next
<1>3. OwnOrders' /\ NotBoth' /\ (saved = <<>> => saved' = <<>>)
  BY OwnOrdersStep, NotBothStep, SavedStays DEF Alone
<1>4. OneScan' /\ LossFollows'
  BY <1>1, <1>2, OneScanStep, LossStep DEF Alone
<1>5. AttemptGoesOn' /\ SomebodyConnects'
  BY <1>3, EventLoopGoesOn, OthersGoOn
<1> QED
  BY <1>3, <1>4, <1>5 DEF Alone

\* With any number of candidates, and no user but one who switches the access point, a
\* device with a saved station comes to rest without a connection, an attempt or the timer
\* in one way only: line 775 selected the next candidate and did not connect to it.
THEOREM OnlyFailoverLeavesBehind ==
  ASSUME Requests \subseteq {"ap"}
  PROVE  Spec => []OnlyFailoverStrands
<1>1. Init => Alone
  <2> SUFFICES ASSUME Init PROVE Alone
    OBVIOUS
  <2>1. events = <<>> /\ bits = {} /\ scanning = FALSE /\ link = "down" /\ thread.at = "wait"
    BY DEF Init
  <2>2. queue = <<ScanThenConnect>> /\ \A t \in Senders : outbox[t] = NoMessage
    BY DEF Init
  <2>3. OwnOrders
    BY <2>1, <2>2 DEF OwnOrders
  <2>4. OneScan /\ LossFollows
    BY <2>1 DEF OneScan, LossFollows, ScanInFlight, Pending, AtMostOne
  <2>5. NotBoth /\ AttemptGoesOn
    BY <2>1 DEF NotBoth, AttemptGoesOn
  <2>6. SomebodyConnects
    BY <2>2 DEF SomebodyConnects, Underway
  <2> QED
    BY <2>3, <2>4, <2>5, <2>6 DEF Alone
<1>2. TypeOK /\ TypeOK' /\ ScanBitMeansScan /\ Alone /\ [Next]_vars => Alone'
  <2>1. Alone /\ UNCHANGED vars => Alone'
    BY DEF Alone, OwnOrders, OneScan, ScanInFlight, AtMostOne, Pending, LossFollows, NotBoth, AttemptGoesOn,
       SomebodyConnects, Underway, Untried, vars, nvs, choice, driver
  <2> QED
    BY <2>1, AloneStep
<1>3. Alone => OnlyFailoverStrands
  <2> SUFFICES ASSUME Alone, Quiet, link = "down", saved # <<>> PROVE timer \/ Untried
    BY DEF OnlyFailoverStrands
  <2>1. ~Pending("disconnected") /\ ~ScanInFlight
    BY DEF Quiet, Pending, ScanInFlight
  <2> QED
    BY <2>1 DEF Alone, SomebodyConnects, Underway, Quiet
<1> QED
  BY <1>1, <1>2, <1>3, TypeCorrect, ScanBitStandsForScan, PTL DEF Spec
=============================================================================
