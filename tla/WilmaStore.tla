----------------------------- MODULE WilmaStore -----------------------------
(***************************************************************************)
(* The stations of components/wilma/wilma.c: the blob of known stations in *)
(* NVS, the list of visible access points, and WILMA_CONNECTION_LIST, the  *)
(* candidates to connect to.                                               *)
(*                                                                         *)
(* Three tasks use them.  The web server's adds and removes stations and   *)
(* shows the access points; the event task records how connecting went and *)
(* takes over the results of a scan; the manager's thread connects and     *)
(* forgets.  The first two read all of the blob, change their copy and     *)
(* write it all back, the third erases it, and nothing keeps one of them   *)
(* from the others.  The visible access points are guarded by              *)
(* WILMA_JSON_MUTEX, the candidates by nothing: all three tasks read them, *)
(* and two of them write.                                                  *)
(*                                                                         *)
(* Names are numbers in the order of strcmp.  When to scan and to connect  *)
(* is the subject of Wilma.                                                *)
(***************************************************************************)
EXTENDS Integers, FiniteSets, SequencesExt

CONSTANTS
  Ssids, Passwords,
  Cut,           \* Cut[p]: the password p as line 341 stores it
  Scans,         \* the records a scan may give, as esp_wifi_scan_get_ap_records returns them
  MaxAps,        \* MAX_SCAN_RESULTS
  MaxCandidates, \* WILMA_MAX_CANDIDATE_STATIONS
  MaxRequests,   \* bound: requests to the web server, and to forget everything
  MaxEvents,     \* bound: events of the WiFi driver
  MaxFails       \* bound: failures of malloc, NVS reads and the driver's scan results

Empty == 0     \* a name of zeroes: a hidden network, or a cleared record
States == {"new", "ok", "auth_failure"}
Stations == [ssid : Ssids, password : Passwords, state : States]
Records == [ssid : Ssids \cup {Empty}, auth : {"open", "psk"}, rssi : Nat]

ASSUMPTION WilmaStoreAssumption ==
  /\ Ssids \subseteq Nat \ {Empty}
  /\ Cut \in [Passwords -> Passwords]
  /\ Scans \subseteq Seq(Records)
  /\ {MaxAps, MaxCandidates} \subseteq Nat \ {0} /\ {MaxRequests, MaxEvents, MaxFails} \subseteq Nat

VARIABLES
  store,     \* the blob, <<>>: the key is absent
  visible,   \* WILMA_VISIBLE_APS, each with the number of the scan it is from
  found,     \* WILMA_VISIBLE_APS_COUNT
  list,      \* WILMA_CONNECTION_LIST
  count,     \* WILMA_CONNECTION_LIST_COUNT
  index,     \* WILMA_CONNECTION_INDEX, counted from 1
  cfg,       \* the driver's station configuration
  mutex,     \* who holds WILMA_JSON_MUTEX
  web,       \* the web server's task: where it is, for what, and its copy of the blob
  event,     \* the event task, likewise
  thread,    \* the manager's thread, likewise
  orders,    \* orders to connect that the thread has not taken
  shown,     \* the access points in the answer the web server is sending
  requests, events, fails,
  given,     \* the pairs of name and password that add was given
  met        \* a task read or wrote the candidates while another's use of them,
             \* which it can disturb or be disturbed by, was under way

aps == <<visible, found>>
candidates == <<list, count, index, met>>
bounds == <<requests, events, fails>>
vars == <<store, aps, candidates, cfg, mutex, web, event, thread, orders, shown, bounds, given>>

Idle == [at |-> "idle"]
Station(s, p) == [ssid |-> s, password |-> p]
Entry(s, p) == [ssid |-> s, password |-> p, state |-> "new"]
NoStation == [ssid |-> Empty]

Ram ==
  /\ visible = [i \in 1..MaxAps |-> [ssid |-> Empty, scan |-> 0]] /\ found = 0
  /\ list = [i \in 1..MaxCandidates |-> NoStation] /\ count = 0 /\ index = 1
  /\ mutex = "free" /\ web = Idle /\ event = Idle /\ thread = Idle /\ orders = <<>> /\ shown = <<>>
Init ==
  /\ store = <<>> /\ Ram /\ cfg = NoStation
  /\ requests = 0 /\ events = 0 /\ fails = 0 /\ given = {} /\ met = FALSE
-----------------------------------------------------------------------------
\* get_saved_stations gives a copy of the blob, or NULL, here <<>>: there is no blob,
\* or memory or the read failed.
Fails == fails < MaxFails /\ fails' = fails + 1
Reads(copy) == \/ copy = store /\ UNCHANGED fails
               \/ copy = <<>> /\ store # <<>> /\ Fails

\* The first entry with the name s.
Holds(copy, s) == \E i \in DOMAIN copy : copy[i].ssid = s
At(copy, s) == CHOOSE i \in DOMAIN copy : copy[i].ssid = s /\ \A j \in 1..i - 1 : copy[j].ssid # s

\* connect_to_station_index, which every task calls: it copies the name and then the
\* password of a candidate, found by the index that all of them share.  Others tells
\* where the other tasks are.
Writing == {"fill", "clear"}
Looped(i) == IF i <= count THEN i ELSE 1
Named(i) == IF count = 0 THEN Idle ELSE [at |-> "password", ssid |-> list[Looped(i)].ssid]
Indexes(i, others) ==
  /\ index' = IF count = 0 THEN index ELSE Looped(i)
  /\ met' = (met \/ others \cap Writing # {} \/ ("password" \in others /\ index' # index))
Configures(ssid, others) ==
  /\ cfg' = [list[index] EXCEPT !.ssid = ssid]
  /\ met' = (met \/ others \cap Writing # {})
Rewrites(others) == met' = (met \/ others \cap (Writing \cup {"password"}) # {})
-----------------------------------------------------------------------------
\* The web server's task: cgi_connect_json_add and wilma_add_ssid.
WebRequest == web = Idle /\ requests < MaxRequests /\ requests' = requests + 1

WebAdds(s, p) ==
  /\ WebRequest
  /\ \E copy \in {store, <<>>} :
       Reads(copy) /\ web' = [at |-> "add", copy |-> copy, ssid |-> s, password |-> p]
  /\ given' = given \cup {Station(s, p), Station(s, Cut[p])}
  /\ UNCHANGED <<store, aps, candidates, cfg, mutex, event, thread, orders, shown, events>>

\* Without a blob: the blob gets one entry, with the password cut to the length of a
\* name, and the head of the candidates is to be tried.
AddFirst ==
  /\ web.copy = <<>>
  /\ store' = <<Entry(web.ssid, Cut[web.password])>>
  /\ web' = [at |-> "connect"]
  /\ UNCHANGED <<orders, fails>>
AddAgain ==
  /\ Holds(web.copy, web.ssid)
  /\ store' = [web.copy EXCEPT ![At(web.copy, web.ssid)] = Entry(web.ssid, web.password)]
  /\ web' = Idle
  /\ orders' = Append(orders, Station(web.ssid, web.password))
  /\ UNCHANGED fails
\* Mutant: a name that is stored already is not found.
AddTwice ==
  /\ web.copy # <<>>
  /\ store' = Append(web.copy, Entry(web.ssid, web.password)) /\ web' = Idle
  /\ orders' = Append(orders, Station(web.ssid, web.password))
  /\ UNCHANGED fails
\* realloc may fail, and then nothing is stored.
AddNew ==
  /\ web.copy # <<>> /\ ~Holds(web.copy, web.ssid)
  /\ \/ /\ store' = Append(web.copy, Entry(web.ssid, web.password))
        /\ orders' = Append(orders, Station(web.ssid, web.password))
        /\ UNCHANGED fails
     \/ Fails /\ UNCHANGED <<store, orders>>
  /\ web' = Idle
WebAddWrites ==
  /\ web.at = "add"
  /\ AddFirst \/ AddAgain \/ AddNew
  /\ UNCHANGED <<aps, candidates, cfg, mutex, event, thread, shown, requests, events, given>>

\* wilma_add_ssid then tries the head of the candidates.
WebConnects ==
  /\ web.at = "connect"
  /\ web' = Named(1) /\ Indexes(1, {event.at, thread.at})
  /\ UNCHANGED <<store, aps, list, count, cfg, mutex, event, thread, orders, shown, bounds, given>>
WebConnectsWith ==
  /\ web.at = "password" /\ web' = Idle
  /\ Configures(web.ssid, {event.at, thread.at})
  /\ UNCHANGED <<store, aps, list, count, index, mutex, event, thread, orders, shown, bounds, given>>

\* cgi_connect_json_remove and wilma_remove_ssid: the last entry takes the place of
\* the removed one.
\* Mutant: the last entry is cut off, whichever was to be removed.
CutLast(copy, i) == [j \in 1..Len(copy) - 1 |-> copy[j]]
SwapOut(copy, i) == [j \in 1..Len(copy) - 1 |-> copy[IF j = i THEN Len(copy) ELSE j]]

WebRemoves(s) ==
  /\ WebRequest
  /\ \E copy \in {store, <<>>} :
       /\ Reads(copy)
       /\ web' = IF Holds(copy, s) THEN [at |-> "remove", copy |-> copy, ssid |-> s] ELSE Idle
  /\ UNCHANGED <<store, aps, candidates, cfg, mutex, event, thread, orders, shown, events, given>>
\* nvs_erase_key of a blob that is gone ends in a panic.
WebRemoveWrites ==
  /\ web.at = "remove"
  /\ store' = SwapOut(web.copy, At(web.copy, web.ssid))
  /\ web' = IF Len(web.copy) = 1 /\ store = <<>> THEN [at |-> "panic"]
            ELSE IF cfg.ssid = web.ssid THEN [at |-> "forget"] ELSE Idle
  /\ UNCHANGED <<aps, candidates, cfg, mutex, event, thread, orders, shown, bounds, given>>

\* The station in use was removed: the candidates are cleared, first their number,
\* and so is the driver's configuration (clear_sta_config).
WebForgets ==
  /\ web.at = "forget"
  /\ count' = 0 /\ web' = [at |-> "clear"]
  /\ Rewrites({event.at, thread.at})
  /\ UNCHANGED <<store, aps, list, index, cfg, mutex, event, thread, orders, shown, bounds, given>>
WebClears ==
  /\ web.at = "clear" /\ web' = Idle
  /\ list' = [i \in DOMAIN list |-> NoStation] /\ cfg' = NoStation
  /\ Rewrites({event.at, thread.at})
  /\ UNCHANGED <<store, aps, count, index, mutex, event, thread, orders, shown, bounds, given>>

\* wilma_cgi_sta_scan_results_json and wilma_foreach_visible_ap: each access point is
\* sent by cgi_ap_json_cb.
WebShows ==
  /\ WebRequest
  /\ web' = [at |-> "lock"] /\ shown' = <<>>
  /\ UNCHANGED <<store, aps, candidates, cfg, mutex, event, thread, orders, events, fails, given>>
WebShowsNext ==
  /\ web.at = "show"
  /\ IF Len(shown) < found
     THEN shown' = Append(shown, visible[Len(shown) + 1]) /\ UNCHANGED <<mutex, web>>
     ELSE mutex' = "free" /\ web' = Idle /\ UNCHANGED shown
  /\ UNCHANGED <<store, aps, candidates, cfg, event, thread, orders, bounds, given>>

\* Mutant: the web server goes on without the mutex.
WebLocksNot ==
  /\ web.at = "lock"
  /\ web' = [at |-> "show"] /\ mutex' = "web"
  /\ UNCHANGED <<store, aps, candidates, cfg, event, thread, orders, shown, bounds, given>>
\* wilma_lock_json_buffer waits for a second.
WebLocks ==
  /\ web.at = "lock"
  /\ IF mutex = "free" THEN mutex' = "web" /\ web' = [at |-> "show"]
     ELSE web' = Idle /\ UNCHANGED mutex
  /\ UNCHANGED <<store, aps, candidates, cfg, event, thread, orders, shown, bounds, given>>
-----------------------------------------------------------------------------
\* The manager's thread: WM_ORDER_CONNECT_STA with a station.
ThreadConnects ==
  /\ thread = Idle /\ orders # <<>>
  /\ cfg' = Head(orders) /\ orders' = Tail(orders)
  /\ UNCHANGED <<store, aps, candidates, mutex, web, event, thread, shown, bounds, given>>

\* The order without a station, which the event task may have sent at any time.
ThreadConnectsAny ==
  /\ thread = Idle
  /\ thread' = Named(1) /\ Indexes(1, {web.at, event.at})
  /\ UNCHANGED <<store, aps, list, count, cfg, mutex, web, event, orders, shown, bounds, given>>
ThreadConnectsWith ==
  /\ thread.at = "password" /\ thread' = Idle
  /\ Configures(thread.ssid, {web.at, event.at})
  /\ UNCHANGED <<store, aps, list, count, index, mutex, web, event, orders, shown, bounds, given>>

\* WM_ORDER_FORGET_CONFIG, which wilma_forget_config_from_isr sends at any time: all of
\* NVS is erased, and then the driver's configuration is cleared.  The candidates stay.
ThreadForgets ==
  /\ thread = Idle /\ requests < MaxRequests /\ requests' = requests + 1
  /\ store' = <<>> /\ thread' = [at |-> "reset"]
  /\ UNCHANGED <<aps, candidates, cfg, mutex, web, event, orders, shown, events, fails, given>>
ThreadClears ==
  /\ thread.at = "reset" /\ thread' = Idle
  /\ cfg' = NoStation
  /\ UNCHANGED <<store, aps, candidates, mutex, web, event, orders, shown, bounds, given>>
-----------------------------------------------------------------------------
\* The event task: update_ssid_state, for the network that connected or refused.
DriverEvent == event = Idle /\ events < MaxEvents /\ events' = events + 1

\* After a refusal the event task goes on to the next candidate.
After(state) == IF state = "auth_failure" THEN [at |-> "next"] ELSE Idle
EventSetsState(s, state) ==
  /\ DriverEvent
  /\ \E copy \in {store, <<>>} :
       /\ Reads(copy)
       /\ event' = IF Holds(copy, s) /\ copy[At(copy, s)].state # state
                   THEN [at |-> "state", copy |-> copy, ssid |-> s, state |-> state]
                   ELSE After(state)
  /\ UNCHANGED <<store, aps, candidates, cfg, mutex, web, thread, orders, shown, requests, given>>
EventStateWrites ==
  /\ event.at = "state" /\ event' = After(event.state)
  /\ store' = [event.copy EXCEPT ![At(event.copy, event.ssid)].state = event.state]
  /\ UNCHANGED <<aps, candidates, cfg, mutex, web, thread, orders, shown, bounds, given>>

\* WIFI_EVENT_STA_DISCONNECTED: on purpose, or after the last attempt.
EventDisconnected ==
  /\ DriverEvent
  /\ event' = Named(1) /\ Indexes(1, {web.at, thread.at})
  /\ UNCHANGED <<store, aps, list, count, cfg, mutex, web, thread, orders, shown, requests, fails, given>>
EventFails ==
  /\ DriverEvent
  /\ event' = [at |-> "next"]
  /\ UNCHANGED <<store, aps, candidates, cfg, mutex, web, thread, orders, shown, requests, fails, given>>
\* The comparison at line 773 is of unsigned numbers: 0 - 1 is above every index.
EventMovesOn ==
  /\ event.at = "next"
  /\ \/ /\ count = 0 \/ index < count
        /\ event' = Named(index + 1) /\ Indexes(index + 1, {web.at, thread.at})
        /\ UNCHANGED cfg
     \/ /\ count # 0 /\ index >= count
        /\ event' = Idle /\ cfg' = NoStation
        /\ UNCHANGED <<index, met>>
  /\ UNCHANGED <<store, aps, list, count, mutex, web, thread, orders, shown, bounds, given>>
EventConnectsWith ==
  /\ event.at = "password" /\ event' = Idle
  /\ Configures(event.ssid, {web.at, thread.at})
  /\ UNCHANGED <<store, aps, list, count, index, mutex, web, thread, orders, shown, bounds, given>>

\* ap_filter_sort_unique.  Each record takes the strength of the later ones with its
\* name and authentication mode, which are cleared; what has no name is dropped.
SameAp(r, q) == r.ssid = q.ssid /\ r.auth = q.auth
Better(r, q) == r.rssi > q.rssi \/ (r.rssi = q.rssi /\ r.ssid < q.ssid)
\* Mutant: a record does not take the strength of a later one.
ClearRepeatsWeak(records, i) ==
  IF records[i].ssid = Empty THEN records
  ELSE [j \in DOMAIN records |-> IF j > i /\ SameAp(records[i], records[j])
                                 THEN [records[j] EXCEPT !.ssid = Empty] ELSE records[j]]
ClearRepeats(records, i) ==
  IF records[i].ssid = Empty THEN records
  ELSE LET same == {j \in i..Len(records) : SameAp(records[i], records[j])}
       IN  [j \in DOMAIN records |->
              IF j = i THEN [records[i] EXCEPT !.rssi = CHOOSE r \in {records[k].rssi : k \in same} :
                                                          \A k \in same : r >= records[k].rssi]
              ELSE IF j \in same THEN [records[j] EXCEPT !.ssid = Empty] ELSE records[j]]
\* qsort leaves records that ap_compare_rssi calls equal in some order.
FilterSortUnique(records) ==
  LET once == FoldLeft(ClearRepeats, records, [i \in 1..Len(records) - 1 |-> i])
      named == {i \in DOMAIN once : once[i].ssid # Empty}
      order == CHOOSE o \in SetToSeqs(named) : \A i, j \in DOMAIN o : i < j => ~Better(once[o[j]], once[o[i]])
  IN  [i \in DOMAIN order |-> once[order[i]]]

AtMostAps(raw) == SubSeq(raw, 1, IF Len(raw) > MaxAps THEN MaxAps ELSE Len(raw))

\* update_ssid_list: it waits a second for the mutex.
EventScanDone ==
  /\ DriverEvent
  /\ event' = [at |-> "lock"]
  /\ UNCHANGED <<store, aps, candidates, cfg, mutex, web, thread, orders, shown, requests, fails, given>>
EventLocks ==
  /\ event.at = "lock"
  /\ IF mutex = "free" THEN mutex' = "event" /\ event' = [at |-> "scan"]
     ELSE event' = Idle /\ UNCHANGED mutex
  /\ UNCHANGED <<store, aps, candidates, cfg, web, thread, orders, shown, bounds, given>>

\* Mutant: an empty scan returns without unlocking.
EmptyScanReturns(raw) ==
  /\ raw = <<>> /\ found' = 0 /\ UNCHANGED fails
  /\ event' = Idle
  /\ UNCHANGED <<count, met, mutex>>
\* Its failures and the empty scan, which all end at "exit".
ScanGivesNothing(raw) ==
  /\ \/ raw = <<>> /\ found' = 0 /\ UNCHANGED fails
     \/ Fails /\ found' \in {found, 0, Len(AtMostAps(raw))}
  /\ event' = Idle /\ mutex' = "free"
  /\ UNCHANGED <<count, met>>
\* A failed malloc of get_saved_stations leaves a count and no entries: the first
\* comparison reads through NULL.
ScanGives(raw) ==
  LET records == FilterSortUnique(AtMostAps(raw))
  IN  /\ raw # <<>>
      /\ found' = Len(records) /\ count' = 0
      /\ Rewrites({web.at, thread.at})
      /\ \/ \E copy \in {store, <<>>} :
              Reads(copy) /\ event' = [at |-> "fill", raw |-> raw, records |-> records, next |-> 1, copy |-> copy]
         \/ store # <<>> /\ records # <<>> /\ Fails /\ event' = [at |-> "panic"]
      /\ UNCHANGED mutex
EventTakesScan ==
  /\ event.at = "scan"
  /\ \E raw \in Scans : ScanGivesNothing(raw) \/ ScanGives(raw)
  /\ UNCHANGED <<store, visible, list, index, cfg, web, thread, orders, shown, requests, events, given>>

\* The loop over the records.  A visible station that is stored becomes a candidate,
\* while there is room.
\* Mutants: whether there is room is not asked; the password is the first station's.
ChosenAlways(s) == Holds(event.copy, s)
Chosen(s) == count < MaxCandidates /\ Holds(event.copy, s)
ListsFirst(s) ==
  /\ list' = [list EXCEPT ![count + 1] = Station(s, event.copy[1].password)]
  /\ count' = count + 1
Lists(s) ==
  /\ list' = [list EXCEPT ![count + 1] = Station(s, event.copy[At(event.copy, s)].password)]
  /\ count' = count + 1
EventFills ==
  /\ event.at = "fill"
  /\ IF event.next > Len(event.records)
     THEN event' = Idle /\ mutex' = "free" /\ UNCHANGED <<visible, list, count>>
     ELSE LET s == event.records[event.next].ssid
          IN  /\ visible' = [visible EXCEPT ![event.next] = [ssid |-> s, scan |-> events]]
              /\ IF Chosen(s) THEN Lists(s) ELSE UNCHANGED <<list, count>>
              /\ event' = [event EXCEPT !.next = @ + 1]
              /\ UNCHANGED mutex
  /\ Rewrites({web.at, thread.at})
  /\ UNCHANGED <<store, found, index, cfg, web, thread, orders, shown, bounds, given>>
-----------------------------------------------------------------------------
\* Power is lost, or a panic resets the board: NVS and the driver's configuration,
\* which it keeps in flash, remain.
Reboot ==
  /\ visible' = [i \in 1..MaxAps |-> [ssid |-> Empty, scan |-> 0]] /\ found' = 0
  /\ list' = [i \in 1..MaxCandidates |-> NoStation] /\ count' = 0 /\ index' = 1
  /\ mutex' = "free" /\ web' = Idle /\ event' = Idle /\ thread' = Idle /\ orders' = <<>> /\ shown' = <<>>
  /\ UNCHANGED <<store, cfg, bounds, given, met>>

Web ==
  \/ \E s \in Ssids : WebRemoves(s) \/ \E p \in Passwords : WebAdds(s, p)
  \/ WebAddWrites \/ WebConnects \/ WebConnectsWith
  \/ WebRemoveWrites \/ WebForgets \/ WebClears
  \/ WebShows \/ WebLocks \/ WebShowsNext
DriverEvents ==
  \/ \E s \in Ssids, state \in States \ {"new"} : EventSetsState(s, state)
  \/ EventStateWrites
  \/ EventDisconnected \/ EventFails \/ EventMovesOn \/ EventConnectsWith
  \/ EventScanDone \/ EventLocks \/ EventTakesScan \/ EventFills
Thread ==
  \/ ThreadConnects \/ ThreadConnectsAny \/ ThreadConnectsWith
  \/ ThreadForgets \/ ThreadClears

Runs == event.at # "panic" /\ web.at # "panic"
Next == (Runs /\ (Web \/ DriverEvents \/ Thread)) \/ Reboot

Spec == Init /\ [][Next]_vars
-----------------------------------------------------------------------------
TypeOK ==
  /\ store \in Seq(Stations)
  /\ DOMAIN visible = 1..MaxAps /\ found \in 0..MaxAps
  /\ DOMAIN list = 1..MaxCandidates /\ count \in 0..MaxCandidates /\ index \in 1..MaxCandidates
  /\ mutex \in {"free", "web", "event"}
  /\ web.at \in {"idle", "add", "connect", "password", "remove", "forget", "clear", "lock", "show", "panic"}
  /\ event.at \in {"idle", "state", "next", "password", "lock", "scan", "fill", "panic"}
  /\ thread.at \in {"idle", "password", "reset"}
  /\ requests \in 0..MaxRequests /\ events \in 0..MaxEvents /\ fails \in 0..MaxFails

\* No station is stored twice, although the web server's task and the event task
\* write back copies of the blob that may be out of date, the manager's thread may
\* have erased it meanwhile, and power may be lost at any step.
NamesOnce == \A i, j \in DOMAIN store : store[i].ssid = store[j].ssid => i = j

\* What a task writes keeps the promise of StationStore, whatever the other tasks did
\* since it read: the web server puts or drops one station, and the event task marks
\* one, of those the task itself read; the manager's thread forgets all.  A task whose
\* copy is still what the blob holds so takes a step of StationStore.
Store == INSTANCE StationStore WITH known <- ToSet(store)
WebPromise ==
  IF web.at = "add" THEN Store!Put(ToSet(web.copy), web.ssid) ELSE Store!Drop(ToSet(web.copy), web.ssid)
StorePromise ==
  IF thread' # thread THEN Store!Forget
  ELSE IF event' # event THEN Store!Mark(ToSet(event.copy), event.ssid)
  ELSE WebPromise
PromiseKept == Store!StoreInit /\ [][store' # store => StorePromise]_vars

\* The answer of the web server shows the access points of one scan, unless the driver
\* or memory failed.
ShowsOneScan == fails = 0 => \A i, j \in DOMAIN shown : shown[i].scan = shown[j].scan

\* The mutex is never left locked, whichever way update_ssid_list ends.
MutexHeldInside ==
  /\ mutex = "web" <=> web.at = "show"
  /\ mutex = "event" <=> event.at \in {"scan", "fill", "panic"}

\* The driver is only given a password with the name it was added for, and no
\* candidate is empty, as long as no two tasks ran into each other over the candidates.
CandidatesKnown ==
  ~met => /\ cfg \in given \cup {NoStation}
          /\ \A i \in 1..count : list[i] \in given

\* What the web server shows and the candidates are drawn from: each network that a
\* scan saw under its name appears once per authentication mode, with its best
\* strength, the strongest first.
ScanIsSorted ==
  event.at = "fill" =>
    LET got == event.records
        named == {r \in ToSet(AtMostAps(event.raw)) : r.ssid # Empty}
    IN  /\ ToSet(got) = {r \in named : \A q \in named : SameAp(r, q) => r.rssi >= q.rssi}
        /\ \A i, j \in DOMAIN got : i < j => ~SameAp(got[i], got[j]) /\ got[i].rssi >= got[j].rssi
=============================================================================
