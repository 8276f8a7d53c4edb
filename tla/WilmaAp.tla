------------------------------ MODULE WilmaAp ------------------------------
(***************************************************************************)
(* The device's own access point: its name, password and switch in NVS     *)
(* (components/wilma/wilma.c) and the requests that change and show them   *)
(* (main/wilma_cgi.c).                                                     *)
(*                                                                         *)
(* wifi_configure_softap reads NVS and sets up the driver in steps.  The   *)
(* web server's task, the event task and the manager's thread all run it,  *)
(* and nothing keeps one out while another is in the middle.  When they    *)
(* run it, and when the bits change that it asks for, is the subject of    *)
(* Wilma: here they may at any time.                                       *)
(*                                                                         *)
(* NVS counts the zero at the end of a string: a name of 32 bytes has      *)
(* length 33, which wifi_configure_softap takes for too long, and a        *)
(* password of 64 has 65.                                                  *)
(***************************************************************************)
EXTENDS Naturals

CONSTANTS
  Names, LongNames,          \* names of at most 32 bytes; those of 32
  Passwords, LongPasswords,  \* passwords of at most 64 bytes; those of 64
  ShortPasswords,            \* passwords the driver refuses, of 1 to 7 bytes
  Nameless,                  \* the empty name
  Absent,                    \* a key that is not in NVS
  DefaultName,               \* wilma_update_wifi_ssid
  DefaultPassword,           \* CONFIG_WILMA_AP_PASSWORD
  MaxCalls,                  \* bound: requests and calls of wifi_configure_softap
  MaxFails                   \* bound: writes that NVS has no room for

Tasks == {"httpd", "event", "wilma"}
Wishes == [name : Names \cup {Nameless}, password : Passwords, enabled : BOOLEAN]

ASSUMPTION WilmaApAssumption ==
  /\ LongNames \subseteq Names /\ Nameless \notin Names /\ Absent \notin Names \cup Passwords
  /\ DefaultPassword \in Passwords \ (LongPasswords \cup ShortPasswords)
  /\ LongPasswords \cup ShortPasswords \subseteq Passwords
  /\ {MaxCalls, MaxFails} \subseteq Nat

VARIABLES
  nvs,       \* AP_SSID_KEY, AP_PASSWORD_KEY and AP_ENABLED_KEY
  busy,      \* CONNECTING or CONNECTED is set
  mode,      \* the driver's mode
  ap,        \* the driver's access point: name, whether a zero is part of it, password
  task,      \* where each task is, with the configuration it has put together
  wish,      \* the request that the web server's task is storing
  started,   \* the manager's thread has called esp_wifi_start
  panicked,  \* ESP_ERROR_CHECK failed
  calls, fails,
  met,       \* two tasks have been at it at the same time, and none alone since
  asked      \* the last request, unless something else has changed NVS since

vars == <<nvs, busy, mode, ap, task, wish, started, panicked, calls, fails, met, asked>>

NoWish == [name |-> Absent]
Idle == [at |-> "idle"]
Busy == {t \in Tasks : task[t] # Idle}
Quiet == started /\ Busy = {}

Boot == [t \in Tasks |-> IF t = "wilma" THEN [at |-> "decide", force |-> FALSE] ELSE Idle]
Init ==
  /\ nvs = [name |-> Absent, password |-> Absent, enabled |-> Absent]
  /\ mode = "sta" /\ ap = [name |-> Nameless, zero |-> FALSE, password |-> DefaultPassword]
  /\ busy = FALSE /\ task = Boot /\ started = FALSE /\ panicked = FALSE
  /\ wish = NoWish /\ asked = NoWish /\ met = FALSE /\ calls = 0 /\ fails = 0

At(t, step) == task[t].at = step /\ ~panicked
Goes(t, step) == task' = [task EXCEPT ![t].at = step]
Driver == <<mode, ap>>
Ghosts == <<calls, met, asked>>

\* A task begins: alone, or while another is in the middle.
Begin(t, where) ==
  /\ started /\ ~panicked /\ task[t] = Idle
  /\ calls < MaxCalls /\ calls' = calls + 1
  /\ task' = [task EXCEPT ![t] = where]
Alone == Busy = {}
-----------------------------------------------------------------------------
\* wilma_cgi_ap_configure with a name, or with the header that disables and perhaps a
\* name.  Without a password the access point is open.
WebAsks(w) ==
  /\ Begin("httpd", [at |-> "put name"]) /\ met' = ~Alone
  /\ wish' = w /\ asked' = IF Alone THEN w ELSE NoWish
  /\ UNCHANGED <<nvs, busy, Driver, started, panicked, fails>>

\* nvs_set_str and nvs_set_u8: a failure is only logged.
Stores(key, value) ==
  \/ nvs' = [nvs EXCEPT ![key] = value] /\ UNCHANGED <<fails, asked>>
  \/ fails < MaxFails /\ fails' = fails + 1 /\ asked' = NoWish /\ UNCHANGED nvs

\* cfg_ap_set_ssid, where no name erases both keys, and cfg_ap_set_password.
WebStoresName ==
  /\ At("httpd", "put name")
  /\ IF wish.name = Nameless
     THEN /\ nvs' = [nvs EXCEPT !.name = Absent] /\ Goes("httpd", "drop")
          /\ UNCHANGED <<fails, asked>>
     ELSE Stores("name", wish.name) /\ Goes("httpd", "put password")
  /\ UNCHANGED <<busy, Driver, wish, started, panicked, calls, met>>
WebErases ==
  /\ At("httpd", "drop")
  /\ nvs' = [nvs EXCEPT !.password = Absent] /\ Goes("httpd", "put password")
  /\ UNCHANGED <<busy, Driver, wish, started, panicked, fails, Ghosts>>
WebStoresPassword ==
  /\ At("httpd", "put password")
  /\ Stores("password", wish.password) /\ Goes("httpd", "put enabled")
  /\ UNCHANGED <<busy, Driver, wish, started, panicked, calls, met>>

\* Mutant: the switch is stored and the access point is not set up again.
StoresOnly == task' = [task EXCEPT !["httpd"] = Idle]
ThenConfigures == task' = [task EXCEPT !["httpd"] = [at |-> "decide", force |-> FALSE]]
WebStoresEnabled ==
  /\ At("httpd", "put enabled")
  /\ Stores("enabled", wish.enabled) /\ ThenConfigures /\ wish' = NoWish
  /\ UNCHANGED <<busy, Driver, started, panicked, calls, met>>

\* wilma_cgi_ap_config_json: wilma_ap_ssid erases a name that is too long.
WebShows ==
  /\ nvs.name \in LongNames
  /\ Begin("httpd", [at |-> "show"]) /\ met' = (met \/ ~Alone)
  /\ nvs' = [nvs EXCEPT !.name = Absent]
  /\ asked' = IF Alone THEN asked ELSE NoWish
  /\ UNCHANGED <<busy, Driver, wish, started, panicked, fails>>
WebShown ==
  /\ At("httpd", "show")
  /\ nvs' = [nvs EXCEPT !.password = Absent] /\ task' = [task EXCEPT !["httpd"] = Idle]
  /\ UNCHANGED <<busy, Driver, wish, started, panicked, fails, Ghosts>>
-----------------------------------------------------------------------------
\* The thread takes FORGET_CONFIG: nvs_erase_all, then the access point is forced on.
Forget ==
  /\ Begin("wilma", [at |-> "decide", force |-> TRUE]) /\ met' = ~Alone
  /\ nvs' = [name |-> Absent, password |-> Absent, enabled |-> Absent] /\ asked' = NoWish
  /\ UNCHANGED <<busy, Driver, wish, started, panicked, fails>>

\* Any of the tasks calls wifi_configure_softap.
Configure(t, force) ==
  /\ Begin(t, [at |-> "decide", force |-> force]) /\ met' = ~Alone
  /\ asked' = IF Alone THEN asked ELSE NoWish
  /\ UNCHANGED <<nvs, busy, Driver, wish, started, panicked, fails>>

cfg_ap_enabled == nvs.enabled # FALSE
Decide(t) ==
  /\ At(t, "decide")
  /\ Goes(t, IF ~task[t].force /\ ~cfg_ap_enabled /\ busy THEN "off" ELSE "on")
  /\ UNCHANGED <<nvs, busy, Driver, wish, started, panicked, fails, Ghosts>>
TurnOff(t) ==
  /\ At(t, "off")
  /\ mode' = "sta" /\ task' = [task EXCEPT ![t] = Idle] /\ started' = TRUE
  /\ UNCHANGED <<nvs, busy, ap, wish, panicked, fails, Ghosts>>
\* Mutant: the mode is left alone.
StaysOff == UNCHANGED mode
SetsMode == mode' = "apsta"
TurnOn(t) ==
  /\ At(t, "on")
  /\ SetsMode /\ Goes(t, "ssid")
  /\ UNCHANGED <<nvs, busy, ap, wish, started, panicked, fails, Ghosts>>

\* cfg_ap_fill_ssid and cfg_ap_fill_password.  Reading a length and then the string is
\* one step; ssid_len counts the zero of a stored name.
FillSsid(t) ==
  /\ At(t, "ssid")
  /\ LET stored == nvs.name \in Names \ LongNames
     IN  task' = [task EXCEPT ![t] = [at |-> IF nvs.name \in LongNames THEN "erase" ELSE "password",
                                      name |-> IF stored THEN nvs.name ELSE DefaultName,
                                      zero |-> stored]]
  /\ nvs' = IF nvs.name \in LongNames THEN [nvs EXCEPT !.name = Absent] ELSE nvs
  /\ UNCHANGED <<busy, Driver, wish, started, panicked, fails, Ghosts>>
EraseKey(t) ==
  /\ At(t, "erase")
  /\ nvs' = [nvs EXCEPT !.password = Absent] /\ Goes(t, "password")
  /\ UNCHANGED <<busy, Driver, wish, started, panicked, fails, Ghosts>>
UsedPassword == IF nvs.password \in {Absent} \cup LongPasswords THEN DefaultPassword ELSE nvs.password
FillPassword(t) ==
  /\ At(t, "password")
  /\ task' = [task EXCEPT ![t] = [at |-> "set", name |-> @.name, zero |-> @.zero,
                                  password |-> UsedPassword]]
  /\ UNCHANGED <<nvs, busy, Driver, wish, started, panicked, fails, Ghosts>>

\* esp_wifi_set_config fails while the access point is off, and for a short password.
SetConfig(t) ==
  /\ At(t, "set")
  /\ IF mode = "apsta" /\ task[t].password \notin ShortPasswords
     THEN /\ ap' = [name |-> task[t].name, zero |-> task[t].zero, password |-> task[t].password]
          /\ task' = [task EXCEPT ![t] = Idle] /\ started' = TRUE
          /\ UNCHANGED panicked
     ELSE panicked' = TRUE /\ UNCHANGED <<ap, task, started>>
  /\ UNCHANGED <<nvs, busy, mode, wish, fails, Ghosts>>
-----------------------------------------------------------------------------
\* Wilma: the station connects, or does not.
BitsChange ==
  /\ started /\ ~panicked /\ busy' = ~busy
  /\ UNCHANGED <<nvs, Driver, task, wish, started, panicked, fails, Ghosts>>

\* Power is lost, or a panic resets the board.  The driver's settings are in flash.
Reboot ==
  /\ busy' = FALSE /\ task' = Boot /\ started' = FALSE /\ panicked' = FALSE
  /\ wish' = NoWish /\ met' = FALSE
  /\ asked' = IF Quiet THEN asked ELSE NoWish
  /\ UNCHANGED <<nvs, Driver, calls, fails>>

Softap(t) ==
  Decide(t) \/ TurnOff(t) \/ TurnOn(t) \/ FillSsid(t) \/ EraseKey(t) \/ FillPassword(t) \/ SetConfig(t)
Web ==
  \/ \E w \in Wishes : WebAsks(w)
  \/ WebStoresName \/ WebErases \/ WebStoresPassword \/ WebStoresEnabled
  \/ WebShows \/ WebShown
Next ==
  \/ Web \/ Forget
  \/ \E t \in Tasks : Softap(t) \/ \E force \in BOOLEAN : Configure(t, force)
  \/ BitsChange \/ Reboot

Spec == Init /\ [][Next]_vars
-----------------------------------------------------------------------------
\* When no task is at it, the access point is on unless it was disabled, it has the name
\* and password that NVS holds, or the defaults, and NVS holds what was asked for last;
\* a name that is too long takes its password with it.  Requests that met another
\* task's call of wifi_configure_softap are the exception, until it is called again.
WebName(w) == IF w.name = Nameless THEN Absent ELSE w.name
Kept(w) ==
  /\ nvs.enabled = w.enabled
  /\ \/ nvs.name = WebName(w) /\ nvs.password = w.password
     \/ w.name \in LongNames /\ nvs.name = Absent /\ nvs.password = Absent
SettlesAsAsked ==
  Quiet /\ ~met =>
    /\ mode = "sta" => nvs.enabled = FALSE
    /\ mode = "apsta" =>
         /\ ap.name = (IF nvs.name = Absent THEN DefaultName ELSE nvs.name)
         /\ nvs.password \in Passwords \ LongPasswords => ap.password = nvs.password
         /\ nvs.password = Absent => ap.password = DefaultPassword
    /\ asked # NoWish => Kept(asked)

\* Setting up the access point fails, which resets the board, only if two tasks did it at
\* the same time or the password is one that the driver refuses: one task alone sets
\* the mode that the configuration needs.
PanicNeedsTwo == panicked => met \/ nvs.password \in ShortPasswords
=============================================================================
