--------------------------- MODULE WilmaApProofs ---------------------------
(***************************************************************************)
(* Theorems about WilmaAp.  What a task that is alone knows of NVS and of  *)
(* the driver at each step of wifi_configure_softap is still so at the     *)
(* next one, and at the end it is what was asked for.                      *)
(***************************************************************************)
EXTENDS WilmaAp, TLAPS

USE WilmaApAssumption

Early == {"decide", "off", "on", "ssid"}
WebSteps == {"put name", "drop", "put password", "put enabled", "show"}
Steps ==
  {Idle} \cup [at : WebSteps] \cup [at : Early, force : BOOLEAN]
         \cup [at : {"erase", "password"}, name : Names \cup {DefaultName}, zero : BOOLEAN]
         \cup [at : {"set"}, name : Names \cup {DefaultName}, zero : BOOLEAN, password : Passwords]
Types ==
  /\ nvs \in [name : Names \cup {Absent}, password : Passwords \cup {Absent}, enabled : BOOLEAN \cup {Absent}]
  /\ task \in [Tasks -> Steps] /\ mode \in {"sta", "apsta"}
  /\ ap \in [name : Names \cup {Nameless, DefaultName}, zero : BOOLEAN, password : Passwords]
  /\ {busy, started, panicked, met} \subseteq BOOLEAN
  /\ wish \in Wishes \cup {NoWish} /\ asked \in Wishes \cup {NoWish}
  /\ calls \in Nat /\ fails \in Nat

UsedName == IF nvs.name = Absent THEN DefaultName ELSE nvs.name

\* What holds when a task is done that was alone, ...
DriverFits ==
  /\ mode = "sta" => nvs.enabled = FALSE
  /\ mode = "apsta" => nvs.name \notin LongNames /\ ap.name = UsedName /\ ap.password = UsedPassword
Settled == DriverFits /\ (asked # NoWish => Kept(asked))

\* ... what a task that is alone has read or done, ...
DriverIsAt(t) ==
  LET step == task[t].at
  IN  /\ step = "off" => nvs.enabled = FALSE
      /\ step = "show" => mode = "sta" /\ nvs.enabled = FALSE
      /\ step \in {"ssid", "erase", "password", "set"} => mode = "apsta"
      /\ step = "erase" => nvs.name = Absent
      /\ step \in {"erase", "password", "set"} => nvs.name \notin LongNames /\ task[t].name = UsedName
      /\ step = "set" => task[t].password = UsedPassword

\* ... and how far the last request is stored, or a name that is too long erased.
WishIsAt(t) ==
  LET step == task[t].at
  IN  /\ step \in {"put name", "drop", "put password", "put enabled"} => wish = asked
      /\ step \in {"drop", "put password", "put enabled"} => nvs.name = WebName(asked)
      /\ step = "drop" => asked.name = Nameless
      /\ step = "put enabled" => nvs.password = asked.password
      /\ step \in {"show", "erase"} =>
           nvs.enabled = asked.enabled /\ asked.name \in LongNames /\ nvs.name = Absent
      /\ step \in {"decide", "off", "on", "ssid", "password", "set"} => Kept(asked)

Knows(t) == DriverIsAt(t) /\ (asked # NoWish => WishIsAt(t))

AloneKnows ==
  ~met => /\ Busy = {} => Settled
          /\ \A t \in Busy : Knows(t) /\ \A u \in Busy : u = t
\* A request that met another task's call is not the last request any more.
MetForgets == met => asked = NoWish

\* The request that is being stored is there.
PutSteps == {"put name", "drop", "put password", "put enabled"}
WishThere == task["httpd"].at \in PutSteps => wish \in Wishes

Core == Types /\ AloneKnows /\ MetForgets /\ PanicNeedsTwo
IInv == Core /\ WishThere
-----------------------------------------------------------------------------
(* Tasks and their steps.                                                  *)

LEMMA StepKinds ==
  ASSUME Types, NEW t \in Tasks
  PROVE  /\ task[t].at = "idle" <=> task[t] = Idle
         /\ task[t].at \in WebSteps => task[t] = [at |-> task[t].at]
         /\ task[t].at \in Early =>
              task[t].force \in BOOLEAN /\ task[t] = [at |-> task[t].at, force |-> task[t].force]
         /\ task[t].at \in {"erase", "password"} =>
              /\ task[t].name \in Names \cup {DefaultName} /\ task[t].zero \in BOOLEAN
              /\ task[t] = [at |-> task[t].at, name |-> task[t].name, zero |-> task[t].zero]
         /\ task[t].at = "set" =>
              task[t].name \in Names \cup {DefaultName} /\ task[t].zero \in BOOLEAN /\ task[t].password \in Passwords
<1>0. Idle.at = "idle"
  BY DEF Idle
<1>1. task[t] \in Steps
  BY DEF Types
<1>2. CASE task[t] = Idle
  BY <1>2 DEF Idle, Early, WebSteps
<1>3. CASE task[t] \in [at : WebSteps]
  <2>1. task[t].at \in WebSteps /\ task[t] = [at |-> task[t].at]
    BY <1>3
  <2>2. task[t].at # "idle" /\ task[t].at \notin Early \cup {"erase", "password", "set"}
    BY <2>1 DEF WebSteps, Early
  <2> QED
    BY <1>0, <2>1, <2>2
<1>4. CASE task[t] \in [at : Early, force : BOOLEAN]
  <2>1. task[t].at \in Early /\ task[t].force \in BOOLEAN /\ task[t] = [at |-> task[t].at, force |-> task[t].force]
    BY <1>4
  <2>2. task[t].at # "idle" /\ task[t].at \notin WebSteps \cup {"erase", "password", "set"}
    BY <2>1 DEF WebSteps, Early
  <2> QED
    BY <1>0, <2>1, <2>2
<1>5. CASE task[t] \in [at : {"erase", "password"}, name : Names \cup {DefaultName}, zero : BOOLEAN]
  <2>1. /\ task[t].at \in {"erase", "password"} /\ task[t].name \in Names \cup {DefaultName}
        /\ task[t].zero \in BOOLEAN
        /\ task[t] = [at |-> task[t].at, name |-> task[t].name, zero |-> task[t].zero]
    BY <1>5
  <2>2. task[t].at # "idle" /\ task[t].at \notin WebSteps \cup Early \cup {"set"}
    BY <2>1 DEF WebSteps, Early
  <2> QED
    BY <1>0, <2>1, <2>2
<1>6. CASE task[t] \in [at : {"set"}, name : Names \cup {DefaultName}, zero : BOOLEAN, password : Passwords]
  <2>1. /\ task[t].at = "set" /\ task[t].name \in Names \cup {DefaultName}
        /\ task[t].zero \in BOOLEAN /\ task[t].password \in Passwords
    BY <1>6
  <2>2. task[t].at # "idle" /\ task[t].at \notin WebSteps \cup Early \cup {"erase", "password"}
    BY <2>1 DEF WebSteps, Early
  <2> QED
    BY <1>0, <2>1, <2>2
<1> QED
  BY <1>1, <1>2, <1>3, <1>4, <1>5, <1>6 DEF Steps

\* Going on to another step of the same kind.
LEMMA GoesOn ==
  ASSUME Types, NEW t \in Tasks, NEW step, Goes(t, step)
  PROVE  /\ \A u \in Tasks : u # t => task'[u] = task[u]
         /\ task[t].at \in WebSteps => task'[t] = [at |-> step]
         /\ task[t].at \in Early => task'[t] = [at |-> step, force |-> task[t].force]
         /\ task[t].at \in {"erase", "password"} =>
              task'[t] = [at |-> step, name |-> task[t].name, zero |-> task[t].zero]
<1>1. task'[t] = [task[t] EXCEPT !.at = step] /\ \A u \in Tasks : u # t => task'[u] = task[u]
  BY DEF Goes, Types
<1>2. CASE task[t].at \in WebSteps
  <2>1. task[t] = [at |-> task[t].at]
    BY <1>2, StepKinds
  <2>2. [[at |-> task[t].at] EXCEPT !.at = step] = [at |-> step]
    OBVIOUS
  <2> QED
    BY <1>1, <1>2, <2>1, <2>2 DEF WebSteps, Early
<1>3. CASE task[t].at \in Early
  <2>1. task[t] = [at |-> task[t].at, force |-> task[t].force]
    BY <1>3, StepKinds
  <2>2. [[at |-> task[t].at, force |-> task[t].force] EXCEPT !.at = step] = [at |-> step, force |-> task[t].force]
    OBVIOUS
  <2> QED
    BY <1>1, <1>3, <2>1, <2>2 DEF WebSteps, Early
<1>4. CASE task[t].at \in {"erase", "password"}
  <2>1. task[t] = [at |-> task[t].at, name |-> task[t].name, zero |-> task[t].zero]
    BY <1>4, StepKinds
  <2>2. [[at |-> task[t].at, name |-> task[t].name, zero |-> task[t].zero] EXCEPT !.at = step]
          = [at |-> step, name |-> task[t].name, zero |-> task[t].zero]
    OBVIOUS
  <2> QED
    BY <1>1, <1>4, <2>1, <2>2 DEF WebSteps, Early
<1> QED
  BY <1>1, <1>2, <1>3, <1>4

\* A task takes a step: if it is alone, it stays alone.
LEMMA AloneStep ==
  ASSUME AloneKnows, MetForgets, NEW t \in Tasks, task[t] # Idle,
         met' = met, asked' \in {asked, NoWish}, \A u \in Tasks : u # t => task'[u] = task[u],
         Knows(t) => IF task'[t] = Idle THEN Settled' ELSE Knows(t)'
  PROVE  AloneKnows' /\ MetForgets'
<1>1. MetForgets'
  BY DEF MetForgets
<1>2. ASSUME ~met PROVE (Busy = {} => Settled)' /\ \A u \in Busy' : Knows(u)' /\ \A v \in Busy' : v = u
  <2>1. Busy = {t} /\ Knows(t)
    BY <1>2 DEF AloneKnows, Busy
  <2>2. \A u \in Tasks : u # t => task'[u] = Idle
    BY <2>1 DEF Busy
  <2>3. Busy' = IF task'[t] = Idle THEN {} ELSE {t}
    BY <2>2 DEF Busy
  <2>4. CASE task'[t] = Idle
    BY <2>1, <2>3, <2>4
  <2>5. CASE task'[t] # Idle
    BY <2>1, <2>3, <2>5
  <2> QED
    BY <2>4, <2>5
<1> QED
  BY <1>1, <1>2 DEF AloneKnows

\* A task begins.
LEMMA AloneBegin ==
  ASSUME NEW t \in Tasks, task'[t] # Idle, \A u \in Tasks : u # t => task'[u] = task[u],
         ~met' => Alone /\ Knows(t)', met' => asked' = NoWish
  PROVE  AloneKnows' /\ MetForgets'
<1>1. MetForgets'
  BY DEF MetForgets
<1>2. ASSUME ~met' PROVE (Busy = {} => Settled)' /\ \A u \in Busy' : Knows(u)' /\ \A v \in Busy' : v = u
  <2>1. \A u \in Tasks : u # t => task'[u] = Idle
    BY <1>2 DEF Alone, Busy
  <2>2. Busy' = {t}
    BY <2>1 DEF Busy
  <2> QED
    BY <1>2, <2>2
<1> QED
  BY <1>1, <1>2 DEF AloneKnows
-----------------------------------------------------------------------------
(* Types.                                                                  *)

LEMMA TypeOfTask ==
  ASSUME Types, NEW t \in Tasks, NEW r \in Steps, task' = [task EXCEPT ![t] = r]
  PROVE  task' \in [Tasks -> Steps] /\ task'[t] = r /\ \A u \in Tasks : u # t => task'[u] = task[u]
  BY DEF Types

LEMMA StepRecords ==
  /\ \A at \in WebSteps : [at |-> at] \in Steps /\ [at |-> at] # Idle
  /\ \A at \in Early, force \in BOOLEAN : [at |-> at, force |-> force] \in Steps /\ [at |-> at, force |-> force] # Idle
  /\ \A at \in {"erase", "password"}, name \in Names \cup {DefaultName}, zero \in BOOLEAN :
       [at |-> at, name |-> name, zero |-> zero] \in Steps /\ [at |-> at, name |-> name, zero |-> zero] # Idle
  /\ \A name \in Names \cup {DefaultName}, zero \in BOOLEAN, password \in Passwords :
       /\ [at |-> "set", name |-> name, zero |-> zero, password |-> password] \in Steps
       /\ [at |-> "set", name |-> name, zero |-> zero, password |-> password] # Idle
  /\ Idle \in Steps
<1>1. \A at \in WebSteps : [at |-> at] \in Steps
  BY DEF Steps
<1>2. \A at \in Early, force \in BOOLEAN : [at |-> at, force |-> force] \in Steps
  BY DEF Steps
<1>3. \A at \in WebSteps : [at |-> at] # Idle
  BY DEF WebSteps, Idle
<1>4. \A at \in Early, force \in BOOLEAN : [at |-> at, force |-> force] # Idle
  <2>1. \A at \in Early, force \in BOOLEAN : [at |-> at, force |-> force].at # Idle.at
    BY DEF Early, Idle
  <2> QED
    BY <2>1
<1>5. Idle \in Steps
  BY DEF Steps
<1>6. ASSUME NEW at \in {"erase", "password"}, NEW name \in Names \cup {DefaultName}, NEW zero \in BOOLEAN
      PROVE  [at |-> at, name |-> name, zero |-> zero] \in Steps /\ [at |-> at, name |-> name, zero |-> zero] # Idle
  <2>1. [at |-> at, name |-> name, zero |-> zero]
          \in [at : {"erase", "password"}, name : Names \cup {DefaultName}, zero : BOOLEAN]
    OBVIOUS
  <2>2. [at |-> at, name |-> name, zero |-> zero].at # Idle.at
    BY DEF Idle
  <2> QED
    BY <2>1, <2>2 DEF Steps
<1>7. ASSUME NEW name \in Names \cup {DefaultName}, NEW zero \in BOOLEAN, NEW password \in Passwords
      PROVE  /\ [at |-> "set", name |-> name, zero |-> zero, password |-> password] \in Steps
             /\ [at |-> "set", name |-> name, zero |-> zero, password |-> password] # Idle
  <2>1. [at |-> "set", name |-> name, zero |-> zero, password |-> password]
          \in [at : {"set"}, name : Names \cup {DefaultName}, zero : BOOLEAN, password : Passwords]
    OBVIOUS
  <2>2. [at |-> "set", name |-> name, zero |-> zero, password |-> password].at # Idle.at
    BY DEF Idle
  <2> QED
    BY <2>1, <2>2 DEF Steps
<1> QED
  BY <1>1, <1>2, <1>3, <1>4, <1>5, <1>6, <1>7

LEMMA TypeOfGoing ==
  ASSUME Types, NEW t \in Tasks, NEW step, Goes(t, step),
         \/ task[t].at \in WebSteps /\ step \in WebSteps
         \/ task[t].at \in Early /\ step \in Early
         \/ task[t].at \in {"erase", "password"} /\ step \in {"erase", "password"}
  PROVE  task' \in [Tasks -> Steps]
<1>1. task'[t] \in Steps
  <2>1. CASE task[t].at \in WebSteps /\ step \in WebSteps
    <3>1. task'[t] = [at |-> step]
      BY <2>1, GoesOn
    <3> QED
      BY <2>1, <3>1, StepRecords
  <2>2. CASE task[t].at \in Early /\ step \in Early
    <3>1. task'[t] = [at |-> step, force |-> task[t].force] /\ task[t].force \in BOOLEAN
      BY <2>2, GoesOn, StepKinds
    <3> QED
      BY <2>2, <3>1, StepRecords
  <2>3. CASE task[t].at \in {"erase", "password"} /\ step \in {"erase", "password"}
    <3>1. /\ task'[t] = [at |-> step, name |-> task[t].name, zero |-> task[t].zero]
          /\ task[t].name \in Names \cup {DefaultName} /\ task[t].zero \in BOOLEAN
      <4>1. task'[t] = [at |-> step, name |-> task[t].name, zero |-> task[t].zero]
        BY <2>3, GoesOn
      <4>2. task[t].name \in Names \cup {DefaultName} /\ task[t].zero \in BOOLEAN
        BY <2>3, StepKinds
      <4> QED
        BY <4>1, <4>2
    <3> QED
      BY <2>3, <3>1, StepRecords
  <2> QED
    BY <2>1, <2>2, <2>3
<1> QED
  BY <1>1 DEF Goes, Types

\* The parts of Types that an action leaves to be shown.
OtherTypes ==
  /\ mode \in {"sta", "apsta"}
  /\ ap \in [name : Names \cup {Nameless, DefaultName}, zero : BOOLEAN, password : Passwords]
  /\ {busy, started, panicked, met} \subseteq BOOLEAN
  /\ wish \in Wishes \cup {NoWish} /\ asked \in Wishes \cup {NoWish}
  /\ calls \in Nat /\ fails \in Nat
NvsType ==
  nvs \in [name : Names \cup {Absent}, password : Passwords \cup {Absent}, enabled : BOOLEAN \cup {Absent}]

LEMMA TypesParts == Types <=> NvsType /\ OtherTypes /\ task \in [Tasks -> Steps]
  BY DEF Types, NvsType, OtherTypes

LEMMA NvsErases ==
  ASSUME NvsType, nvs' = [nvs EXCEPT !.name = Absent] \/ nvs' = [nvs EXCEPT !.password = Absent]
  PROVE  NvsType'
  BY DEF NvsType
-----------------------------------------------------------------------------
(* The steps of wifi_configure_softap.                                     *)

LEMMA DecideStep ==
  ASSUME Core, NEW t \in Tasks, Decide(t)
  PROVE  Core'
<1>1. /\ task[t].at = "decide" /\ task[t] # Idle /\ ~panicked
      /\ UNCHANGED <<nvs, busy, mode, ap, wish, started, panicked, fails, calls, met, asked>>
  BY StepKinds DEF Decide, At, Driver, Ghosts, Core
<1>2. PICK step \in {"off", "on"} : Goes(t, step) /\ (step = "off" => nvs.enabled = FALSE)
  BY DEF Decide, cfg_ap_enabled
<1>3. task' \in [Tasks -> Steps] /\ task'[t].at = step /\ task'[t] # Idle
  <2>1. task' \in [Tasks -> Steps] /\ task'[t] = [at |-> step, force |-> task[t].force]
    BY <1>1, <1>2, GoesOn, TypeOfGoing DEF Core, Early
  <2> QED
    BY <1>2, <2>1 DEF Idle
<1>4. Types'
  BY <1>1, <1>3 DEF Core, Types
<1>5. Knows(t) => Knows(t)'
  BY <1>1, <1>2, <1>3 DEF Knows, DriverIsAt, WishIsAt, Kept
<1>6. AloneKnows' /\ MetForgets'
  BY <1>1, <1>2, <1>3, <1>5, GoesOn, AloneStep DEF Core
<1> QED
  BY <1>1, <1>4, <1>6 DEF Core, PanicNeedsTwo

LEMMA TurnOffStep ==
  ASSUME Core, NEW t \in Tasks, TurnOff(t)
  PROVE  Core'
<1>1. /\ task[t].at = "off" /\ task[t] # Idle /\ ~panicked /\ mode' = "sta" /\ started' = TRUE
      /\ UNCHANGED <<nvs, busy, ap, wish, panicked, fails, calls, met, asked>>
  BY StepKinds DEF TurnOff, At, Ghosts, Core
<1>2. task' \in [Tasks -> Steps] /\ task'[t] = Idle /\ \A u \in Tasks : u # t => task'[u] = task[u]
  BY StepRecords, TypeOfTask DEF TurnOff, Core
<1>3. Types'
  BY <1>1, <1>2 DEF Core, Types
<1>4. Knows(t) => Settled'
  BY <1>1 DEF Knows, DriverIsAt, WishIsAt, Kept, Settled, DriverFits
<1>5. AloneKnows' /\ MetForgets'
  BY <1>1, <1>2, <1>4, AloneStep DEF Core
<1> QED
  BY <1>1, <1>3, <1>5 DEF Core, PanicNeedsTwo

LEMMA TurnOnStep ==
  ASSUME Core, NEW t \in Tasks, TurnOn(t)
  PROVE  Core'
<1>1. /\ task[t].at = "on" /\ task[t] # Idle /\ ~panicked /\ mode' = "apsta" /\ Goes(t, "ssid")
      /\ UNCHANGED <<nvs, busy, ap, wish, started, panicked, fails, calls, met, asked>>
  BY StepKinds DEF TurnOn, SetsMode, At, Ghosts, Core
<1>2. /\ task' \in [Tasks -> Steps] /\ task'[t].at = "ssid" /\ task'[t] # Idle
      /\ \A u \in Tasks : u # t => task'[u] = task[u]
  <2>1. task' \in [Tasks -> Steps] /\ task'[t] = [at |-> "ssid", force |-> task[t].force]
    BY <1>1, GoesOn, TypeOfGoing DEF Core, Early
  <2> QED
    BY <1>1, <2>1, GoesOn DEF Idle, Core
<1>3. Types'
  BY <1>1, <1>2 DEF Core, Types
<1>4. Knows(t) => Knows(t)'
  BY <1>1, <1>2 DEF Knows, DriverIsAt, WishIsAt, Kept
<1>5. AloneKnows' /\ MetForgets'
  BY <1>1, <1>2, <1>4, AloneStep DEF Core
<1> QED
  BY <1>1, <1>3, <1>5 DEF Core, PanicNeedsTwo

LEMMA FillSsidStep ==
  ASSUME Core, NEW t \in Tasks, FillSsid(t)
  PROVE  Core'
<1> DEFINE long == nvs.name \in LongNames
           stored == nvs.name \in Names \ LongNames
           next == [at |-> IF long THEN "erase" ELSE "password",
                    name |-> IF stored THEN nvs.name ELSE DefaultName, zero |-> stored]
<1>1. /\ task[t].at = "ssid" /\ task[t] # Idle /\ ~panicked
      /\ task' = [task EXCEPT ![t] = next]
      /\ nvs' = IF long THEN [nvs EXCEPT !.name = Absent] ELSE nvs
      /\ UNCHANGED <<busy, mode, ap, wish, started, panicked, fails, calls, met, asked>>
  BY StepKinds DEF FillSsid, At, Driver, Ghosts, Core
<1>2. NvsType /\ NvsType'
  <2>1. NvsType
    BY TypesParts DEF Core
  <2> QED
    BY <1>1, <2>1, NvsErases DEF NvsType
<1>3. task' \in [Tasks -> Steps] /\ task'[t] = next /\ next # Idle /\ \A u \in Tasks : u # t => task'[u] = task[u]
  <2>1. next \in Steps /\ next # Idle
    <3>1. (IF long THEN "erase" ELSE "password") \in {"erase", "password"} /\ stored \in BOOLEAN
      OBVIOUS
    <3>2. (IF stored THEN nvs.name ELSE DefaultName) \in Names \cup {DefaultName}
      OBVIOUS
    <3> HIDE DEF long, stored
    <3> QED
      BY <3>1, <3>2, StepRecords
  <2> QED
    BY <1>1, <2>1, TypeOfTask DEF Core
<1>4. Types'
  <2>1. OtherTypes /\ OtherTypes'
    BY <1>1, TypesParts DEF Core, OtherTypes
  <2>2. task' \in [Tasks -> Steps]
    BY <1>3
  <2> QED
    BY <1>2, <2>1, <2>2 DEF Types, NvsType, OtherTypes
<1>5. /\ nvs'.name = IF long THEN Absent ELSE nvs.name
      /\ nvs'.password = nvs.password /\ nvs'.enabled = nvs.enabled
      /\ nvs.name \in Names \cup {Absent}
  BY <1>1, <1>2 DEF NvsType
<1>6. /\ task'[t].at = IF long THEN "erase" ELSE "password"
      /\ task'[t].name = IF stored THEN nvs.name ELSE DefaultName
  BY <1>3
<1>7. nvs'.name \notin LongNames /\ task'[t].name = UsedName'
  BY <1>5, <1>6 DEF UsedName
<1>8. Knows(t) => Knows(t)'
  <2>1. DriverIsAt(t) => DriverIsAt(t)'
    BY <1>1, <1>5, <1>6, <1>7 DEF DriverIsAt
  <2>2. asked # NoWish /\ WishIsAt(t) => WishIsAt(t)'
    <3>1. CASE long
      <4>1. nvs.name # Absent
        BY <3>1
      <4>2. task'[t].at = "erase" /\ nvs'.name = Absent
        BY <1>5, <1>6, <3>1
      <4>3. asked # NoWish /\ WishIsAt(t) => asked.name \in LongNames /\ nvs.enabled = asked.enabled
        BY <1>1, <3>1, <4>1 DEF WishIsAt, Kept, WebName
      <4> QED
        BY <1>1, <1>5, <4>2, <4>3 DEF WishIsAt
    <3>2. CASE ~long
      <4>1. task'[t].at = "password" /\ nvs' = nvs
        BY <1>1, <1>6, <3>2
      <4> QED
        BY <1>1, <4>1 DEF WishIsAt, Kept
    <3> QED
      BY <3>1, <3>2
  <2> QED
    BY <1>1, <2>1, <2>2 DEF Knows
<1>9. AloneKnows' /\ MetForgets'
  BY <1>1, <1>3, <1>8, AloneStep DEF Core
<1> QED
  BY <1>1, <1>4, <1>9 DEF Core, PanicNeedsTwo

LEMMA EraseKeyStep ==
  ASSUME Core, NEW t \in Tasks, EraseKey(t)
  PROVE  Core'
<1>1. /\ task[t].at = "erase" /\ task[t] # Idle /\ ~panicked /\ Goes(t, "password")
      /\ nvs' = [nvs EXCEPT !.password = Absent]
      /\ UNCHANGED <<busy, mode, ap, wish, started, panicked, fails, calls, met, asked>>
  BY StepKinds DEF EraseKey, At, Driver, Ghosts, Core
<1>2. NvsType /\ NvsType'
  <2>1. NvsType
    BY TypesParts DEF Core
  <2> QED
    BY <1>1, <2>1, NvsErases
<1>3. /\ task' \in [Tasks -> Steps] /\ task'[t].at = "password" /\ task'[t].name = task[t].name
      /\ task'[t] # Idle /\ \A u \in Tasks : u # t => task'[u] = task[u]
  <2>1. task' \in [Tasks -> Steps]
    BY <1>1, TypeOfGoing DEF Core
  <2>2. task'[t] = [at |-> "password", name |-> task[t].name, zero |-> task[t].zero]
    BY <1>1, GoesOn DEF Core
  <2>3. \A u \in Tasks : u # t => task'[u] = task[u]
    BY <1>1, GoesOn DEF Core
  <2> QED
    BY <2>1, <2>2, <2>3 DEF Idle
<1>4. Types'
  BY <1>1, <1>2, <1>3 DEF Core, Types, NvsType
<1>5. nvs'.name = nvs.name /\ nvs'.password = Absent /\ nvs'.enabled = nvs.enabled
  BY <1>1, <1>2 DEF NvsType
<1>6. Knows(t) => Knows(t)'
  <2>1. DriverIsAt(t) => DriverIsAt(t)'
    BY <1>1, <1>3, <1>5 DEF DriverIsAt, UsedName
  <2>2. WishIsAt(t) => WishIsAt(t)'
    BY <1>1, <1>3, <1>5 DEF WishIsAt, Kept
  <2> QED
    BY <1>1, <2>1, <2>2 DEF Knows
<1>7. AloneKnows' /\ MetForgets'
  BY <1>1, <1>3, <1>6, AloneStep DEF Core
<1> QED
  BY <1>1, <1>4, <1>7 DEF Core, PanicNeedsTwo

LEMMA FillPasswordStep ==
  ASSUME Core, NEW t \in Tasks, FillPassword(t)
  PROVE  Core'
<1> DEFINE next == [at |-> "set", name |-> task[t].name, zero |-> task[t].zero, password |-> UsedPassword]
<1>1. /\ task[t].at = "password" /\ task[t] # Idle /\ ~panicked
      /\ UNCHANGED <<nvs, busy, mode, ap, wish, started, panicked, fails, calls, met, asked>>
  BY StepKinds DEF FillPassword, At, Driver, Ghosts, Core
<1>2. task' = [task EXCEPT ![t] = next]
  BY DEF FillPassword, Core, Types
<1>3. task' \in [Tasks -> Steps] /\ task'[t] = next /\ next # Idle /\ \A u \in Tasks : u # t => task'[u] = task[u]
  <2>1. task[t].name \in Names \cup {DefaultName} /\ task[t].zero \in BOOLEAN
    BY <1>1, StepKinds DEF Core
  <2>2. UsedPassword \in Passwords
    BY DEF UsedPassword, Core, Types
  <2>3. next \in Steps /\ next # Idle
    BY <2>1, <2>2, StepRecords
  <2> QED
    BY <1>2, <2>3, TypeOfTask DEF Core
<1>4. Types'
  BY <1>1, <1>3 DEF Core, Types
<1>5. task'[t].at = "set" /\ task'[t].name = task[t].name /\ task'[t].password = UsedPassword
  BY <1>3
<1>6. Knows(t) => Knows(t)'
  <2>1. DriverIsAt(t) => DriverIsAt(t)'
    BY <1>1, <1>5 DEF DriverIsAt, UsedName, UsedPassword
  <2>2. WishIsAt(t) => WishIsAt(t)'
    BY <1>1, <1>5 DEF WishIsAt, Kept
  <2> QED
    BY <1>1, <2>1, <2>2 DEF Knows
<1>7. AloneKnows' /\ MetForgets'
  BY <1>1, <1>3, <1>6, AloneStep DEF Core
<1> QED
  BY <1>1, <1>4, <1>7 DEF Core, PanicNeedsTwo

\* The mode is still the one that this task has set, so only the password can be refused.
LEMMA SetConfigStep ==
  ASSUME Core, NEW t \in Tasks, SetConfig(t)
  PROVE  Core'
<1>1. /\ task[t].at = "set" /\ task[t] # Idle /\ ~panicked
      /\ UNCHANGED <<nvs, busy, mode, wish, fails, calls, met, asked>>
  BY StepKinds DEF SetConfig, At, Ghosts, Core
<1>2. CASE mode = "apsta" /\ task[t].password \notin ShortPasswords
  <2>1. /\ ap' = [name |-> task[t].name, zero |-> task[t].zero, password |-> task[t].password]
        /\ task' = [task EXCEPT ![t] = Idle] /\ started' = TRUE /\ panicked' = panicked
    BY <1>2 DEF SetConfig
  <2>2. task' \in [Tasks -> Steps] /\ task'[t] = Idle /\ \A u \in Tasks : u # t => task'[u] = task[u]
    BY <2>1, StepRecords, TypeOfTask DEF Core
  <2>3. Types'
    <3>1. task[t].name \in Names \cup {DefaultName} /\ task[t].zero \in BOOLEAN /\ task[t].password \in Passwords
      BY <1>1, StepKinds DEF Core
    <3>2. ap' \in [name : Names \cup {Nameless, DefaultName}, zero : BOOLEAN, password : Passwords]
      BY <2>1, <3>1
    <3> QED
      BY <1>1, <2>1, <2>2, <3>2 DEF Core, Types
  <2>4. Knows(t) => Settled'
    <3>1. ap'.name = task[t].name /\ ap'.password = task[t].password
      BY <2>1
    <3>2. DriverIsAt(t) => DriverFits'
      BY <1>1, <1>2, <3>1 DEF DriverIsAt, DriverFits, UsedName, UsedPassword
    <3>3. WishIsAt(t) => Kept(asked)'
      BY <1>1 DEF WishIsAt, Kept
    <3> QED
      BY <1>1, <3>2, <3>3 DEF Knows, Settled
  <2>5. AloneKnows' /\ MetForgets'
    BY <1>1, <2>2, <2>4, AloneStep DEF Core
  <2> QED
    BY <1>1, <2>1, <2>3, <2>5 DEF Core, PanicNeedsTwo
<1>3. CASE ~(mode = "apsta" /\ task[t].password \notin ShortPasswords)
  <2>1. panicked' = TRUE /\ UNCHANGED <<ap, task, started>>
    BY <1>3 DEF SetConfig
  <2>2. Types'
    BY <1>1, <2>1 DEF Core, Types
  <2>3. Knows(t) => Knows(t)'
    BY <1>1, <2>1 DEF Knows, DriverIsAt, WishIsAt, Kept, UsedName, UsedPassword
  <2>4. AloneKnows' /\ MetForgets'
    BY <1>1, <2>1, <2>3, AloneStep DEF Core
  <2>5. ~met => nvs.password \in ShortPasswords
    <3>1. t \in Busy
      BY <1>1 DEF Busy
    <3>2. ~met => mode = "apsta" /\ task[t].password = UsedPassword
      BY <1>1, <3>1 DEF Core, AloneKnows, Knows, DriverIsAt
    <3> QED
      BY <1>3, <3>2 DEF UsedPassword
  <2> QED
    BY <1>1, <2>1, <2>2, <2>4, <2>5 DEF Core, PanicNeedsTwo
<1> QED
  BY <1>2, <1>3
-----------------------------------------------------------------------------
(* The requests.                                                           *)

LEMMA WebAsksStep ==
  ASSUME Core, NEW w \in Wishes, WebAsks(w)
  PROVE  Core'
<1>1. /\ task' = [task EXCEPT !["httpd"] = [at |-> "put name"]] /\ met' = ~Alone /\ wish' = w
      /\ asked' = (IF Alone THEN w ELSE NoWish) /\ ~panicked /\ "httpd" \in Tasks /\ calls' = calls + 1
      /\ UNCHANGED <<nvs, busy, mode, ap, started, panicked, fails>>
  BY DEF WebAsks, Begin, Driver, Tasks
<1>2. /\ task' \in [Tasks -> Steps] /\ task'["httpd"] = [at |-> "put name"] /\ task'["httpd"] # Idle
      /\ \A u \in Tasks : u # "httpd" => task'[u] = task[u]
  <2>1. [at |-> "put name"] \in Steps /\ [at |-> "put name"] # Idle
    BY StepRecords DEF WebSteps
  <2> QED
    BY <1>1, <2>1, TypeOfTask DEF Core
<1>3. Types'
  <2>1. met' \in BOOLEAN /\ wish' \in Wishes /\ asked' \in Wishes \cup {NoWish} /\ calls' \in Nat
    <3>1. met' \in BOOLEAN
      BY <1>1 DEF Alone
    <3>2. wish' \in Wishes /\ asked' \in Wishes \cup {NoWish}
      BY <1>1
    <3>3. calls' \in Nat
      <4>1. calls \in Nat
        BY DEF Core, Types
      <4>2. calls' = calls + 1
        BY <1>1
      <4> QED
        BY <4>1, <4>2
    <3> QED
      BY <3>1, <3>2, <3>3
  <2> QED
    BY <1>1, <1>2, <2>1 DEF Core, Types
<1>4. Alone => Knows("httpd")'
  <2>1. task'["httpd"].at = "put name"
    <3>1. task'["httpd"] = [at |-> "put name"]
      BY <1>2
    <3>2. [at |-> "put name"].at = "put name"
      OBVIOUS
    <3> QED
      BY <3>1, <3>2
  <2>2. DriverIsAt("httpd")'
    BY <2>1 DEF DriverIsAt
  <2>3. Alone => WishIsAt("httpd")'
    BY <1>1, <2>1 DEF WishIsAt
  <2> QED
    BY <2>2, <2>3 DEF Knows
<1>5. AloneKnows' /\ MetForgets'
  BY <1>1, <1>2, <1>4, AloneBegin
<1> QED
  BY <1>1, <1>3, <1>5 DEF Core, PanicNeedsTwo

LEMMA StoresKeepsTypes ==
  ASSUME Types, NEW key \in {"name", "password", "enabled"}, NEW value, Stores(key, value),
         key = "name" => value \in Names, key = "password" => value \in Passwords,
         key = "enabled" => value \in BOOLEAN
  PROVE  NvsType' /\ fails' \in Nat /\ asked' \in {asked, NoWish}
         /\ (asked' # NoWish => nvs' = [nvs EXCEPT ![key] = value])
  BY DEF Types, NvsType, Stores

\* A step that stores something and goes on: the types, and that the task stays alone.
LEMMA WebStep ==
  ASSUME Core, NEW step, task["httpd"].at \in WebSteps, task'["httpd"] = step, step \in Steps, ~panicked,
         task' = [task EXCEPT !["httpd"] = step],
         NvsType', fails' \in Nat, asked' \in {asked, NoWish}, wish' \in {wish, NoWish},
         UNCHANGED <<busy, mode, ap, started, panicked, calls, met>>,
         Knows("httpd") => IF step = Idle THEN Settled' ELSE Knows("httpd")'
  PROVE  Core'
<1>1. "httpd" \in Tasks
  BY DEF Tasks
<1>2. /\ task["httpd"] # Idle /\ task' \in [Tasks -> Steps]
      /\ \A u \in Tasks : u # "httpd" => task'[u] = task[u]
  <2>1. task["httpd"].at # "idle"
    BY DEF WebSteps
  <2>2. task["httpd"] # Idle
    BY <1>1, <2>1, StepKinds DEF Core
  <2> QED
    BY <1>1, <2>2, TypeOfTask DEF Core
<1>3. Types'
  <2>1. OtherTypes'
    BY DEF OtherTypes, Core, Types
  <2> QED
    BY <1>2, <2>1 DEF Types, OtherTypes, NvsType
<1>4. AloneKnows' /\ MetForgets'
  BY <1>1, <1>2, AloneStep DEF Core
<1> QED
  BY <1>3, <1>4 DEF Core, PanicNeedsTwo

LEMMA GoesOnStoring ==
  ASSUME Types, NEW step \in WebSteps, task["httpd"].at \in WebSteps, Goes("httpd", step)
  PROVE  /\ task' = [task EXCEPT !["httpd"] = [at |-> step]] /\ task'["httpd"] = [at |-> step]
         /\ [at |-> step] \in Steps /\ [at |-> step] # Idle /\ task'["httpd"].at = step
<1>1. "httpd" \in Tasks
  BY DEF Tasks
<1>2. task'["httpd"] = [at |-> step]
  BY <1>1, GoesOn
<1>3. task' = [task EXCEPT !["httpd"] = task'["httpd"]]
  BY <1>1 DEF Goes, Types
<1> QED
  BY <1>2, <1>3, StepRecords

LEMMA WebStoresNameStep ==
  ASSUME Core, WishThere, WebStoresName
  PROVE  Core'
<1>1. /\ task["httpd"].at = "put name" /\ task["httpd"].at \in WebSteps /\ ~panicked /\ Types
      /\ UNCHANGED <<busy, mode, ap, wish, started, panicked, calls, met>>
  BY DEF WebStoresName, At, Driver, Tasks, Core, WebSteps
<1>2. wish.name \in Names \cup {Nameless}
  BY <1>1 DEF WishThere, PutSteps, Wishes
<1>3. CASE wish.name = Nameless
  <2>1. nvs' = [nvs EXCEPT !.name = Absent] /\ Goes("httpd", "drop") /\ UNCHANGED <<fails, asked>>
    BY <1>3 DEF WebStoresName
  <2>2. "drop" \in WebSteps
    BY DEF WebSteps
  <2>3. NvsType' /\ nvs'.name = Absent /\ fails' \in Nat
    BY <1>1, <2>1 DEF Types, NvsType
  <2>4. /\ task' = [task EXCEPT !["httpd"] = [at |-> "drop"]] /\ task'["httpd"] = [at |-> "drop"]
        /\ [at |-> "drop"] \in Steps /\ [at |-> "drop"] # Idle /\ task'["httpd"].at = "drop"
    BY <1>1, <2>1, <2>2, GoesOnStoring
  <2>5. Knows("httpd") => Knows("httpd")'
    <3>1. DriverIsAt("httpd")'
      BY <2>4 DEF DriverIsAt
    <3>2. WishIsAt("httpd") => WishIsAt("httpd")'
      BY <1>1, <1>3, <2>1, <2>3, <2>4 DEF WishIsAt, WebName
    <3> QED
      BY <2>1, <3>1, <3>2 DEF Knows
  <2> QED
    BY <1>1, <2>1, <2>3, <2>4, <2>5, WebStep
<1>4. CASE wish.name # Nameless
  <2>1. Stores("name", wish.name) /\ Goes("httpd", "put password")
    BY <1>4 DEF WebStoresName
  <2>2. "put password" \in WebSteps
    BY DEF WebSteps
  <2>3. NvsType' /\ fails' \in Nat /\ asked' \in {asked, NoWish}
        /\ (asked' # NoWish => nvs' = [nvs EXCEPT !["name"] = wish.name])
    BY <1>1, <1>2, <1>4, <2>1, StoresKeepsTypes
  <2>4. /\ task' = [task EXCEPT !["httpd"] = [at |-> "put password"]] /\ task'["httpd"] = [at |-> "put password"]
        /\ [at |-> "put password"] \in Steps /\ [at |-> "put password"] # Idle
        /\ task'["httpd"].at = "put password"
    BY <1>1, <2>1, <2>2, GoesOnStoring
  <2>5. Knows("httpd") => Knows("httpd")'
    <3>1. DriverIsAt("httpd")'
      BY <2>4 DEF DriverIsAt
    <3>2. ASSUME asked' # NoWish, WishIsAt("httpd") PROVE WishIsAt("httpd")'
      <4>1. wish' = asked' /\ wish = asked
        BY <1>1, <2>3, <3>2 DEF WishIsAt
      <4>2. nvs'.name = wish.name
        BY <1>1, <2>3, <3>2 DEF Types
      <4>3. nvs'.name = WebName(asked')
        BY <1>4, <4>1, <4>2, <1>1 DEF WebName
      <4> QED
        BY <2>4, <4>1, <4>3 DEF WishIsAt
    <3>3. asked' # NoWish => asked # NoWish
      BY <2>3
    <3> QED
      BY <3>1, <3>2, <3>3 DEF Knows
  <2> QED
    BY <1>1, <2>3, <2>4, <2>5, WebStep
<1> QED
  BY <1>3, <1>4

LEMMA WebErasesStep ==
  ASSUME Core, WebErases
  PROVE  Core'
<1>1. /\ task["httpd"].at = "drop" /\ task["httpd"].at \in WebSteps /\ ~panicked /\ Types
      /\ nvs' = [nvs EXCEPT !.password = Absent] /\ Goes("httpd", "put password")
      /\ UNCHANGED <<busy, mode, ap, wish, started, panicked, fails, calls, met, asked>>
  BY DEF WebErases, At, Driver, Ghosts, Tasks, Core, WebSteps
<1>2. "put password" \in WebSteps
  BY DEF WebSteps
<1>3. NvsType' /\ nvs'.name = nvs.name /\ fails' \in Nat
  BY <1>1 DEF Types, NvsType
<1>4. /\ task' = [task EXCEPT !["httpd"] = [at |-> "put password"]] /\ task'["httpd"] = [at |-> "put password"]
      /\ [at |-> "put password"] \in Steps /\ [at |-> "put password"] # Idle
      /\ task'["httpd"].at = "put password"
  BY <1>1, <1>2, GoesOnStoring
<1>5. Knows("httpd") => Knows("httpd")'
  <2>1. DriverIsAt("httpd")'
    BY <1>4 DEF DriverIsAt
  <2>2. WishIsAt("httpd") => WishIsAt("httpd")'
    BY <1>1, <1>3, <1>4 DEF WishIsAt, WebName
  <2> QED
    BY <1>1, <2>1, <2>2 DEF Knows
<1> QED
  BY <1>1, <1>3, <1>4, <1>5, WebStep

LEMMA WebStoresPasswordStep ==
  ASSUME Core, WishThere, WebStoresPassword
  PROVE  Core'
<1>1. /\ task["httpd"].at = "put password" /\ task["httpd"].at \in WebSteps /\ ~panicked /\ Types
      /\ Stores("password", wish.password) /\ Goes("httpd", "put enabled")
      /\ UNCHANGED <<busy, mode, ap, wish, started, panicked, calls, met>>
  BY DEF WebStoresPassword, At, Driver, Tasks, Core, WebSteps
<1>2. wish.password \in Passwords /\ "put enabled" \in WebSteps
  BY <1>1 DEF WishThere, PutSteps, Wishes, WebSteps
<1>3. NvsType' /\ fails' \in Nat /\ asked' \in {asked, NoWish}
      /\ (asked' # NoWish => nvs' = [nvs EXCEPT !["password"] = wish.password])
  BY <1>1, <1>2, StoresKeepsTypes
<1>4. /\ task' = [task EXCEPT !["httpd"] = [at |-> "put enabled"]] /\ task'["httpd"] = [at |-> "put enabled"]
      /\ [at |-> "put enabled"] \in Steps /\ [at |-> "put enabled"] # Idle
      /\ task'["httpd"].at = "put enabled"
  BY <1>1, <1>2, GoesOnStoring
<1>5. Knows("httpd") => Knows("httpd")'
  <2>1. DriverIsAt("httpd")'
    BY <1>4 DEF DriverIsAt
  <2>2. ASSUME asked' # NoWish, WishIsAt("httpd") PROVE WishIsAt("httpd")'
    <3>1. wish' = asked' /\ wish = asked /\ asked' = asked /\ nvs.name = WebName(asked)
      BY <1>1, <1>3, <2>2 DEF WishIsAt
    <3>2. nvs'.password = wish.password /\ nvs'.name = nvs.name
      BY <1>1, <1>3, <2>2 DEF Types
    <3>3. nvs'.name = WebName(asked')
      BY <3>1, <3>2 DEF WebName
    <3> QED
      BY <1>4, <3>1, <3>2, <3>3 DEF WishIsAt
  <2>3. asked' # NoWish => asked # NoWish
    BY <1>3
  <2> QED
    BY <2>1, <2>2, <2>3 DEF Knows
<1> QED
  BY <1>1, <1>3, <1>4, <1>5, WebStep

LEMMA WebStoresEnabledStep ==
  ASSUME Core, WishThere, WebStoresEnabled
  PROVE  Core'
<1> DEFINE next == [at |-> "decide", force |-> FALSE]
<1>1. /\ task["httpd"].at = "put enabled" /\ task["httpd"].at \in WebSteps /\ ~panicked /\ Types
      /\ Stores("enabled", wish.enabled) /\ task' = [task EXCEPT !["httpd"] = next] /\ wish' = NoWish
      /\ UNCHANGED <<busy, mode, ap, started, panicked, calls, met>>
  BY DEF WebStoresEnabled, ThenConfigures, At, Driver, Tasks, Core, WebSteps
<1>2. wish.enabled \in BOOLEAN
  BY <1>1 DEF WishThere, PutSteps, Wishes
<1>3. NvsType' /\ fails' \in Nat /\ asked' \in {asked, NoWish}
      /\ (asked' # NoWish => nvs' = [nvs EXCEPT !["enabled"] = wish.enabled])
  BY <1>1, <1>2, StoresKeepsTypes
<1>4. next \in Steps /\ next # Idle /\ task'["httpd"] = next /\ task'["httpd"].at = "decide"
  BY <1>1, StepRecords DEF Early, Types, Tasks
<1>5. Knows("httpd") => Knows("httpd")'
  <2>1. DriverIsAt("httpd")'
    BY <1>4 DEF DriverIsAt
  <2>2. ASSUME asked' # NoWish, WishIsAt("httpd") PROVE WishIsAt("httpd")'
    <3>1. wish = asked /\ asked' = asked /\ nvs.name = WebName(asked) /\ nvs.password = asked.password
      BY <1>1, <1>3, <2>2 DEF WishIsAt
    <3>2. nvs'.enabled = wish.enabled /\ nvs'.name = nvs.name /\ nvs'.password = nvs.password
      BY <1>1, <1>3, <2>2 DEF Types
    <3>3. Kept(asked)'
      BY <3>1, <3>2 DEF WebName, Kept
    <3> QED
      BY <1>4, <3>3 DEF WishIsAt
  <2>3. asked' # NoWish => asked # NoWish
    BY <1>3
  <2> QED
    BY <2>1, <2>2, <2>3 DEF Knows
<1> QED
  BY <1>1, <1>3, <1>4, <1>5, WebStep

\* A name that is too long is what an access point that is on does not have.
LEMMA WebShowsStep ==
  ASSUME Core, WebShows
  PROVE  Core'
<1>1. /\ nvs.name \in LongNames /\ nvs' = [nvs EXCEPT !.name = Absent] /\ ~panicked /\ "httpd" \in Tasks
      /\ task' = [task EXCEPT !["httpd"] = [at |-> "show"]]
      /\ UNCHANGED <<busy, mode, ap, wish, started, panicked, fails>>
  BY DEF WebShows, Begin, Driver, Tasks
<1>2. met' = (met \/ ~Alone) /\ asked' = (IF Alone THEN asked ELSE NoWish)
  BY DEF WebShows
<1>3. calls' \in Nat
  <2>1. calls \in Nat /\ calls' = calls + 1
    BY DEF WebShows, Begin, Core, Types
  <2> QED
    BY <2>1
<1>4. /\ task' \in [Tasks -> Steps] /\ task'["httpd"] # Idle /\ task'["httpd"].at = "show"
      /\ \A u \in Tasks : u # "httpd" => task'[u] = task[u]
  <2>1. [at |-> "show"] \in Steps /\ [at |-> "show"] # Idle
    BY StepRecords DEF WebSteps
  <2>2. task' \in [Tasks -> Steps] /\ task'["httpd"] = [at |-> "show"]
        /\ \A u \in Tasks : u # "httpd" => task'[u] = task[u]
    BY <1>1, <2>1, TypeOfTask DEF Core
  <2> QED
    BY <2>1, <2>2
<1>5. /\ nvs.name # Absent /\ nvs'.name = Absent
      /\ nvs'.password = nvs.password /\ nvs'.enabled = nvs.enabled /\ NvsType'
  BY <1>1 DEF Core, Types, NvsType
<1>6. Types'
  <2>1. met' \in BOOLEAN
    BY <1>2 DEF Core, Types, Alone
  <2>2. asked' \in Wishes \cup {NoWish}
    BY <1>2 DEF Core, Types
  <2> QED
    BY <1>1, <1>3, <1>4, <1>5, <2>1, <2>2 DEF Core, Types, NvsType
<1>7. ASSUME ~met' PROVE Alone /\ Knows("httpd")'
  <2>1. ~met /\ Alone /\ asked' = asked
    BY <1>2, <1>7
  <2>2. Settled
    BY <2>1 DEF Alone, Core, AloneKnows
  <2>3. mode = "sta" /\ nvs.enabled = FALSE
    BY <1>1, <2>2 DEF Settled, DriverFits, Core, Types
  <2>4. DriverIsAt("httpd")'
    BY <1>1, <1>4, <1>5, <2>3 DEF DriverIsAt
  <2>5. asked # NoWish => asked.name \in LongNames /\ nvs.enabled = asked.enabled
    BY <1>1, <1>5, <2>2 DEF Settled, Kept, WebName
  <2>6. asked # NoWish => WishIsAt("httpd")'
    BY <1>4, <1>5, <2>1, <2>5 DEF WishIsAt
  <2> QED
    BY <2>1, <2>4, <2>6 DEF Knows
<1>8. met' => asked' = NoWish
  BY <1>2 DEF Core, MetForgets
<1>9. AloneKnows' /\ MetForgets'
  BY <1>1, <1>4, <1>7, <1>8, AloneBegin
<1> QED
  BY <1>1, <1>6, <1>9 DEF Core, PanicNeedsTwo

LEMMA WebShownStep ==
  ASSUME Core, WebShown
  PROVE  Core'
<1>1. /\ task["httpd"].at = "show" /\ task["httpd"].at \in WebSteps /\ ~panicked /\ Types
      /\ nvs' = [nvs EXCEPT !.password = Absent] /\ task' = [task EXCEPT !["httpd"] = Idle]
      /\ UNCHANGED <<busy, mode, ap, wish, started, panicked, fails, calls, met, asked>>
  BY DEF WebShown, At, Driver, Ghosts, Core, WebSteps
<1>2. /\ NvsType' /\ nvs'.name = nvs.name /\ nvs'.password = Absent /\ nvs'.enabled = nvs.enabled
      /\ fails' \in Nat
  BY <1>1 DEF Types, NvsType
<1>3. Idle \in Steps /\ task'["httpd"] = Idle
  BY <1>1, StepRecords DEF Types, Tasks
<1>4. Knows("httpd") => Settled'
  <2>1. DriverIsAt("httpd") => DriverFits'
    BY <1>1, <1>2 DEF DriverIsAt, DriverFits
  <2>2. WishIsAt("httpd") => Kept(asked)'
    BY <1>1, <1>2 DEF WishIsAt, Kept
  <2> QED
    BY <1>1, <2>1, <2>2 DEF Knows, Settled
<1> QED
  BY <1>1, <1>2, <1>3, <1>4, WebStep
-----------------------------------------------------------------------------
(* The others.                                                             *)

\* A task begins at the decision: it knows nothing of the driver yet.
LEMMA DecideBegins ==
  ASSUME Core, NEW t \in Tasks, NEW force \in BOOLEAN, Begin(t, [at |-> "decide", force |-> force]),
         met' = ~Alone, asked' = NoWish \/ (Alone /\ asked' = asked /\ nvs' = nvs), NvsType',
         UNCHANGED <<busy, mode, ap, wish, panicked, started, fails>>,
         ~met \/ asked = NoWish
  PROVE  Core'
<1> DEFINE next == [at |-> "decide", force |-> force]
<1>1. next \in Steps /\ next # Idle /\ task' = [task EXCEPT ![t] = next] /\ calls' = calls + 1 /\ ~panicked
  BY StepRecords DEF Begin, Early
<1>2. /\ task' \in [Tasks -> Steps] /\ task'[t] = next /\ task'[t].at = "decide"
      /\ \A u \in Tasks : u # t => task'[u] = task[u]
  BY <1>1, TypeOfTask DEF Core
<1>3. Types'
  <2>1. calls' \in Nat
    <3>1. calls \in Nat
      BY DEF Core, Types
    <3> QED
      BY <1>1, <3>1
  <2>2. met' \in BOOLEAN
    BY DEF Alone
  <2>3. asked' \in Wishes \cup {NoWish}
    BY DEF Core, Types
  <2> QED
    BY <1>1, <1>2, <2>1, <2>2, <2>3 DEF Core, Types, NvsType
<1>4. ASSUME ~met' PROVE Alone /\ Knows(t)'
  <2>1. DriverIsAt(t)'
    BY <1>2 DEF DriverIsAt
  <2>2. ASSUME asked' # NoWish PROVE Kept(asked)'
    <3>1. ~met /\ Busy = {} /\ asked' = asked /\ nvs' = nvs
      BY <1>4, <2>2 DEF Alone
    <3>2. Kept(asked)
      BY <2>2, <3>1 DEF Core, AloneKnows, Settled
    <3> QED
      BY <3>1, <3>2 DEF Kept, WebName
  <2>3. asked' # NoWish => WishIsAt(t)'
    BY <1>2, <2>2 DEF WishIsAt
  <2> QED
    BY <1>4, <2>1, <2>3 DEF Knows
<1>5. met' => asked' = NoWish
  OBVIOUS
<1>6. AloneKnows' /\ MetForgets'
  BY <1>1, <1>2, <1>4, <1>5, AloneBegin
<1> QED
  BY <1>1, <1>3, <1>6 DEF Core, PanicNeedsTwo

LEMMA ForgetStep == Core /\ Forget => Core'
<1> SUFFICES ASSUME Core, Forget PROVE Core'
  OBVIOUS
<1>1. /\ Begin("wilma", [at |-> "decide", force |-> TRUE]) /\ met' = ~Alone /\ asked' = NoWish
      /\ UNCHANGED <<busy, mode, ap, wish, panicked, started, fails>> /\ "wilma" \in Tasks
  BY DEF Forget, Driver, Tasks
<1>2. NvsType'
  BY DEF Forget, NvsType
<1>3. ~met \/ asked = NoWish
  BY DEF Core, MetForgets
<1> QED
  BY <1>1, <1>2, <1>3, DecideBegins

LEMMA ConfigureStep ==
  ASSUME Core, NEW t \in Tasks, NEW force \in BOOLEAN, Configure(t, force)
  PROVE  Core'
<1>1. /\ Begin(t, [at |-> "decide", force |-> force]) /\ met' = ~Alone /\ nvs' = nvs
      /\ asked' = NoWish \/ (Alone /\ asked' = asked)
      /\ UNCHANGED <<busy, mode, ap, wish, panicked, started, fails>>
  BY DEF Configure, Driver
<1>2. NvsType'
  BY <1>1 DEF Core, Types, NvsType
<1>3. ~met \/ asked = NoWish
  BY DEF Core, MetForgets
<1> QED
  BY <1>1, <1>2, <1>3, DecideBegins

LEMMA BitsChangeStep ==
  ASSUME Core, BitsChange
  PROVE  Core'
<1>1. UNCHANGED <<nvs, mode, ap, task, wish, started, panicked, fails, calls, met, asked>> /\ busy' \in BOOLEAN
  BY DEF BitsChange, Driver, Ghosts
<1>2. Types'
  BY <1>1 DEF Core, Types
<1>3. AloneKnows' /\ MetForgets'
  BY <1>1 DEF Core, AloneKnows, MetForgets, Busy, Settled, DriverFits, Kept, UsedName, UsedPassword, Knows, DriverIsAt,
             WishIsAt
<1> QED
  BY <1>1, <1>2, <1>3 DEF Core, PanicNeedsTwo

\* The manager's thread begins alone, with what the others have left in NVS and the driver.
LEMMA RebootStep ==
  ASSUME Core, Reboot
  PROVE  Core'
<1>1. /\ busy' = FALSE /\ task' = Boot /\ started' = FALSE /\ panicked' = FALSE /\ wish' = NoWish /\ met' = FALSE
      /\ asked' = (IF Quiet THEN asked ELSE NoWish)
      /\ UNCHANGED <<nvs, mode, ap, calls, fails>>
  BY DEF Reboot, Driver
<1>2. /\ Boot \in [Tasks -> Steps] /\ Boot["wilma"].at = "decide" /\ "wilma" \in Tasks /\ Boot["wilma"] # Idle
      /\ \A u \in Tasks : u # "wilma" => Boot[u] = Idle
  <2>1. /\ [at |-> "decide", force |-> FALSE] \in Steps /\ Idle \in Steps
        /\ [at |-> "decide", force |-> FALSE] # Idle
    BY StepRecords DEF Early
  <2> QED
    BY <2>1 DEF Boot, Tasks
<1>3. Types'
  BY <1>1, <1>2 DEF Core, Types
<1>4. Busy' = {"wilma"}
  BY <1>1, <1>2 DEF Busy
<1>5. DriverIsAt("wilma")'
  BY <1>1, <1>2 DEF DriverIsAt
<1>6. ASSUME asked' # NoWish PROVE WishIsAt("wilma")'
  <2>1. Quiet /\ asked' = asked /\ ~met
    BY <1>1, <1>6 DEF Core, MetForgets
  <2>2. Kept(asked)
    BY <1>6, <2>1 DEF Core, AloneKnows, Settled, Quiet
  <2>3. Kept(asked)'
    BY <1>1, <2>1, <2>2 DEF Kept, WebName
  <2> QED
    BY <1>1, <1>2, <2>3 DEF WishIsAt
<1>7. AloneKnows' /\ MetForgets'
  BY <1>1, <1>4, <1>5, <1>6 DEF AloneKnows, MetForgets, Knows
<1> QED
  BY <1>1, <1>3, <1>7 DEF Core, PanicNeedsTwo
-----------------------------------------------------------------------------
(* The invariant.                                                          *)

LEMMA WishThereStep ==
  ASSUME Types, WishThere, Next
  PROVE  WishThere'
<1>0. "httpd" \in Tasks
  BY DEF Tasks
\* The request stays while it is stored, ...
<1>1. ASSUME task["httpd"].at \in PutSteps, wish' = wish PROVE WishThere'
  BY <1>1 DEF WishThere
\* ... and nothing else begins to store one.
<1>2. ASSUME task'["httpd"] = task["httpd"], wish' = wish PROVE WishThere'
  BY <1>2 DEF WishThere
<1>3. ASSUME task'["httpd"].at \notin PutSteps PROVE WishThere'
  BY <1>3 DEF WishThere
<1>4. ASSUME NEW t \in Tasks, NEW step, Goes(t, step), task[t].at \in Early \cup {"erase"}, step \notin PutSteps,
             wish' = wish
      PROVE  WishThere'
  <2>1. CASE t = "httpd"
    <3>1. task'[t].at = step
      <4>1. CASE task[t].at \in Early
        <5>1. task'[t] = [at |-> step, force |-> task[t].force]
          BY <1>4, <4>1, GoesOn
        <5> QED
          BY <5>1
      <4>2. CASE task[t].at = "erase"
        <5>1. task'[t] = [at |-> step, name |-> task[t].name, zero |-> task[t].zero]
          BY <1>4, <4>2, GoesOn
        <5> QED
          BY <5>1
      <4> QED
        BY <1>4, <4>1, <4>2
    <3> QED
      BY <1>3, <1>4, <2>1, <3>1
  <2>2. CASE t # "httpd"
    <3>1. \A u \in Tasks : u # t => task'[u] = task[u]
      BY <1>4, GoesOn
    <3>2. task'["httpd"] = task["httpd"]
      BY <1>0, <2>2, <3>1
    <3> QED
      BY <1>2, <1>4, <3>2
  <2> QED
    BY <2>1, <2>2
<1>5. ASSUME NEW t \in Tasks, NEW r, r.at \notin PutSteps, task' = [task EXCEPT ![t] = r], wish' = wish
      PROVE  WishThere'
  <2>1. CASE t = "httpd"
    BY <1>0, <1>3, <1>5, <2>1 DEF Types
  <2>2. CASE t # "httpd"
    BY <1>0, <1>2, <1>5, <2>2 DEF Types
  <2> QED
    BY <2>1, <2>2
<1>6. ASSUME NEW t \in Tasks, Softap(t) PROVE WishThere'
  <2>1. CASE Decide(t)
    <3>1. wish' = wish /\ task[t].at \in Early
      BY <2>1 DEF Decide, At, Early
    <3>2. Goes(t, "off") \/ Goes(t, "on")
      BY <2>1 DEF Decide
    <3> QED
      BY <1>4, <3>1, <3>2 DEF PutSteps
  <2>2. CASE TurnOn(t)
    <3>1. Goes(t, "ssid") /\ wish' = wish /\ task[t].at \in Early
      BY <2>2 DEF TurnOn, At, Early
    <3> QED
      BY <1>4, <3>1 DEF PutSteps
  <2>3. CASE EraseKey(t)
    <3>1. Goes(t, "password") /\ wish' = wish /\ task[t].at = "erase"
      BY <2>3 DEF EraseKey, At
    <3> QED
      BY <1>4, <3>1 DEF PutSteps
  <2>4. CASE TurnOff(t) \/ SetConfig(t)
    <3>1. (task' = [task EXCEPT ![t] = Idle] \/ task' = task) /\ wish' = wish
      BY <2>4 DEF TurnOff, SetConfig
    <3>2. Idle.at \notin PutSteps
      BY DEF Idle, PutSteps
    <3> QED
      BY <1>2, <1>5, <3>1, <3>2
  <2>5. CASE FillSsid(t)
    <3> DEFINE stored == nvs.name \in Names \ LongNames
               next == [at |-> IF nvs.name \in LongNames THEN "erase" ELSE "password",
                        name |-> IF stored THEN nvs.name ELSE DefaultName, zero |-> stored]
    <3>1. task' = [task EXCEPT ![t] = next] /\ wish' = wish
      BY <2>5 DEF FillSsid
    <3>2. next.at \notin PutSteps
      BY DEF PutSteps
    <3> HIDE DEF next
    <3> QED
      BY <1>5, <3>1, <3>2
  <2>6. CASE FillPassword(t)
    <3> DEFINE next == [at |-> "set", name |-> task[t].name, zero |-> task[t].zero, password |-> UsedPassword]
    <3>1. task' = [task EXCEPT ![t] = next] /\ wish' = wish
      BY <2>6 DEF FillPassword, Types
    <3>2. next.at \notin PutSteps
      BY DEF PutSteps
    <3> HIDE DEF next
    <3> QED
      BY <1>5, <3>1, <3>2
  <2> QED
    BY <1>6, <2>1, <2>2, <2>3, <2>4, <2>5, <2>6 DEF Softap
<1>7. ASSUME NEW w \in Wishes, WebAsks(w) PROVE WishThere'
  BY <1>7 DEF WebAsks, WishThere
<1>8. CASE WebStoresName \/ WebErases \/ WebStoresPassword
  <2>1. task["httpd"].at \in PutSteps /\ wish' = wish
    BY <1>8 DEF WebStoresName, WebErases, WebStoresPassword, At, PutSteps
  <2> QED
    BY <1>1, <2>1
<1>9. ASSUME NEW t \in Tasks, NEW force \in BOOLEAN, task' = [task EXCEPT ![t] = [at |-> "decide", force |-> force]]
      PROVE  t = "httpd" \/ wish' = wish => WishThere'
  <2>1. [at |-> "decide", force |-> force].at \notin PutSteps
    BY DEF PutSteps
  <2>2. CASE t = "httpd"
    <3>1. task'["httpd"] = [at |-> "decide", force |-> force]
      BY <1>0, <1>9, <2>2 DEF Types
    <3> QED
      BY <1>3, <2>1, <3>1
  <2> QED
    BY <1>5, <1>9, <2>1, <2>2
<1>10. CASE WebStoresEnabled
  <2>1. task' = [task EXCEPT !["httpd"] = [at |-> "decide", force |-> FALSE]]
    BY <1>10 DEF WebStoresEnabled, ThenConfigures
  <2> QED
    BY <1>0, <1>9, <2>1
<1>11. CASE WebShows \/ WebShown
  <2>1. wish' = wish
    BY <1>11 DEF WebShows, WebShown
  <2>2. task' = [task EXCEPT !["httpd"] = [at |-> "show"]] \/ task' = [task EXCEPT !["httpd"] = Idle]
    BY <1>11 DEF WebShows, WebShown, Begin
  <2>3. [at |-> "show"].at \notin PutSteps /\ Idle.at \notin PutSteps
    BY DEF PutSteps, Idle
  <2> QED
    BY <1>0, <1>5, <2>1, <2>2, <2>3
<1>12. CASE Forget \/ \E t \in Tasks, force \in BOOLEAN : Configure(t, force)
  <2>1. wish' = wish
    BY <1>12 DEF Forget, Configure
  <2>2. \E t \in Tasks, force \in BOOLEAN : task' = [task EXCEPT ![t] = [at |-> "decide", force |-> force]]
    BY <1>12 DEF Forget, Configure, Begin, Tasks
  <2> QED
    BY <1>9, <2>1, <2>2
<1>13. CASE BitsChange
  BY <1>2, <1>13 DEF BitsChange
<1>14. CASE Reboot
  <2>1. task'["httpd"] = Idle
    BY <1>0, <1>14 DEF Reboot, Boot
  <2>2. Idle.at \notin PutSteps
    BY DEF Idle, PutSteps
  <2> QED
    BY <1>3, <2>1, <2>2
<1> QED
  BY <1>6, <1>7, <1>8, <1>10, <1>11, <1>12, <1>13, <1>14 DEF Next, Web

LEMMA InitInv == Init => IInv
<1> SUFFICES ASSUME Init PROVE IInv
  OBVIOUS
<1>1. /\ Boot \in [Tasks -> Steps] /\ Boot["wilma"].at = "decide" /\ "wilma" \in Tasks /\ Boot["wilma"] # Idle
      /\ \A u \in Tasks : u # "wilma" => Boot[u] = Idle
  <2>1. /\ [at |-> "decide", force |-> FALSE] \in Steps /\ Idle \in Steps
        /\ [at |-> "decide", force |-> FALSE] # Idle
    BY StepRecords DEF Early
  <2> QED
    BY <2>1 DEF Boot, Tasks
<1>2. Types
  BY <1>1 DEF Init, Types
<1>3. AloneKnows /\ MetForgets
  <2>1. Busy = {"wilma"}
    BY <1>1 DEF Init, Busy
  <2>2. Knows("wilma")
    BY <1>1 DEF Init, Knows, DriverIsAt
  <2> QED
    BY <2>1, <2>2 DEF Init, AloneKnows, MetForgets
<1>4. PanicNeedsTwo
  BY DEF Init, PanicNeedsTwo
<1>5. WishThere
  <2>1. task["httpd"].at = "idle"
    BY DEF Init, Boot, Tasks, Idle
  <2> QED
    BY <2>1 DEF WishThere, PutSteps
<1> QED
  BY <1>2, <1>3, <1>4, <1>5 DEF IInv, Core

LEMMA NextInv == IInv /\ [Next]_vars => IInv'
<1> SUFFICES ASSUME IInv, [Next]_vars PROVE IInv'
  OBVIOUS
<1>1. Core /\ WishThere /\ Types
  BY DEF IInv, Core
<1>2. CASE UNCHANGED vars
  <2>1. Types' /\ MetForgets' /\ PanicNeedsTwo' /\ WishThere'
    BY <1>1, <1>2 DEF vars, Core, Types, MetForgets, PanicNeedsTwo, WishThere
  <2>2. AloneKnows'
    BY <1>1, <1>2 DEF vars, Core, AloneKnows, Busy, Settled, DriverFits, Kept, UsedName, UsedPassword, Knows,
                      DriverIsAt, WishIsAt
  <2> QED
    BY <2>1, <2>2 DEF IInv, Core
<1>3. ASSUME Next PROVE Core'
  <2>1. ASSUME NEW t \in Tasks, Softap(t) PROVE Core'
    BY <1>1, <2>1, DecideStep, TurnOffStep, TurnOnStep, FillSsidStep, EraseKeyStep, FillPasswordStep, SetConfigStep
    DEF Softap
  <2>2. CASE Web
    BY <1>1, <2>2, WebAsksStep, WebStoresNameStep, WebErasesStep, WebStoresPasswordStep, WebStoresEnabledStep,
       WebShowsStep, WebShownStep DEF Web
  <2> QED
    BY <1>1, <1>3, <2>1, <2>2, ForgetStep, ConfigureStep, BitsChangeStep, RebootStep DEF Next
<1> QED
  BY <1>1, <1>2, <1>3, WishThereStep DEF IInv

LEMMA InvHolds == Spec => []IInv
  BY InitInv, NextInv, PTL DEF Spec

\* When no task is at it and the last call met no other, the access point is as NVS has
\* it, and NVS is as the last request asked.
THEOREM SettlesWhenAlone == Spec => []SettlesAsAsked
<1>1. IInv => SettlesAsAsked
  <2> SUFFICES ASSUME IInv, Quiet, ~met PROVE SettlesAsAsked
    BY DEF SettlesAsAsked
  <2>1. Settled
    BY DEF IInv, Core, AloneKnows, Quiet
  <2>2. \A password \in Passwords \ LongPasswords : password # Absent
    OBVIOUS
  <2> QED
    BY <2>1, <2>2 DEF SettlesAsAsked, Settled, DriverFits, UsedName, UsedPassword
<1> QED
  BY <1>1, InvHolds, PTL

\* Setting up the access point resets the board only if two tasks met in it, or for a
\* password that the driver refuses.
THEOREM AloneNeverPanics == Spec => []PanicNeedsTwo
<1>1. IInv => PanicNeedsTwo
  BY DEF IInv, Core
<1> QED
  BY <1>1, InvHolds, PTL
=============================================================================
