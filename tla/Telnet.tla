------------------------------- MODULE Telnet -------------------------------
(***************************************************************************)
(* The telnet engine of main/rfc2217_server.c: what it makes of the bytes  *)
(* of one client after another, and the bytes it sends.                    *)
(*                                                                         *)
(* A client's stream is a sequence of items (a data byte, an option        *)
(* negotiation, a port command...) that TCP cuts into segments anywhere.   *)
(* A call of process_received_over_tcp with one segment is one step.  tn    *)
(* also keeps what went to the callbacks (log), what the engine meant to   *)
(* say (said) and the bytes it sent (wire), as tokens of TelnetStream and  *)
(* three of its own.                                                       *)
(***************************************************************************)
EXTENDS TelnetStream

CONSTANTS
  Items,        \* what a client may say, each a sequence of bytes
  MaxItems,     \* items per connection
  Tails,        \* how a client's stream may end
  RxSize,       \* the most bytes recv returns: sizeof tcp_rx_buffer - 1
  SubSize,      \* sizeof suboption
  DataSize,     \* config.data_buffer_size
  DeviceData,   \* what the serial port may give to rfc2217_server_send_data
  MaxSends      \* its calls per connection

T_BINARY == 0
T_ECHO == 1
T_SGA == 3
T_COM_PORT_OPTION == 44
T_SET_BAUDRATE == 1
T_SET_CONTROL == 5
T_PURGE_DATA == 12
\* SET_DATASIZE, SET_PARITY, SET_STOPSIZE, NOTIFY_LINESTATE, NOTIFY_MODEMSTATE:
\* answered, not supported.
Echoed == {2, 3, 4, 6, 7}
Server(command) == command + 100   \* T_SERVER_..., lines 54-66

ASSUMPTION TelnetAssumption ==
  /\ Items \cup Tails \cup DeviceData \subseteq Seq(0..255) /\ <<>> \notin Items
  /\ {MaxItems, RxSize, DataSize} \subseteq Nat \ {0}
  /\ SubSize \in Nat /\ SubSize >= 6
  /\ MaxSends \in Nat

VARIABLES
  tn,       \* the fields of rfc2217_server_s that the engine uses, and its output
  pipe,     \* bytes of the client TCP has not delivered yet
  seen,     \* bytes delivered on this connection
  cut,      \* a segment lay inside a suboption and had no IAC
  online,   \* a client is connected
  sends     \* calls of rfc2217_server_send_data on this connection

vars == <<tn, pipe, seen, cut, online, sends>>

-----------------------------------------------------------------------------
\* telnet_options_init.  T_REALLY_INACTIVE is no option's state at any time.
\* port: on_client_ok and telnet_send_option are set, which goes together.
OptionDef(option, initial, ours, port) ==
  [option |-> option, initial |-> initial, port |-> port,
   send_yes |-> IF ours THEN T_WILL ELSE T_DO, send_no |-> IF ours THEN T_WONT ELSE T_DONT,
   ack_yes |-> IF ours THEN T_DO ELSE T_WILL, ack_no |-> IF ours THEN T_DONT ELSE T_WONT]
option_defs ==
  << OptionDef(T_ECHO, "requested", TRUE, FALSE),
     OptionDef(T_SGA, "requested", TRUE, FALSE), OptionDef(T_SGA, "inactive", FALSE, FALSE),
     OptionDef(T_BINARY, "inactive", TRUE, FALSE), OptionDef(T_BINARY, "requested", FALSE, FALSE),
     OptionDef(T_COM_PORT_OPTION, "requested", TRUE, TRUE),
     OptionDef(T_COM_PORT_OPTION, "inactive", FALSE, TRUE) >>

\* tcp_receive_thread_fn resets everything but the bytes of suboption.
Fresh(suboption) ==
  [mode |-> "normal", command |-> 0, collecting |-> FALSE, suboption |-> suboption, size |-> 0,
   options |-> [i \in DOMAIN option_defs |-> option_defs[i].initial], rfc2217 |-> FALSE,
   buffer |-> <<>>, log |-> <<>>, said |-> <<>>, wire |-> <<>>]

-----------------------------------------------------------------------------
Escape(data) == FlattenSeq([i \in DOMAIN data |-> IF data[i] = T_IAC THEN <<T_IAC, T_IAC>> ELSE <<data[i]>>])

Send(e, bytes, meaning) == [e EXCEPT !.wire = @ \o bytes, !.said = @ \o meaning]
telnet_send_option(e, action, option) == Send(e, <<T_IAC, action, option>>, <<Neg(action, option)>>)
\* Mutant: 0xff is not escaped.
SubnegotiationRaw(e, command, data) ==
  Send(e, <<T_IAC, T_SB, T_COM_PORT_OPTION, command>> \o data \o <<T_IAC, T_SE>>,
       <<Sub(<<T_COM_PORT_OPTION, command>> \o data)>>)
rfc2217_send_subnegotiation(e, command, data) ==
  Send(e, <<T_IAC, T_SB, T_COM_PORT_OPTION, command>> \o Escape(data) \o <<T_IAC, T_SE>>,
       <<Sub(<<T_COM_PORT_OPTION, command>> \o data)>>)

Call(e, token) == [e EXCEPT !.log = Append(@, token)]
\* Mutant: the client is announced whenever the option becomes active.
ClientOkAgain(e) == Call([e EXCEPT !.rfc2217 = TRUE], [t |-> "connected"])
on_client_ok(e) == IF e.rfc2217 THEN e ELSE Call([e EXCEPT !.rfc2217 = TRUE], [t |-> "connected"])

\* Mutant: an agreement is answered whatever the state.
AnswerAlways(e, i, command) ==
  LET d == option_defs[i]
      f == [e EXCEPT !.options[i] = "active"]
  IN  IF command # d.ack_yes THEN e
      ELSE IF d.port THEN on_client_ok(telnet_send_option(f, d.send_yes, d.option)) ELSE f
telnet_option_process_incoming(e, i, command) ==
  LET d == option_defs[i]
      Set(state) == [e EXCEPT !.options[i] = state]
      Tell(f, action) == IF d.port THEN telnet_send_option(f, action, d.option) ELSE f
      Activated(f) == IF d.port THEN on_client_ok(f) ELSE f
  IN  CASE command = d.ack_yes /\ e.options[i] = "requested" -> Activated(Set("active"))
        [] command = d.ack_yes /\ e.options[i] = "inactive" -> Activated(Tell(Set("active"), d.send_yes))
        [] command = d.ack_no /\ e.options[i] = "requested" -> Set("inactive")
        [] command = d.ack_no /\ e.options[i] = "active" -> Tell(Set("inactive"), d.send_no)
        [] OTHER -> e

telnet_negotiate_option(e, option) ==
  LET known == SelectInSeq(option_defs, LAMBDA d : d.option = option) # 0
      Offer(f, i) == IF option_defs[i].option = option
                     THEN telnet_option_process_incoming(f, i, e.command) ELSE f
  IN  CASE known -> FoldLeftDomain(Offer, e, option_defs)
        [] ~known /\ e.command = T_WILL -> telnet_send_option(e, T_DONT, option)
        [] ~known /\ e.command = T_DO -> telnet_send_option(e, T_WONT, option)
        [] OTHER -> e

\* The bytes are taken from suboption, whatever suboption_size says.  The baud
\* rate stays the four bytes it arrives in.
process_subnegotiation(e) ==
  LET s == e.suboption
      command == s[2]
      Reply(f, data) == rfc2217_send_subnegotiation(f, Server(command), data)
  IN  CASE s[1] # T_COM_PORT_OPTION -> e
        [] s[1] = T_COM_PORT_OPTION /\ command = T_SET_BAUDRATE ->
             Reply(Call(e, [t |-> "baudrate", rate |-> SubSeq(s, 3, 6)]), SubSeq(s, 3, 6))
        [] s[1] = T_COM_PORT_OPTION /\ command = T_SET_CONTROL ->
             Reply(Call(e, [t |-> "control", v |-> s[3]]), <<s[3]>>)
        [] s[1] = T_COM_PORT_OPTION /\ command = T_PURGE_DATA ->
             Reply(Call(Reply(e, <<s[3]>>), [t |-> "purge", v |-> s[3]]), <<s[3]>>)
        [] s[1] = T_COM_PORT_OPTION /\ command \in Echoed -> Reply(e, <<s[3]>>)
        [] OTHER -> e
-----------------------------------------------------------------------------
Deliver(e, data) == [e EXCEPT !.log = @ \o [i \in DOMAIN data |-> DataToken(data[i])]]
Flush(e) == [Deliver(e, e.buffer) EXCEPT !.buffer = <<>>]

\* A byte that is not telnet's: of the suboption if one is being collected.
\* Mutant: one byte too many is collected.
CollectOneMore(e, c) ==
  IF e.size <= SubSize THEN [e EXCEPT !.suboption = [@ EXCEPT ![e.size + 1] = c], !.size = @ + 1]
  ELSE [e EXCEPT !.collecting = FALSE, !.size = 0]
Collect(e, c) ==
  IF e.size < SubSize THEN [e EXCEPT !.suboption[e.size + 1] = c, !.size = @ + 1]
  ELSE [e EXCEPT !.collecting = FALSE, !.size = 0]
Buffer(e, c) ==
  LET f == [e EXCEPT !.buffer = Append(@, c)]
  IN  IF Len(f.buffer) >= DataSize THEN Flush(f) ELSE f
Store(e, c) == IF e.collecting THEN Collect(e, c) ELSE Buffer(e, c)

InNormal(e, c) == IF c = T_IAC THEN [e EXCEPT !.mode = "got_iac"] ELSE Store(e, c)

\* Mutant: a suboption is collected behind what is left of the one before.
SuboptionNotEmptied(e, c) ==
  LET Normal(f) == [f EXCEPT !.mode = "normal"]
  IN  CASE c = T_IAC -> Normal(Store(e, c))
        [] c = T_SB -> Normal([e EXCEPT !.collecting = TRUE])
        [] c = T_SE -> Normal([process_subnegotiation(e) EXCEPT !.collecting = FALSE])
        [] c \in T_WILL..T_DONT -> [e EXCEPT !.command = c, !.mode = "negotiate"]
        [] OTHER -> Normal(e)
InGotIac(e, c) ==
  LET Normal(f) == [f EXCEPT !.mode = "normal"]
  IN  CASE c = T_IAC -> Normal(Store(e, c))
        [] c = T_SB -> Normal([e EXCEPT !.size = 0, !.collecting = TRUE])
        [] c = T_SE -> Normal([process_subnegotiation(e) EXCEPT !.size = 0, !.collecting = FALSE])
        [] c \in T_WILL..T_DONT -> [e EXCEPT !.command = c, !.mode = "negotiate"]
        [] OTHER -> Normal(e)

InNegotiate(e, c) == [telnet_negotiate_option(e, c) EXCEPT !.mode = "normal"]

Byte(e, c) == CASE e.mode = "normal" -> InNormal(e, c)
                [] e.mode = "got_iac" -> InGotIac(e, c)
                [] e.mode = "negotiate" -> InNegotiate(e, c)

\* Mutant: the mode is not looked at.
FastPathAnyMode(e, buf) == ~Contains(buf, T_IAC)
FastPath(e, buf) == e.mode = "normal" /\ ~Contains(buf, T_IAC)

process_received_over_tcp(e, buf) ==
  IF FastPath(e, buf) THEN Deliver(e, buf) ELSE Flush(FoldLeft(Byte, e, buf))
-----------------------------------------------------------------------------
Init ==
  /\ tn = Fresh([i \in 1..SubSize |-> 0])
  /\ pipe = <<>> /\ seen = <<>>
  /\ cut = FALSE /\ online = FALSE
  /\ sends = 0

\* A client connects and says some items; the receive thread starts.
Connect ==
  /\ ~online
  /\ \E n \in 1..MaxItems : \E said \in [1..n -> Items], tail \in Tails :
       pipe' = FlattenSeq(said) \o tail
  /\ tn' = Fresh(tn.suboption)
  /\ online' = TRUE
  /\ UNCHANGED <<seen, cut, sends>>

\* recv returns the next bytes, and they are processed.
Receive ==
  /\ online /\ pipe # <<>>
  /\ \E n \in 1 .. (IF Len(pipe) < RxSize THEN Len(pipe) ELSE RxSize) :
       LET buf == SubSeq(pipe, 1, n)
       IN  /\ tn' = process_received_over_tcp(tn, buf)
           /\ cut' = (cut \/ (tn.collecting /\ FastPath(tn, buf)))
           /\ seen' = seen \o buf
           /\ pipe' = SubSeq(pipe, n + 1, Len(pipe))
  /\ UNCHANGED <<online, sends>>

\* rfc2217_server_send_data, called by the task that reads the serial port.
\* tcp_send holds a mutex, so this is not in the middle of an answer.
SendData ==
  /\ online /\ sends < MaxSends
  /\ \E data \in DeviceData :
       tn' = Send(tn, Escape(data), [i \in DOMAIN data |-> DataToken(data[i])])
  /\ sends' = sends + 1
  /\ UNCHANGED <<pipe, seen, cut, online>>

\* The client closes and TCP has delivered what it said, which may end anywhere.
\* What was recorded of the connection is no longer needed.
Close ==
  /\ online /\ pipe = <<>>
  /\ online' = FALSE /\ seen' = <<>>
  /\ cut' = FALSE /\ sends' = 0
  /\ tn' = [tn EXCEPT !.log = <<>>, !.said = <<>>, !.wire = <<>>]
  /\ UNCHANGED pipe

Next == Connect \/ Receive \/ SendData \/ Close

Spec == Init /\ [][Next]_vars
-----------------------------------------------------------------------------
TypeOK ==
  /\ tn.mode \in {"normal", "got_iac", "negotiate"}
  /\ tn.command \in {0} \cup T_WILL..T_DONT
  /\ tn.collecting \in BOOLEAN /\ tn.rfc2217 \in BOOLEAN
  /\ tn.suboption \in [1..SubSize -> 0..255]
  /\ tn.size \in 0..SubSize
  /\ tn.options \in [DOMAIN option_defs -> {"requested", "active", "inactive"}]
  /\ tn.buffer = <<>>
  /\ {pipe, seen, tn.wire} \subseteq Seq(0..255)
  /\ cut \in BOOLEAN /\ online \in BOOLEAN
  /\ sends \in 0..MaxSends

Payloads(tokens) == {tokens[i].p : i \in {j \in DOMAIN tokens : tokens[j].t \in {"sub", "open"}}}
Fits == \A p \in Payloads(Parse(seen)) : Len(p) <= SubSize
\* RFC 855 has every IAC of a suboption doubled.
Doubled == Of({"odd"}, Parse(seen)) = <<>>

\* However TCP cuts the stream, and whatever negotiations and port commands lie
\* between the data, the serial port has got exactly the stream's data.  The two
\* exceptions are the code's: a segment inside a suboption that takes the fast
\* path (line 389), and a suboption longer than its buffer (409).
DataUnchanged == Doubled /\ ~cut /\ Fits => Of({"data"}, tn.log) = Of({"data"}, Parse(seen))

\* The callback and the answers a port command asks for.  A purge is answered
\* before and after its callback (lines 615 and 623).
Wanted(p) ==
  IF p[1] # T_COM_PORT_OPTION THEN <<>>
  ELSE CASE p[2] = T_SET_BAUDRATE -> <<[t |-> "baudrate", rate |-> SubSeq(p, 3, 6)]>>
         [] p[2] = T_SET_CONTROL -> <<[t |-> "control", v |-> p[3]]>>
         [] p[2] = T_PURGE_DATA -> <<[t |-> "purge", v |-> p[3]]>>
         [] OTHER -> <<>>
Answers(p) ==
  LET once == <<Sub(<<T_COM_PORT_OPTION, Server(p[2])>> \o SubSeq(p, 3, Len(p)))>>
  IN  IF p[1] # T_COM_PORT_OPTION THEN <<>>
      ELSE CASE p[2] = T_PURGE_DATA -> once \o once
             [] p[2] \in {T_SET_BAUDRATE, T_SET_CONTROL} \cup Echoed -> once
             [] OTHER -> <<>>
Each(F(_), tokens) ==
  FlattenSeq([i \in DOMAIN tokens |-> IF tokens[i].t = "sub" THEN F(tokens[i].p) ELSE <<>>])

\* Suboptions of the length RFC 2217 gives them, and no IAC SE without one.
WellFormed(tokens) ==
  /\ Of({"stray"}, tokens) = <<>>
  /\ \A i \in DOMAIN tokens :
       tokens[i].t = "sub" =>
         Len(tokens[i].p) = IF tokens[i].p[2] = T_SET_BAUDRATE THEN 6 ELSE 3

\* Each port command of the stream, and nothing else, reaches the callbacks and
\* is answered, once, in order and with its own values, although suboption keeps
\* the bytes of earlier commands and of earlier clients.
CommandsFaithful ==
  LET said == Parse(seen)
  IN  Doubled /\ ~cut /\ Fits /\ WellFormed(said) =>
        /\ Of({"baudrate", "control", "purge"}, tn.log) = Each(Wanted, said)
        /\ Of({"sub"}, tn.said) = Each(Answers, said)

\* on_client_connected is called once for a client that negotiated the COM port
\* option, and never for another, whoever was connected before.
ClientAnnounced ==
  LET said == Parse(seen)
      asked == \E i \in DOMAIN said :
                 said[i].t = "neg" /\ said[i].opt = T_COM_PORT_OPTION /\ said[i].verb \in {T_DO, T_WILL}
  IN  Doubled => Len(Of({"connected"}, tn.log)) = IF asked THEN 1 ELSE 0

\* The rule of RFC 854 that keeps two ends from answering each other for ever:
\* of the COM port option's answers no two in a row are the same, and the last one
\* says what state the option is in.
AnswersSettle ==
  \A i \in {6, 7} :
    LET d == option_defs[i]
        said == tn.said
        answers == {k \in DOMAIN said : /\ said[k].t = "neg" /\ said[k].opt = d.option
                                        /\ said[k].verb \in {d.send_yes, d.send_no}}
    IN  /\ \A j, k \in answers :
             j < k /\ (\A m \in answers : m <= j \/ k <= m) => said[j].verb # said[k].verb
        /\ \A k \in answers :
             (\A m \in answers : m <= k) => (said[k].verb = d.send_yes) = (tn.options[i] = "active")

\* A client that reads the stream by the rules gets the device's data and the
\* answers as they were meant, 0xff bytes in either included.
WireDecodes == Parse(tn.wire) = tn.said
=============================================================================
