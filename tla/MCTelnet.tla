------------------------------ MODULE MCTelnet ------------------------------
(* Instances of Telnet. *)
EXTENDS Telnet

Suboption(payload) == <<T_IAC, T_SB>> \o Escape(payload) \o <<T_IAC, T_SE>>
ComPort(bytes) == Suboption(<<T_COM_PORT_OPTION>> \o bytes)
Negotiation(verb, option) == <<T_IAC, verb, option>>
DoComPort == Negotiation(T_DO, T_COM_PORT_OPTION)

\* A byte, an escaped byte and one that means something elsewhere.
SomeData == {<<7, T_IAC, T_IAC, T_SE>>}
SomeNegotiations == {DoComPort \o DoComPort, Negotiation(T_DONT, T_COM_PORT_OPTION) \o DoComPort,
                     Negotiation(T_WILL, T_COM_PORT_OPTION),
                     Negotiation(T_DO, T_BINARY) \o Negotiation(T_WILL, 99)}
SomeCommands == {ComPort(<<T_SET_CONTROL, 8>>), ComPort(<<T_PURGE_DATA, T_IAC>>),
                 ComPort(<<T_SET_BAUDRATE, 0, T_IAC, 1, 2>>)}
\* What the engine does not expect: a command too long, an end without a beginning
\* after a telnet command, a negotiation in a command; and a command without an end.
Unexpected == {ComPort(<<4, 1, 2, 3, 4, 5>>), <<T_IAC, 241, T_IAC, T_SE>>,
               <<T_IAC, T_SB, T_COM_PORT_OPTION>> \o DoComPort \o <<T_IAC, T_SE>>}

AllItems == SomeData \cup SomeNegotiations \cup SomeCommands \cup Unexpected
Unfinished == {<<>>, <<T_IAC, T_SB, T_COM_PORT_OPTION, T_SET_CONTROL, 9>>}

\* What follows a segment that the fast path took out of a suboption is not
\* explored: each way of cutting would leave other bytes behind.
Uncut == ~cut

FromDevice == {<<T_IAC, 3>>}
=============================================================================
