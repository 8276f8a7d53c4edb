---------------------------- MODULE TelnetStream ----------------------------
(***************************************************************************)
(* What a telnet stream says: the reading RFC 854 gives a whole stream of  *)
(* bytes, with no regard to how TCP cut it.  The engine of Telnet is       *)
(* compared with it, and so is what the engine sends.                      *)
(***************************************************************************)
EXTENDS Integers, FiniteSets, SequencesExt

T_SE == 240
T_SB == 250
T_WILL == 251
T_WONT == 252
T_DO == 253
T_DONT == 254
T_IAC == 255

DataToken(b) == [t |-> "data", b |-> b]
Neg(verb, option) == [t |-> "neg", verb |-> verb, opt |-> option]
Sub(payload) == [t |-> "sub", p |-> payload]
Open(payload) == [t |-> "open", p |-> payload]   \* the stream ends inside a suboption
Odd == [t |-> "odd"]                             \* a suboption with a telnet command in it
Stray == [t |-> "stray"]                         \* IAC SE with no suboption before it
Command == [t |-> "command"]

Of(kinds, tokens) ==
  FlattenSeq([i \in DOMAIN tokens |-> IF tokens[i].t \in kinds THEN <<tokens[i]>> ELSE <<>>])

Rest(s, n) == SubSeq(s, n + 1, Len(s))   \* what follows the first n bytes
EndsAt(s) == s = <<>> \/ s = <<T_IAC>>

\* The bytes of the suboption that goes on with s, what it is in the end, and where
\* the stream then goes on.
Inside[s \in Seq(0..255)] ==
  IF EndsAt(s) THEN [p |-> <<>>, is |-> "open", rest |-> <<>>]
  ELSE IF s[1] = T_IAC /\ s[2] # T_IAC
       THEN [p |-> <<>>, is |-> IF s[2] = T_SE THEN "sub" ELSE "odd", rest |-> Rest(s, 2)]
  ELSE LET more == Inside[Rest(s, IF s[1] = T_IAC THEN 2 ELSE 1)]
       IN  [more EXCEPT !.p = <<s[1]>> \o @]

\* The tokens of the stream s, read from its first byte.
Read[s \in Seq(0..255)] ==
  IF EndsAt(s) THEN <<>>
  ELSE IF s[1] # T_IAC THEN <<DataToken(s[1])>> \o Read[Rest(s, 1)]
  ELSE CASE s[2] = T_IAC -> <<DataToken(T_IAC)>> \o Read[Rest(s, 2)]
         [] s[2] \in T_WILL..T_DONT ->
              IF Len(s) = 2 THEN <<>> ELSE <<Neg(s[2], s[3])>> \o Read[Rest(s, 3)]
         [] s[2] = T_SB ->
              LET sub == Inside[Rest(s, 2)]
              IN  IF sub.is = "sub" THEN <<Sub(sub.p)>> \o Read[sub.rest]
                  ELSE IF sub.is = "open" THEN <<Open(sub.p)>> ELSE <<Odd>>
         [] s[2] = T_SE -> <<Stray>> \o Read[Rest(s, 2)]
         [] OTHER -> <<Command>> \o Read[Rest(s, 2)]
Parse(s) == Read[s]
=============================================================================
