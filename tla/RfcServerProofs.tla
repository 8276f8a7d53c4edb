-------------------------- MODULE RfcServerProofs --------------------------
(***************************************************************************)
(* Theorems about RfcServer.  Frames stay whole because the holder of the   *)
(* mutex has the only frame of which anything is on the wire and the rest   *)
(* is not, and what the present connection has of it ends the connection's  *)
(* bytes.  The promise of RfcSession is kept because at most one receive    *)
(* thread is there, the one that the server thread joins next.              *)
(***************************************************************************)
EXTENDS RfcServer, SequenceTheorems, TLAPS

USE RfcServerAssumption

Pieces == [frame : Senders \X Nat, k : 1..FrameLen]
OutTypes ==
  /\ frames \in Nat
  /\ wire \in [Clients -> Seq(Pieces)] /\ sending \in [Senders -> Seq(Pieces)]

\* The piece that s sends next.
Next1(s) == sending[s][1]

\* What s has left to send is the end of a frame of its own, ...
OwnRest ==
  \A s \in Senders : sending[s] # <<>> =>
    /\ \E n \in 0..frames - 1 : Next1(s).frame = <<s, n>>
    /\ Len(sending[s]) = FrameLen - Next1(s).k + 1
    /\ \A i \in 1..Len(sending[s]) : sending[s][i] = Piece(Next1(s).frame, Next1(s).k + i - 1)
\* ... all of one unless s holds the mutex, ...
WaitsWhole == \A s \in Senders : sending[s] # <<>> /\ mutex # s => Next1(s).k = 1
\* ... and only earlier pieces of it are on any connection, which has no later frame.
EarlierSent ==
  \A c \in Clients : \A i \in DOMAIN wire[c] :
    /\ wire[c][i].frame[2] < frames
    /\ \A s \in Senders :
         sending[s] # <<>> /\ wire[c][i].frame = Next1(s).frame => wire[c][i].k < Next1(s).k

\* The frame of the mutex's holder goes on where the present connection ends.
GoesOn ==
  Peer # Nobody /\ mutex # Nobody =>
    \A i \in DOMAIN wire[Peer] : wire[Peer][i].frame = Next1(mutex).frame =>
      wire[Peer][Len(wire[Peer])] = Piece(Next1(mutex).frame, Next1(mutex).k - 1)

\* A connection that the server has not accepted has got nothing.
FreshIsEmpty ==
  /\ \A c \in Clients : conn[c] \in {"new", "queued"} => wire[c] = <<>>
  /\ peer # Nobody => conn[peer] \in {"open", "shut"}

\* Until rfc2217_server_stop is called, the only receive thread that may be there is
\* the one that the server thread is about to join, or joins.
OneThread ==
  stop = "idle" =>
    /\ \A t \in Clients : rx[t] # "none" => t = tcp_receive_thread /\ server \in {"join", "joining"}
    /\ \A t \in Clients : joiner[t] # Nobody => t = tcp_receive_thread /\ joiner[t] = "server" /\ server = "joining"

IInv ==
  TypeOK /\ OutTypes /\ OwnRest /\ WaitsWhole /\ EarlierSent /\ GoesOn /\ FreshIsEmpty /\ FramesWhole /\ OneThread
-----------------------------------------------------------------------------
(* Frames, and what a write does to them.                                  *)

LEMMA Names ==
  Net \notin Clients /\ Nobody \notin Senders /\ Nobody \notin {"server", "stop"} /\ FrameLen \in Nat \ {0}
  BY DEF Senders

LEMMA Parts == \A frame, k : Piece(frame, k).frame = frame /\ Piece(frame, k).k = k
  BY DEF Piece

LEMMA Halves ==
  ASSUME NEW S, NEW s \in Seq(S), NEW n \in 1..Len(s)
  PROVE  /\ SubSeq(s, 1, n) \in Seq(S) /\ Len(SubSeq(s, 1, n)) = n
         /\ SubSeq(s, n + 1, Len(s)) \in Seq(S) /\ Len(SubSeq(s, n + 1, Len(s))) = Len(s) - n
         /\ \A i \in 1..n : SubSeq(s, 1, n)[i] = s[i]
         /\ \A i \in 1..Len(s) - n : SubSeq(s, n + 1, Len(s))[i] = s[n + i]
  OBVIOUS

LEMMA Joined ==
  ASSUME NEW S, NEW s \in Seq(S), NEW t \in Seq(S)
  PROVE  /\ s \o t \in Seq(S) /\ Len(s \o t) = Len(s) + Len(t) /\ DOMAIN (s \o t) = 1..Len(s) + Len(t)
         /\ \A i \in 1..Len(s) + Len(t) : (s \o t)[i] = IF i <= Len(s) THEN s[i] ELSE t[i - Len(s)]
  OBVIOUS

LEMMA FrameIsPieces ==
  ASSUME NEW s \in Senders, NEW n \in Nat
  PROVE  /\ Frame(<<s, n>>) \in Seq(Pieces) /\ Len(Frame(<<s, n>>)) = FrameLen
         /\ Frame(<<s, n>>) # <<>>
         /\ \A i \in 1..FrameLen : Frame(<<s, n>>)[i] = Piece(<<s, n>>, i)
<1>1. \A i \in 1..FrameLen : Piece(<<s, n>>, i) \in Pieces
  BY DEF Piece, Pieces
<1>2. Frame(<<s, n>>) \in Seq(Pieces) /\ Len(Frame(<<s, n>>)) = FrameLen
  BY <1>1, Names DEF Frame
<1> QED
  BY <1>2, Names DEF Frame

LEMMA RestIsPieces ==
  ASSUME OutTypes, OwnRest, NEW s \in Senders, sending[s] # <<>>
  PROVE  /\ sending[s] \in Seq(Pieces) /\ Len(sending[s]) \in Nat \ {0}
         /\ DOMAIN sending[s] = 1..Len(sending[s])
         /\ Next1(s) \in Pieces /\ Next1(s).k \in 1..FrameLen
         /\ \E n \in 0..frames - 1 : Next1(s).frame = <<s, n>>
         /\ Len(sending[s]) = FrameLen - Next1(s).k + 1
         /\ \A i \in 1..Len(sending[s]) : sending[s][i] = Piece(Next1(s).frame, Next1(s).k + i - 1)
<1>1. sending[s] \in Seq(Pieces)
  BY DEF OutTypes
<1>2. Len(sending[s]) \in Nat \ {0} /\ DOMAIN sending[s] = 1..Len(sending[s])
  BY <1>1
<1>3. Next1(s) \in Pieces
  BY <1>1, <1>2 DEF Next1
<1>4. Next1(s).k \in 1..FrameLen
  BY <1>3 DEF Pieces
<1> QED
  BY <1>1, <1>2, <1>3, <1>4 DEF OwnRest

LEMMA WireIsPieces ==
  ASSUME OutTypes, NEW c \in Clients
  PROVE  /\ wire[c] \in Seq(Pieces) /\ Len(wire[c]) \in Nat /\ DOMAIN wire[c] = 1..Len(wire[c])
         /\ \A i \in DOMAIN wire[c] : wire[c][i] \in Pieces /\ wire[c][i].k \in 1..FrameLen
<1>1. wire[c] \in Seq(Pieces)
  BY DEF OutTypes
<1>2. Len(wire[c]) \in Nat /\ DOMAIN wire[c] = 1..Len(wire[c])
  BY <1>1
<1>3. \A i \in DOMAIN wire[c] : wire[c][i] \in Pieces
  BY <1>1, <1>2
<1> QED
  BY <1>1, <1>2, <1>3 DEF Pieces

\* A send that takes n pieces, ...
Wrote(s, n) ==
  /\ Peer # Nobody /\ mutex = s /\ sending[s] # <<>>
  /\ sending' = [sending EXCEPT ![s] = SubSeq(@, n + 1, Len(@))]
  /\ wire' = [wire EXCEPT ![Peer] = @ \o SubSeq(sending[s], 1, n)]
\* ... and one that fails.
WroteNothing(s) ==
  /\ sending' = [sending EXCEPT ![s] = <<>>]
  /\ UNCHANGED wire

LEMMA WriteCases ==
  ASSUME TypeOK, NEW s \in Senders, Write(s)
  PROVE  /\ mutex = s /\ sending[s] # <<>>
         /\ WroteNothing(s) \/ \E n \in 1..Len(sending[s]) : Wrote(s, n)
  BY DEF Write, Wrote, WroteNothing, TypeOK

LEMMA PeerIsClient == TypeOK /\ Peer # Nobody => Peer \in Clients /\ Peer = peer
  BY DEF TypeOK, Peer

LEMMA WroteAdds ==
  ASSUME TypeOK, OutTypes, OwnRest, NEW s \in Senders, NEW n \in 1..Len(sending[s]), Wrote(s, n)
  PROVE  /\ wire'[Peer] \in Seq(Pieces)
         /\ DOMAIN wire'[Peer] = 1..Len(wire[Peer]) + n /\ Len(wire'[Peer]) = Len(wire[Peer]) + n
         /\ \A i \in DOMAIN wire'[Peer] :
              \/ i \in DOMAIN wire[Peer] /\ wire'[Peer][i] = wire[Peer][i]
              \/ /\ i > Len(wire[Peer]) /\ Next1(s).k + i - Len(wire[Peer]) - 1 \in 1..FrameLen
                 /\ wire'[Peer][i] = Piece(Next1(s).frame, Next1(s).k + i - Len(wire[Peer]) - 1)
         /\ \A d \in Clients : d # Peer => wire'[d] = wire[d]
<1> DEFINE c == Peer  l == Len(wire[c])  p == Next1(s)  now == SubSeq(sending[s], 1, n)
<1>1. c \in Clients /\ wire[c] \in Seq(Pieces) /\ l \in Nat /\ DOMAIN wire[c] = 1..l
  BY PeerIsClient, WireIsPieces DEF Wrote
<1>2. now \in Seq(Pieces) /\ Len(now) = n /\ n \in Nat \ {0} /\ \A i \in 1..n : now[i] = sending[s][i]
  BY RestIsPieces, Halves DEF Wrote
<1>3. \A i \in 1..n : p.k + i - 1 \in 1..FrameLen /\ now[i] = Piece(p.frame, p.k + i - 1)
  <2>1. /\ p.k \in 1..FrameLen /\ Len(sending[s]) = FrameLen - p.k + 1
        /\ \A i \in 1..Len(sending[s]) : sending[s][i] = Piece(p.frame, p.k + i - 1)
    BY RestIsPieces DEF Wrote
  <2>2. Len(sending[s]) \in Nat
    BY RestIsPieces DEF Wrote
  <2> HIDE DEF p, now
  <2>3. \A i \in 1..n : i \in 1..Len(sending[s]) /\ p.k + i - 1 \in 1..FrameLen
    BY <2>1, <2>2, Names
  <2> QED
    BY <1>2, <2>1, <2>3
<1>4. wire'[c] = wire[c] \o now /\ \A d \in Clients : d # c => wire'[d] = wire[d]
  BY <1>1 DEF Wrote, OutTypes
<1> HIDE DEF c, l, p, now
<1>5. /\ wire'[c] \in Seq(Pieces) /\ Len(wire'[c]) = l + n /\ DOMAIN wire'[c] = 1..l + n
      /\ \A i \in 1..l + n : wire'[c][i] = IF i <= l THEN wire[c][i] ELSE now[i - l]
  <2>1. wire[c] \in Seq(Pieces) /\ now \in Seq(Pieces)
    BY <1>1, <1>2
  <2>2. wire[c] \o now \in Seq(Pieces)
    BY <2>1, Joined
  <2>3. Len(wire[c] \o now) = Len(wire[c]) + Len(now) /\ DOMAIN (wire[c] \o now) = 1..Len(wire[c]) + Len(now)
    BY <2>1, Joined
  <2>4. \A i \in 1..Len(wire[c]) + Len(now) :
             (wire[c] \o now)[i] = IF i <= Len(wire[c]) THEN wire[c][i] ELSE now[i - Len(wire[c])]
    BY <2>1, Joined
  <2> QED
    BY <1>2, <1>4, <2>2, <2>3, <2>4 DEF l
<1>6. \A i \in DOMAIN wire'[c] :
        \/ i \in DOMAIN wire[c] /\ wire'[c][i] = wire[c][i]
        \/ i > l /\ p.k + i - l - 1 \in 1..FrameLen /\ wire'[c][i] = Piece(p.frame, p.k + i - l - 1)
  <2>1. ASSUME NEW i \in 1..l PROVE wire'[c][i] = wire[c][i]
    <3>1. i \in 1..l + n /\ i <= l
      BY <1>1, <1>2
    <3> QED
      BY <1>5, <3>1
  <2>2. ASSUME NEW i \in l + 1 .. l + n
        PROVE  /\ i > l /\ p.k + i - l - 1 \in 1..FrameLen
               /\ wire'[c][i] = Piece(p.frame, p.k + i - l - 1)
    <3>1. i \in 1..l + n /\ i - l \in 1..n /\ i > l
      BY <1>1, <1>2
    <3>2. wire'[c][i] = now[i - l]
      <4>1. ~(i <= l)
        BY <1>1, <3>1
      <4> QED
        BY <1>5, <3>1, <4>1
    <3>3. p.k + (i - l) - 1 \in 1..FrameLen /\ now[i - l] = Piece(p.frame, p.k + (i - l) - 1)
      BY <1>3, <3>1
    <3>4. p.k \in Int
      BY RestIsPieces DEF p, Wrote
    <3>5. p.k + (i - l) - 1 = p.k + i - l - 1
      BY <1>1, <3>4
    <3> QED
      BY <3>1, <3>2, <3>3, <3>5
  <2>3. DOMAIN wire'[c] = 1..l + n /\ DOMAIN wire[c] = 1..l
    BY <1>1, <1>5
  <2>4. \A i \in 1..l + n : i \in 1..l \/ i \in l + 1 .. l + n
    BY <1>1, <1>2
  <2> QED
    BY <2>1, <2>2, <2>3, <2>4
<1> QED
  BY <1>4, <1>5, <1>6 DEF c, l, p

LEMMA WroteLeaves ==
  ASSUME TypeOK, OutTypes, OwnRest, NEW s \in Senders, NEW n \in 1..Len(sending[s]), Wrote(s, n)
  PROVE  /\ sending'[s] \in Seq(Pieces)
         /\ sending'[s] # <<>> =>
              /\ n < Len(sending[s])
              /\ Next1(s)' = Piece(Next1(s).frame, Next1(s).k + n)
              /\ Len(sending'[s]) = Len(sending[s]) - n
              /\ \A i \in 1..Len(sending'[s]) : sending'[s][i] = Piece(Next1(s).frame, Next1(s).k + n + i - 1)
         /\ \A r \in Senders : r # s => sending'[r] = sending[r]
<1> DEFINE p == Next1(s)  m == Len(sending[s])
<1>1. /\ sending[s] \in Seq(Pieces) /\ m \in Nat \ {0} /\ p.k \in Nat
      /\ \A i \in 1..m : sending[s][i] = Piece(p.frame, p.k + i - 1)
  <2>1. p.k \in 1..FrameLen /\ 1..FrameLen \subseteq Nat
    BY RestIsPieces, Names DEF Wrote
  <2> HIDE DEF p
  <2> QED
    BY <2>1, RestIsPieces DEF Wrote, p
<1>2. sending'[s] = SubSeq(sending[s], n + 1, m) /\ \A r \in Senders : r # s => sending'[r] = sending[r]
  BY DEF Wrote, OutTypes
<1>3. /\ sending'[s] \in Seq(Pieces) /\ Len(sending'[s]) = m - n
      /\ \A i \in 1..m - n : sending'[s][i] = sending[s][n + i]
  BY <1>1, <1>2, Halves
<1>4. ASSUME sending'[s] # <<>>
      PROVE  /\ n < m /\ Next1(s)' = Piece(p.frame, p.k + n)
             /\ \A i \in 1..m - n : sending'[s][i] = Piece(p.frame, p.k + n + i - 1)
  <2>1. m - n \in Nat \ {0} /\ n \in 1..m
    BY <1>1, <1>3, <1>4
  <2> HIDE DEF p, m
  <2>2. \A i \in 1..m - n : n + i \in 1..m /\ p.k + (n + i) - 1 = p.k + n + i - 1
    BY <1>1, <2>1
  <2>3. \A i \in 1..m - n : sending'[s][i] = Piece(p.frame, p.k + n + i - 1)
    BY <1>1, <1>3, <2>2
  <2>4. 1 \in 1..m - n /\ p.k + n + 1 - 1 = p.k + n
    BY <1>1, <2>1
  <2>5. sending'[s][1] = Piece(p.frame, p.k + n)
    BY <2>3, <2>4
  <2> QED
    BY <1>1, <2>1, <2>3, <2>5 DEF Next1
<1> QED
  BY <1>2, <1>3, <1>4
-----------------------------------------------------------------------------
(* Types.                                                                  *)

\* The steps that leave frames and connections' bytes alone.
Silent ==
  \/ \E c \in Clients : ClientConnects(c) \/ ClientCloses(c) \/ RecvEnds(c)
  \/ ServerThread \/ Stop

LEMMA SilentLeavesOut == Silent => UNCHANGED out
  BY DEF Silent, ClientConnects, ClientCloses, RecvEnds, ServerThread, Listen, AcceptError, Accept, StartFails,
         ServerJoin, ServerJoined, CloseClient, Stop, StopBegins, StopJoined, StopJoinsServer, StopReturns

LEMMA Kinds ==
  Next => \/ Silent \/ NetSends \/ \E c \in Clients : Recv(c)
          \/ \E s \in Senders : Lock(s) \/ Write(s)
  BY DEF Next, Silent, Receiver

LEMMA TypeOfJoins ==
  ASSUME TypeOK, NEW who \in {"server", "stop"}, Reaps(who)
  PROVE  rx' \in [Clients -> {"none", "recv", "exit"}] /\ joiner' \in [Clients -> {Nobody, "server", "stop"}]
  BY DEF Reaps, TypeOK

LEMMA TypeOfSilent ==
  ASSUME TypeOK, Silent
  PROVE  TypeOK'
<1> USE Names DEF TypeOK, out, sock, fields, threads, Fd
<1>1. ASSUME NEW c \in Clients, ClientConnects(c) PROVE TypeOK'
  BY <1>1 DEF ClientConnects
<1>2. ASSUME NEW c \in Clients, ClientCloses(c) PROVE TypeOK'
  BY <1>2 DEF ClientCloses
<1>3. ASSUME NEW c \in Clients, RecvEnds(c) PROVE TypeOK'
  BY <1>3 DEF RecvEnds
<1>4. ASSUME NEW c \in Clients, Accept(c) PROVE TypeOK'
  BY <1>4 DEF Accept
<1>5. ASSUME NEW c \in Clients, StartFails(c) PROVE TypeOK'
  BY <1>5 DEF StartFails
<1>6. CASE Listen
  BY <1>6 DEF Listen
<1>7. CASE AcceptError
  BY <1>7 DEF AcceptError
<1>8. CASE ServerJoin
  BY <1>8 DEF ServerJoin, Joinable
<1>9. CASE ServerJoined
  BY <1>9, TypeOfJoins DEF ServerJoined
<1>10. CASE CloseClient
  BY <1>10 DEF CloseClient
<1>11. CASE StopBegins
  BY <1>11 DEF StopBegins, Joinable
<1>12. CASE StopJoined
  BY <1>12, TypeOfJoins DEF StopJoined
<1>13. CASE StopJoinsServer \/ StopReturns
  BY <1>13 DEF StopJoinsServer, StopReturns
<1> QED
  BY <1>1, <1>2, <1>3, <1>4, <1>5, <1>6, <1>7, <1>8, <1>9, <1>10, <1>11, <1>12, <1>13
  DEF Silent, ServerThread, Stop

\* A frame is begun.
Begun(s) ==
  /\ sending[s] = <<>>
  /\ sending' = [sending EXCEPT ![s] = Frame(<<s, frames>>)] /\ frames' = frames + 1
  /\ UNCHANGED <<mutex, wire, conn, peer, client_socket>>

LEMMA TypeOfRecv ==
  ASSUME TypeOK, OutTypes, NEW t \in Clients, Recv(t)
  PROVE  /\ Begun(t) \/ UNCHANGED <<out, conn, peer, client_socket>>
         /\ UNCHANGED <<mutex, tcp_receive_thread, threads>> /\ client_is_rfc2217' \in BOOLEAN
         /\ inbox' \in [Clients -> Seq(Requests)]
<1>1. Peer \in Clients /\ inbox[Peer] \in Seq(Requests) /\ inbox[Peer] # <<>>
  BY PeerIsClient DEF Recv, TypeOK
<1>2. Tail(inbox[Peer]) \in Seq(Requests)
  BY <1>1, HeadTailProperties
<1>3. inbox' \in [Clients -> Seq(Requests)]
  BY <1>1, <1>2 DEF Recv, TypeOK
<1>4. client_is_rfc2217' \in BOOLEAN
  BY DEF Recv, TypeOK
<1>5. Begun(t) \/ UNCHANGED <<out, conn, peer, client_socket>>
  BY DEF Recv, Begun, out
<1> QED
  BY <1>3, <1>4, <1>5 DEF Recv

LEMMA TypeOfBegun ==
  ASSUME OutTypes, NEW s \in Senders, Begun(s)
  PROVE  OutTypes' /\ (\A r \in Senders : sending[r] # <<>> => sending'[r] # <<>>)
<1>1. Frame(<<s, frames>>) \in Seq(Pieces) /\ Frame(<<s, frames>>) # <<>>
  BY FrameIsPieces DEF OutTypes
<1> QED
  BY <1>1 DEF Begun, OutTypes

LEMMA TypeOfWrite ==
  ASSUME TypeOK, OutTypes, OwnRest, NEW s \in Senders, Write(s)
  PROVE  OutTypes' /\ (\A r \in Senders : mutex' = r => sending'[r] # <<>>) /\ mutex' \in Senders \cup {Nobody}
<1>1. mutex = s /\ frames' = frames /\ mutex' = IF sending'[s] = <<>> THEN Nobody ELSE s
  BY DEF Write
<1>2. OutTypes'
  <2>1. CASE WroteNothing(s)
    BY <1>1, <2>1 DEF WroteNothing, OutTypes
  <2>2. ASSUME NEW n \in 1..Len(sending[s]), Wrote(s, n) PROVE OutTypes'
    <3>1. sending' \in [Senders -> Seq(Pieces)]
      <4>1. sending'[s] \in Seq(Pieces)
        BY <2>2, WroteLeaves
      <4> QED
        BY <2>2, <4>1 DEF Wrote, OutTypes
    <3>2. wire' \in [Clients -> Seq(Pieces)]
      <4>1. Peer \in Clients /\ wire'[Peer] \in Seq(Pieces)
        BY <2>2, WroteAdds, PeerIsClient DEF Wrote
      <4> QED
        BY <2>2, <4>1 DEF Wrote, OutTypes
    <3> QED
      BY <1>1, <3>1, <3>2 DEF OutTypes
  <2> QED
    BY <2>1, <2>2, WriteCases
<1> QED
  BY <1>1, <1>2, Names

LEMMA TypeOfSteps ==
  ASSUME TypeOK, OutTypes, OwnRest, Next
  PROVE  TypeOK' /\ OutTypes'
<1>1. CASE Silent
  BY <1>1, TypeOfSilent, SilentLeavesOut DEF out, OutTypes
<1>2. CASE NetSends
  <2>1. Begun(Net) /\ Net \in Senders /\ UNCHANGED <<sock, fields, threads, mutex>>
    BY <1>2 DEF NetSends, Begun, sock, fields, Senders
  <2> QED
    BY <2>1, TypeOfBegun DEF TypeOK, sock, fields, threads
<1>3. ASSUME NEW t \in Clients, Recv(t) PROVE TypeOK' /\ OutTypes'
  <2>1. CASE Begun(t)
    <3>1. OutTypes' /\ \A r \in Senders : sending[r] # <<>> => sending'[r] # <<>>
      BY <2>1, TypeOfBegun DEF Senders
    <3> QED
      BY <1>3, <2>1, <3>1, TypeOfRecv DEF Begun, TypeOK, threads
  <2>2. CASE UNCHANGED <<out, conn, peer, client_socket>>
    BY <1>3, <2>2, TypeOfRecv DEF TypeOK, OutTypes, threads, out
  <2> QED
    BY <1>3, <2>1, <2>2, TypeOfRecv
<1>4. ASSUME NEW s \in Senders, Lock(s) PROVE TypeOK' /\ OutTypes'
  BY <1>4, Names DEF Lock, TypeOK, OutTypes, sock, fields, threads
<1>5. ASSUME NEW s \in Senders, Write(s) PROVE TypeOK' /\ OutTypes'
  <2>1. UNCHANGED <<sock, fields, threads>>
    BY <1>5 DEF Write
  <2> QED
    BY <1>5, <2>1, TypeOfWrite DEF TypeOK, sock, fields, threads
<1> QED
  BY <1>1, <1>2, <1>3, <1>4, <1>5, Kinds
-----------------------------------------------------------------------------
(* Frames.                                                                 *)

Frames == OwnRest /\ WaitsWhole /\ EarlierSent /\ GoesOn /\ FramesWhole

\* The connection changes hands only between a client's pieces and a new one's.
LEMMA PeerOfSilent ==
  ASSUME TypeOK, FreshIsEmpty, Silent
  PROVE  FreshIsEmpty' /\ (Peer' = Peer \/ Peer' = Nobody \/ wire'[Peer'] = <<>>)
<1> USE DEF FreshIsEmpty, TypeOK, sock, fields, Peer, Fd, out
<1>1. UNCHANGED wire
  BY SilentLeavesOut
<1>2. ASSUME NEW c \in Clients, ClientConnects(c) \/ ClientCloses(c) \/ RecvEnds(c)
      PROVE  FreshIsEmpty' /\ Peer' = Peer
  BY <1>1, <1>2 DEF ClientConnects, ClientCloses, RecvEnds
<1>3. ASSUME NEW c \in Clients, Accept(c) \/ StartFails(c)
      PROVE  FreshIsEmpty' /\ wire'[Peer'] = <<>>
  BY <1>1, <1>3 DEF Accept, StartFails
<1>4. CASE AcceptError \/ CloseClient
  BY <1>1, <1>4 DEF AcceptError, CloseClient
<1>5. CASE Listen \/ ServerJoin \/ ServerJoined \/ Stop
  BY <1>1, <1>5 DEF Listen, ServerJoin, ServerJoined, Stop, StopBegins, StopJoined, StopJoinsServer, StopReturns
<1> QED
  BY <1>2, <1>3, <1>4, <1>5 DEF Silent, ServerThread

LEMMA FramesOfSilent ==
  ASSUME Frames, UNCHANGED out, Peer' = Peer \/ Peer' = Nobody \/ wire'[Peer'] = <<>>
  PROVE  Frames'
<1> USE DEF out
<1>1. OwnRest' /\ WaitsWhole'
  BY DEF Frames, OwnRest, WaitsWhole, Next1
<1>2. EarlierSent' /\ FramesWhole'
  BY DEF Frames, EarlierSent, FramesWhole, Next1
<1>3. GoesOn'
  BY DEF Frames, GoesOn, Next1
<1> QED
  BY <1>1, <1>2, <1>3 DEF Frames

LEMMA FramesOfBegun ==
  ASSUME TypeOK, OutTypes, Frames, NEW s \in Senders, Begun(s)
  PROVE  Frames'
<1> DEFINE f == <<s, frames>>
<1>1. /\ sending'[s] = Frame(f) /\ Frame(f) # <<>> /\ Len(Frame(f)) = FrameLen
      /\ \A i \in 1..FrameLen : Frame(f)[i] = Piece(f, i)
      /\ frames \in Nat /\ frames' = frames + 1
  <2>1. frames \in Nat /\ frames' = frames + 1 /\ sending'[s] = Frame(f)
    BY DEF Begun, OutTypes
  <2> QED
    BY <2>1, FrameIsPieces
<1>2. Next1(s)' = Piece(f, 1) /\ Next1(s)'.frame = f /\ Next1(s)'.k = 1
  <2>1. 1 \in 1..FrameLen
    BY Names
  <2>2. Next1(s)' = Piece(f, 1)
    BY <1>1, <2>1 DEF Next1
  <2> QED
    BY <2>2 DEF Piece
<1>3. \A r \in Senders : r # s => sending'[r] = sending[r] /\ Next1(r)' = Next1(r)
  BY DEF Begun, OutTypes, Next1
<1>4. OwnRest'
  <2> SUFFICES ASSUME NEW r \in Senders, sending'[r] # <<>>
               PROVE  /\ \E n \in 0..frames' - 1 : Next1(r)'.frame = <<r, n>>
                      /\ Len(sending'[r]) = FrameLen - Next1(r)'.k + 1
                      /\ \A i \in 1..Len(sending'[r]) :
                           sending'[r][i] = Piece(Next1(r)'.frame, Next1(r)'.k + i - 1)
    BY DEF OwnRest
  <2>1. CASE r = s
    <3>1. frames \in 0..frames' - 1
      BY <1>1
    <3>2. Next1(r)'.frame = <<r, frames>> /\ Next1(r)'.k = 1
      BY <1>2, <2>1
    <3>3. Len(sending'[r]) = FrameLen - 1 + 1
      BY <1>1, <2>1, Names
    <3>4. \A i \in 1..FrameLen : sending'[r][i] = Piece(<<r, frames>>, 1 + i - 1)
      <4>1. \A i \in 1..FrameLen : 1 + i - 1 = i
        BY Names
      <4> QED
        BY <1>1, <2>1, <4>1
    <3>5. FrameLen - 1 + 1 = FrameLen
      BY Names
    <3> QED
      BY <3>1, <3>2, <3>3, <3>4, <3>5
  <2>2. CASE r # s
    <3>1. 0..frames - 1 \subseteq 0..frames' - 1
      BY <1>1
    <3> QED
      BY <1>3, <2>2, <3>1 DEF Frames, OwnRest
  <2> QED
    BY <2>1, <2>2
<1>5. WaitsWhole'
  BY <1>2, <1>3 DEF Begun, Frames, WaitsWhole
<1>6. EarlierSent'
  <2> SUFFICES ASSUME NEW c \in Clients, NEW i \in DOMAIN wire[c]
               PROVE  /\ wire[c][i].frame[2] < frames'
                      /\ \A r \in Senders : sending'[r] # <<>> /\ wire[c][i].frame = Next1(r)'.frame
                                              => wire[c][i].k < Next1(r)'.k
    BY DEF EarlierSent, Begun
  <2>1. wire[c][i].frame[2] < frames /\ wire[c][i].frame[2] \in Nat
    BY WireIsPieces DEF Frames, EarlierSent, Pieces
  <2>2. wire[c][i].frame # f
    BY <1>1, <2>1
  <2>3. wire[c][i].frame[2] < frames'
    BY <1>1, <2>1
  <2>4. ASSUME NEW r \in Senders, sending'[r] # <<>>, wire[c][i].frame = Next1(r)'.frame
        PROVE  wire[c][i].k < Next1(r)'.k
    <3>1. r # s
      BY <1>2, <2>2, <2>4
    <3> QED
      BY <1>3, <2>4, <3>1 DEF Frames, EarlierSent
  <2> QED
    BY <2>3, <2>4
<1>7. GoesOn'
  <2>1. mutex # s
    BY DEF TypeOK, Begun
  <2>2. mutex # Nobody => mutex \in Senders
    BY DEF TypeOK
  <2>3. Peer' = Peer
    BY DEF Peer, Begun
  <2>4. mutex # Nobody => Next1(mutex)' = Next1(mutex)
    BY <2>1, <1>3, <2>2 DEF Begun, Next1
  <2> QED
    BY <2>3, <2>4 DEF Begun, Frames, GoesOn
<1> QED
  BY <1>4, <1>5, <1>6, <1>7 DEF Begun, Frames, FramesWhole

LEMMA FramesOfLock ==
  ASSUME TypeOK, OutTypes, Frames, NEW s \in Senders, Lock(s)
  PROVE  Frames'
<1>1. mutex' = s /\ UNCHANGED <<sending, frames, wire>> /\ Peer' = Peer /\ mutex = Nobody /\ sending[s] # <<>>
  BY DEF Lock, Peer, sock, fields
<1>2. Next1(s).k = 1
  BY <1>1, Names DEF Frames, WaitsWhole
<1>3. GoesOn'
  <2> SUFFICES ASSUME Peer # Nobody, NEW i \in DOMAIN wire[Peer], wire[Peer][i].frame = Next1(s).frame
               PROVE  FALSE
    BY <1>1 DEF GoesOn, Next1
  <2>1. Peer \in Clients
    BY PeerIsClient
  <2>2. wire[Peer][i].k < 1
    BY <1>1, <1>2, <2>1 DEF Frames, EarlierSent
  <2>3. wire[Peer][i].k \in 1..FrameLen
    BY <2>1, WireIsPieces
  <2> QED
    BY <2>2, <2>3, Names
<1>4. OwnRest' /\ WaitsWhole'
  BY <1>1, Names DEF Frames, OwnRest, WaitsWhole, Next1
<1>5. EarlierSent' /\ FramesWhole'
  BY <1>1 DEF Frames, EarlierSent, FramesWhole, Next1
<1> QED
  BY <1>3, <1>4, <1>5 DEF Frames

LEMMA FramesOfWriteFailing ==
  ASSUME TypeOK, OutTypes, Frames, NEW s \in Senders, Write(s), WroteNothing(s)
  PROVE  Frames'
<1>1. /\ mutex = s /\ sending'[s] = <<>> /\ mutex' = Nobody
      /\ UNCHANGED <<frames, wire>>
      /\ \A r \in Senders : r # s => sending'[r] = sending[r] /\ Next1(r)' = Next1(r)
  BY DEF Write, WroteNothing, OutTypes, Next1
<1>2. OwnRest'
  BY <1>1 DEF Frames, OwnRest
<1>3. WaitsWhole'
  BY <1>1 DEF Frames, WaitsWhole
<1>4. EarlierSent'
  BY <1>1 DEF Frames, EarlierSent
<1>5. GoesOn' /\ FramesWhole'
  BY <1>1 DEF Frames, GoesOn, FramesWhole
<1> QED
  BY <1>2, <1>3, <1>4, <1>5 DEF Frames
-----------------------------------------------------------------------------

\* A connection's pieces stay in the order of their frames when the next pieces of f
\* are added behind the last.
Contiguous(w, m) ==
  \A i, j \in 1..m : i < j /\ w[i].frame = w[j].frame =>
    \A k \in i..j : w[k] = Piece(w[i].frame, w[i].k + k - i)

LEMMA Appending ==
  ASSUME NEW l \in Nat, NEW n \in Nat, NEW first \in Nat, NEW f, NEW w, NEW v,
         \A i \in 1..l : v[i] = w[i] /\ w[i].k \in Nat,
         \A i \in l + 1 .. l + n : v[i] = Piece(f, first + i - l - 1),
         Contiguous(w, l),
         \A i \in 1..l : w[i].frame = f => w[l] = Piece(f, first - 1)
  PROVE  Contiguous(v, l + n)
<1> SUFFICES ASSUME NEW i \in 1..l + n, NEW j \in 1..l + n, i < j, v[i].frame = v[j].frame, NEW k \in i..j
             PROVE  v[k] = Piece(v[i].frame, v[i].k + k - i)
  BY DEF Contiguous
<1>1. i \in Int /\ j \in Int /\ k \in Int /\ i <= k /\ k <= j /\ 1 <= i /\ j <= l + n
  OBVIOUS
<1>2. CASE j <= l
  <2>1. i \in 1..l /\ j \in 1..l /\ k \in 1..l
    BY <1>1, <1>2
  <2>2. v[i] = w[i] /\ v[j] = w[j] /\ v[k] = w[k]
    BY <2>1
  <2> QED
    BY <2>1, <2>2 DEF Contiguous
<1>3. CASE l < i
  <2>1. i \in l + 1 .. l + n /\ k \in l + 1 .. l + n
    BY <1>1, <1>3
  <2>2. v[i] = Piece(f, first + i - l - 1) /\ v[k] = Piece(f, first + k - l - 1)
    BY <2>1
  <2>3. v[i].frame = f /\ v[i].k = first + i - l - 1
    BY <2>2, Parts
  <2>4. first + i - l - 1 + k - i = first + k - l - 1
    BY <1>1
  <2> QED
    BY <2>2, <2>3, <2>4
\* The frame has an earlier piece: it is the frame of the last one.
<1>4. CASE i <= l /\ l < j
  <2>1. i \in 1..l /\ l \in 1..l /\ j \in l + 1 .. l + n
    BY <1>1, <1>4
  <2>2. v[i] = w[i] /\ w[i].k \in Nat /\ v[j].frame = f
    <3>1. v[j] = Piece(f, first + j - l - 1)
      BY <2>1
    <3>2. v[j].frame = f
      BY <3>1, Parts
    <3> QED
      BY <2>1, <3>2
  <2>3. w[i].frame = f /\ w[l] = Piece(f, first - 1)
    BY <2>1, <2>2
  <2>4. w[l].frame = f /\ w[l].k = first - 1
    BY <2>3, Parts
  <2>5. \A m \in i..l : w[m] = Piece(f, w[i].k + m - i)
    <3>1. CASE i < l
      BY <2>1, <2>3, <2>4, <3>1 DEF Contiguous
    <3>2. CASE i = l
      <4>1. w[i].k + i - i = first - 1 /\ i..l = {i}
        BY <1>1, <2>2, <2>4, <3>2
      <4> QED
        BY <2>3, <3>2, <4>1
    <3> QED
      BY <1>1, <1>4, <3>1, <3>2
  <2>6. l \in i..l
    BY <1>1, <1>4
  <2>7. w[i].k + l - i = first - 1
    <3>1. w[l] = Piece(f, w[i].k + l - i)
      BY <2>5, <2>6
    <3> QED
      BY <2>4, <3>1, Parts
  <2>8. CASE k <= l
    <3>1. k \in i..l /\ k \in 1..l
      BY <1>1, <2>8
    <3> QED
      BY <2>2, <2>3, <2>5, <3>1
  <2>9. CASE l < k
    <3>1. k \in l + 1 .. l + n
      BY <1>1, <2>9
    <3>2. w[i].k + k - i = first + k - l - 1
      BY <1>1, <2>2, <2>7
    <3> QED
      BY <2>2, <2>3, <3>1, <3>2
  <2> QED
    BY <1>1, <2>8, <2>9
<1> QED
  BY <1>1, <1>2, <1>3, <1>4

\* The pieces that a write adds are the next ones of the frame it goes on with.
LEMMA FramesOfWriting ==
  ASSUME TypeOK, OutTypes, Frames, NEW s \in Senders, Write(s),
         NEW n \in 1..Len(sending[s]), Wrote(s, n)
  PROVE  Frames'
<1> DEFINE c == Peer  l == Len(wire[c])  p == Next1(s)  f == p.frame
<1>1. OwnRest /\ mutex = s /\ sending[s] # <<>> /\ frames' = frames /\ c # Nobody /\ c \in Clients /\ Peer' = c
  BY PeerIsClient DEF Write, Wrote, Frames, Peer, sock, fields
<1>2. /\ p.k \in Nat /\ l \in Nat /\ n \in Nat \ {0} /\ DOMAIN wire[c] = 1..l
      /\ \E k \in 0..frames - 1 : f = <<s, k>>
  <2>1. p.k \in 1..FrameLen /\ Len(sending[s]) \in Nat /\ \E k \in 0..frames - 1 : f = <<s, k>>
    BY <1>1, RestIsPieces
  <2>2. l \in Nat /\ DOMAIN wire[c] = 1..l
    BY <1>1, WireIsPieces
  <2> QED
    BY <2>1, <2>2, Names
\* What was there, and what is new.
<1>3. /\ DOMAIN wire'[c] = 1..l + n /\ Len(wire'[c]) = l + n
      /\ \A i \in 1..l : wire'[c][i] = wire[c][i]
      /\ \A i \in l + 1 .. l + n : wire'[c][i] = Piece(f, p.k + i - l - 1)
      /\ \A d \in Clients : d # c => wire'[d] = wire[d]
  <2>1. /\ DOMAIN wire'[c] = 1..l + n /\ Len(wire'[c]) = l + n
        /\ \A i \in DOMAIN wire'[c] :
             \/ i \in DOMAIN wire[c] /\ wire'[c][i] = wire[c][i]
             \/ i > l /\ wire'[c][i] = Piece(f, p.k + i - l - 1)
        /\ \A d \in Clients : d # c => wire'[d] = wire[d]
    BY <1>1, WroteAdds
  <2> HIDE DEF c, l, p, f
  <2>2. \A i \in 1..l : i \in 1..l + n /\ ~(i > l)
    BY <1>2
  <2>3. \A i \in l + 1 .. l + n : i \in 1..l + n /\ i \notin 1..l
    BY <1>2
  <2> QED
    BY <1>2, <2>1, <2>2, <2>3
<1>4. /\ sending'[s] # <<>> =>
           /\ Next1(s)' = Piece(f, p.k + n)
           /\ Len(sending'[s]) = Len(sending[s]) - n
           /\ \A i \in 1..Len(sending'[s]) : sending'[s][i] = Piece(f, p.k + n + i - 1)
      /\ \A r \in Senders : r # s => sending'[r] = sending[r] /\ Next1(r)' = Next1(r)
  BY <1>1, WroteLeaves DEF Next1
\* Nothing that is on a connection is a piece of the rest, and the pieces there.
<1>5. \A d \in Clients : \A i \in DOMAIN wire[d] : wire[d][i].frame = f => wire[d][i].k < p.k
  BY <1>1 DEF Frames, EarlierSent
<1>6. \A r \in Senders : sending[r] # <<>> /\ Next1(r).frame = f => r = s
  <2> SUFFICES ASSUME NEW r \in Senders, sending[r] # <<>>, Next1(r).frame = f PROVE r = s
    OBVIOUS
  <2>1. \E k \in 0..frames - 1 : Next1(r).frame = <<r, k>>
    BY DEF Frames, OwnRest
  <2> QED
    BY <1>2, <2>1
<1>7. \A d \in Clients : \A i \in DOMAIN wire[d] : wire[d][i].k \in Nat
  BY WireIsPieces, Names
<1> HIDE DEF c, l, p, f
<1>8. OwnRest'
  <2> SUFFICES ASSUME NEW r \in Senders, sending'[r] # <<>>
               PROVE  /\ \E k \in 0..frames' - 1 : Next1(r)'.frame = <<r, k>>
                      /\ Len(sending'[r]) = FrameLen - Next1(r)'.k + 1
                      /\ \A i \in 1..Len(sending'[r]) :
                           sending'[r][i] = Piece(Next1(r)'.frame, Next1(r)'.k + i - 1)
    BY DEF OwnRest
  <2>1. CASE r = s
    <3>1. Next1(s)'.frame = f /\ Next1(s)'.k = p.k + n
      BY <1>4, <2>1 DEF Piece
    <3>2. Len(sending[s]) = FrameLen - p.k + 1
      BY <1>1 DEF OwnRest, p
    <3>3. FrameLen - p.k + 1 - n = FrameLen - (p.k + n) + 1
      BY <1>2, Names
    <3>4. \E k \in 0..frames' - 1 : Next1(r)'.frame = <<r, k>>
      BY <1>1, <1>2, <2>1, <3>1
    <3>5. Len(sending'[s]) = FrameLen - (p.k + n) + 1
      <4>1. Len(sending'[s]) = Len(sending[s]) - n
        BY <1>4, <2>1
      <4> QED
        BY <1>2, <3>2, <4>1, Names
    <3>6. \A i \in 1..Len(sending'[s]) : sending'[s][i] = Piece(f, p.k + n + i - 1)
      BY <1>4, <2>1
    <3> QED
      BY <2>1, <3>1, <3>4, <3>5, <3>6
  <2>2. CASE r # s
    <3>1. sending'[r] = sending[r] /\ Next1(r)' = Next1(r) /\ frames' = frames
      BY <1>1, <1>4, <2>2
    <3>2. OwnRest
      BY <1>1
    <3> QED
      BY <3>1, <3>2 DEF OwnRest
  <2> QED
    BY <2>1, <2>2
<1>9. WaitsWhole'
  <2> SUFFICES ASSUME NEW r \in Senders, sending'[r] # <<>>, mutex' # r PROVE Next1(r)'.k = 1
    BY DEF WaitsWhole
  <2>1. r # s
    BY DEF Write
  <2> QED
    BY <1>1, <1>4, <2>1 DEF Frames, WaitsWhole
<1>10. EarlierSent'
  <2> SUFFICES ASSUME NEW d \in Clients, NEW i \in DOMAIN wire'[d]
               PROVE  /\ wire'[d][i].frame[2] < frames'
                      /\ \A r \in Senders : sending'[r] # <<>> /\ wire'[d][i].frame = Next1(r)'.frame
                                              => wire'[d][i].k < Next1(r)'.k
    BY DEF EarlierSent
  <2>1. CASE i \in DOMAIN wire[d] /\ wire'[d][i] = wire[d][i]
    <3>1. wire'[d][i].frame[2] < frames'
      BY <1>1, <2>1 DEF Frames, EarlierSent
    <3>2. ASSUME NEW r \in Senders, sending'[r] # <<>>, wire'[d][i].frame = Next1(r)'.frame
          PROVE  wire'[d][i].k < Next1(r)'.k
      <4>1. CASE r = s
        <5>1. Next1(s)'.frame = f /\ Next1(s)'.k = p.k + n
          BY <1>4, <3>2, <4>1 DEF Piece
        <5>2. wire[d][i].k < p.k /\ wire[d][i].k \in Nat
          BY <1>5, <1>7, <2>1, <3>2, <4>1, <5>1
        <5> QED
          BY <1>2, <2>1, <4>1, <5>1, <5>2
      <4>2. CASE r # s
        BY <1>4, <2>1, <3>2, <4>2 DEF Frames, EarlierSent
      <4> QED
        BY <4>1, <4>2
    <3> QED
      BY <3>1, <3>2
  <2>2. CASE d = c /\ i \in l + 1 .. l + n
    <3>1. wire'[d][i].frame = f /\ wire'[d][i].k = p.k + i - l - 1
      <4>1. wire'[d][i] = Piece(f, p.k + i - l - 1)
        BY <1>3, <2>2
      <4> QED
        BY <4>1, Parts
    <3>2. wire'[d][i].frame[2] < frames'
      <4>1. f[2] \in 0..frames - 1
        BY <1>2
      <4>2. frames \in Int
        BY DEF OutTypes
      <4> QED
        BY <1>1, <3>1, <4>1, <4>2
    <3>3. ASSUME NEW r \in Senders, sending'[r] # <<>>, f = Next1(r)'.frame
          PROVE  wire'[d][i].k < Next1(r)'.k
      <4>1. r = s
        BY <1>4, <1>6, <3>3
      <4>2. Next1(s)'.k = p.k + n
        BY <1>4, <3>3, <4>1 DEF Piece
      <4> QED
        BY <1>2, <2>2, <3>1, <4>1, <4>2
    <3> QED
      BY <3>1, <3>2, <3>3
  <2>3. CASE d # c
    <3>1. wire'[d] = wire[d]
      BY <1>3, <2>3
    <3> QED
      BY <2>1, <3>1
  <2>4. CASE d = c
    <3>1. i \in 1..l + n
      BY <1>3, <2>4
    <3>2. i \in 1..l \/ i \in l + 1 .. l + n
      BY <1>2, <3>1
    <3>3. CASE i \in 1..l
      <4>1. i \in DOMAIN wire[d] /\ wire'[d][i] = wire[d][i]
        BY <1>2, <1>3, <2>4, <3>3
      <4> QED
        BY <2>1, <4>1
    <3> QED
      BY <2>2, <2>4, <3>2, <3>3
  <2> QED
    BY <2>3, <2>4
<1>11. GoesOn'
  <2> SUFFICES ASSUME mutex' # Nobody
               PROVE  wire'[c][Len(wire'[c])] = Piece(Next1(s)'.frame, Next1(s)'.k - 1)
    BY <1>1 DEF GoesOn, Write, Next1
  <2>1. sending'[s] # <<>> /\ mutex' = s
    BY <1>1 DEF Write
  <2>2. Next1(s)'.frame = f /\ Next1(s)'.k = p.k + n
    BY <1>4, <2>1 DEF Piece
  <2>3. l + n \in l + 1 .. l + n /\ p.k + (l + n) - l - 1 = p.k + n - 1
    BY <1>2
  <2>4. wire'[c][l + n] = Piece(f, p.k + n - 1)
    BY <1>3, <2>3
  <2>5. Len(wire'[c]) = l + n
    BY <1>3
  <2>6. Next1(s)'.k - 1 = p.k + n - 1
    BY <1>2, <2>2
  <2> QED
    BY <2>2, <2>4, <2>5, <2>6
<1>12. FramesWhole'
  <2>1. \A d \in Clients : Contiguous(wire'[d], Len(wire'[d]))
    <3>1. \A d \in Clients : Contiguous(wire[d], Len(wire[d]))
      BY WireIsPieces DEF Frames, FramesWhole, Contiguous
    <3>2. \A i \in 1..l : wire[c][i].k \in Nat
      BY <1>1, <1>2, <1>7
    <3>3. \A i \in 1..l : wire[c][i].frame = f => wire[c][l] = Piece(f, p.k - 1)
      <4>1. Next1(mutex).frame = f /\ Next1(mutex).k = p.k /\ mutex # Nobody
        BY <1>1, Names DEF p, f
      <4>2. \A i \in DOMAIN wire[Peer] : wire[Peer][i].frame = f => wire[Peer][Len(wire[Peer])] = Piece(f, p.k - 1)
        BY <1>1, <4>1 DEF Frames, GoesOn, c
      <4> QED
        BY <1>2, <4>2 DEF c, l
    <3>4. Contiguous(wire[c], l)
      BY <1>1, <3>1 DEF l
    <3>5. Contiguous(wire'[c], l + n)
      BY <1>2, <1>3, <3>2, <3>3, <3>4, Appending
    <3> QED
      BY <1>3, <3>1, <3>5
  <2>2. \A m \in l + 1 .. l + n : \A b \in Clients : \A o \in DOMAIN wire[b] : wire'[c][m] # wire[b][o]
    <3> SUFFICES ASSUME NEW m \in l + 1 .. l + n, NEW b \in Clients, NEW o \in DOMAIN wire[b],
                        wire[b][o] = Piece(f, p.k + m - l - 1)
                 PROVE  FALSE
      BY <1>3
    <3>1. p.k + m - l - 1 < p.k
      BY <1>5 DEF Piece
    <3>2. p.k \in Int /\ l \in Int /\ m \in Int /\ m >= l + 1
      BY <1>2
    <3> QED
      BY <3>1, <3>2
  <2>3. ASSUME NEW d \in Clients, NEW i \in DOMAIN wire'[c], NEW j \in DOMAIN wire[d], d # c
        PROVE  wire'[c][i] # wire[d][j]
    <3>1. CASE i \in 1..l
      <4>1. wire'[c][i] = wire[c][i] /\ i \in DOMAIN wire[c]
        BY <1>2, <1>3, <3>1
      <4> QED
        BY <1>1, <2>3, <4>1 DEF Frames, FramesWhole
    <3>2. CASE i \in l + 1 .. l + n
      BY <2>2, <3>2
    <3> QED
      BY <1>2, <1>3, <3>1, <3>2
  <2>4. ASSUME NEW d \in Clients, NEW e \in Clients, d # e,
               NEW i \in DOMAIN wire'[d], NEW j \in DOMAIN wire'[e]
        PROVE  wire'[d][i] # wire'[e][j]
    <3>1. CASE d = c
      <4>1. wire'[e] = wire[e]
        BY <1>3, <2>4, <3>1
      <4> QED
        BY <2>3, <2>4, <3>1, <4>1
    <3>2. CASE e = c
      <4>1. wire'[d] = wire[d]
        BY <1>3, <2>4, <3>2
      <4> QED
        BY <2>3, <2>4, <3>2, <4>1
    <3>3. CASE d # c /\ e # c
      BY <1>3, <2>4, <3>3 DEF Frames, FramesWhole
    <3> QED
      BY <3>1, <3>2, <3>3
  <2>5. \A d \in Clients : DOMAIN wire'[d] = 1..Len(wire'[d])
    <3>1. OutTypes'
      BY <1>1, TypeOfWrite
    <3> QED
      BY <3>1 DEF OutTypes
  <2>6. ASSUME NEW d \in Clients, NEW i \in DOMAIN wire'[d], NEW j \in DOMAIN wire'[d],
               i < j /\ wire'[d][i].frame = wire'[d][j].frame
        PROVE  \A k \in i..j : wire'[d][k] = Piece(wire'[d][i].frame, wire'[d][i].k + k - i)
    <3>1. Contiguous(wire'[d], Len(wire'[d])) /\ DOMAIN wire'[d] = 1..Len(wire'[d])
      BY <2>1, <2>5
    <3> QED
      BY <2>6, <3>1 DEF Contiguous
  <2> QED
    BY <2>4, <2>6 DEF FramesWhole
<1> QED
  BY <1>8, <1>9, <1>10, <1>11, <1>12 DEF Frames
-----------------------------------------------------------------------------
(* One receive thread.                                                     *)

\* Whoever reaps is told by joiner which thread.
LEMMA OneThreadStep ==
  ASSUME TypeOK, OneThread, Next
  PROVE  OneThread'
<1> USE DEF OneThread, TypeOK
<1>1. ASSUME NEW c \in Clients, ClientConnects(c) \/ ClientCloses(c) PROVE OneThread'
  BY <1>1 DEF ClientConnects, ClientCloses, threads, fields
<1>2. ASSUME NEW c \in Clients, RecvEnds(c) PROVE OneThread'
  BY <1>2 DEF RecvEnds, fields
<1>3. ASSUME NEW c \in Clients, Recv(c) PROVE OneThread'
  BY <1>3 DEF Recv, threads
<1>4. CASE NetSends \/ \E s \in Senders : Lock(s) \/ Write(s)
  BY <1>4 DEF NetSends, Lock, Write, threads, fields
<1>5. ASSUME NEW c \in Clients, Accept(c) \/ StartFails(c) PROVE OneThread'
  BY <1>5 DEF Accept, StartFails
<1>6. CASE Listen \/ AcceptError \/ CloseClient
  BY <1>6 DEF Listen, AcceptError, CloseClient, fields
<1>7. CASE ServerJoin
  BY <1>7, Names DEF ServerJoin, Joinable, fields
<1>8. CASE ServerJoined
  BY <1>8, Names DEF ServerJoined, Reaps, fields
<1>9. CASE Stop
  BY <1>9 DEF Stop, StopBegins, StopJoined, StopJoinsServer, StopReturns
<1> QED
  BY <1>1, <1>2, <1>3, <1>4, <1>5, <1>6, <1>7, <1>8, <1>9 DEF Next, ServerThread, Receiver
-----------------------------------------------------------------------------
(* The invariant.                                                          *)

LEMMA InitInv == Init => IInv
<1> SUFFICES ASSUME Init PROVE IInv
  OBVIOUS
<1>1. inbox \in [Clients -> Seq(Requests)] /\ Dialog \in [Clients -> Seq(Requests)]
  BY DEF Init
<1>2. TypeOK
  BY <1>1, Names DEF Init, TypeOK, Fd
<1>3. OutTypes
  BY DEF Init, OutTypes
<1>4. OwnRest /\ WaitsWhole /\ EarlierSent /\ GoesOn /\ FreshIsEmpty /\ FramesWhole
  BY DEF Init, OwnRest, WaitsWhole, EarlierSent, GoesOn, FreshIsEmpty, FramesWhole
<1>5. OneThread
  BY DEF Init, OneThread
<1> QED
  BY <1>2, <1>3, <1>4, <1>5 DEF IInv

\* A write goes to a connection that has been accepted.
LEMMA FreshStep ==
  ASSUME TypeOK, OutTypes, OwnRest, FreshIsEmpty, NEW s \in Senders, Write(s)
  PROVE  FreshIsEmpty'
<1>1. UNCHANGED <<conn, peer>>
  BY DEF Write, sock
<1>2. CASE WroteNothing(s)
  BY <1>1, <1>2 DEF WroteNothing, FreshIsEmpty
<1>3. ASSUME NEW n \in 1..Len(sending[s]), Wrote(s, n) PROVE FreshIsEmpty'
  <2>1. Peer = peer /\ peer # Nobody
    BY <1>3, PeerIsClient DEF Wrote, Peer
  <2>2. \A d \in Clients : d # peer => wire'[d] = wire[d]
    BY <1>3, <2>1, WroteAdds
  <2> QED
    BY <1>1, <2>1, <2>2 DEF FreshIsEmpty
<1> QED
  BY <1>2, <1>3, WriteCases

LEMMA NextInv == IInv /\ [Next]_vars => IInv'
<1> SUFFICES ASSUME IInv, [Next]_vars PROVE IInv'
  OBVIOUS
<1>1. TypeOK /\ OutTypes /\ OwnRest /\ Frames /\ FreshIsEmpty /\ OneThread
  BY DEF IInv, Frames
<1>2. CASE UNCHANGED vars
  BY <1>2 DEF IInv, vars, sock, fields, threads, out, TypeOK, OutTypes, OwnRest, WaitsWhole, EarlierSent, GoesOn,
              FreshIsEmpty, FramesWhole, OneThread, Peer, Next1
<1>3. ASSUME Next PROVE IInv'
  <2>1. TypeOK' /\ OutTypes'
    BY <1>1, <1>3, TypeOfSteps
  <2>2. OneThread'
    BY <1>1, <1>3, OneThreadStep
  <2>3. Frames' /\ FreshIsEmpty'
    <3>1. CASE Silent
      BY <1>1, <3>1, PeerOfSilent, FramesOfSilent, SilentLeavesOut
    <3>2. ASSUME NEW s \in Senders, Begun(s) PROVE Frames' /\ FreshIsEmpty'
      <4>1. FreshIsEmpty'
        BY <1>1, <3>2 DEF Begun, FreshIsEmpty
      <4> QED
        BY <1>1, <3>2, <4>1, FramesOfBegun
    <3>3. ASSUME UNCHANGED <<out, conn, peer, client_socket>> PROVE Frames' /\ FreshIsEmpty'
      <4>1. FreshIsEmpty' /\ Peer' = Peer
        BY <1>1, <3>3 DEF FreshIsEmpty, Peer, out
      <4> QED
        BY <1>1, <3>3, <4>1, FramesOfSilent
    <3>4. ASSUME NEW c \in Clients, Recv(c) PROVE Frames' /\ FreshIsEmpty'
      <4>1. c \in Senders
        BY DEF Senders
      <4> QED
        BY <1>1, <3>2, <3>3, <3>4, <4>1, TypeOfRecv
    <3>5. CASE NetSends
      <4>1. Net \in Senders /\ Begun(Net)
        BY <3>5 DEF NetSends, Begun, Senders, sock, fields
      <4> QED
        BY <3>2, <4>1
    <3>6. ASSUME NEW s \in Senders, Lock(s) PROVE Frames' /\ FreshIsEmpty'
      <4>1. FreshIsEmpty'
        BY <1>1, <3>6 DEF Lock, sock, FreshIsEmpty
      <4> QED
        BY <1>1, <3>6, <4>1, FramesOfLock
    <3>7. ASSUME NEW s \in Senders, Write(s) PROVE Frames' /\ FreshIsEmpty'
      <4>1. FreshIsEmpty'
        BY <1>1, <3>7, FreshStep
      <4>2. WroteNothing(s) \/ \E n \in 1..Len(sending[s]) : Wrote(s, n)
        BY <1>1, <3>7, WriteCases
      <4> QED
        BY <1>1, <3>7, <4>1, <4>2, FramesOfWriteFailing, FramesOfWriting
    <3> QED
      BY <1>3, <3>1, <3>4, <3>5, <3>6, <3>7, Kinds
  <2> QED
    BY <2>1, <2>2, <2>3 DEF IInv, Frames
<1> QED
  BY <1>2, <1>3

LEMMA InvHolds == Spec => []IInv
  BY InitInv, NextInv, PTL DEF Spec

\* Every thread, socket and buffer keeps to its values, and who holds tcp_send_mutex
\* has something to send.
THEOREM TypeCorrect == Spec => []TypeOK
<1>1. IInv => TypeOK
  BY DEF IInv
<1> QED
  BY <1>1, InvHolds, PTL

\* Whatever tasks send at once and whenever the socket changes hands, no client gets
\* the pieces of two frames mixed, and no piece is sent twice.
THEOREM FramesStayWhole == Spec => []FramesWhole
<1>1. IInv => FramesWhole
  BY DEF IInv
<1> QED
  BY <1>1, InvHolds, PTL

-----------------------------------------------------------------------------
(* The promise of RfcSession.                                              *)

\* What is served does not change while the threads and the field are as they were.
LEMMA ServedStays ==
  UNCHANGED <<rx, client_is_rfc2217>> => Served' = Served
  BY DEF Served, Alive

LEMMA SessionStep ==
  ASSUME TypeOK, OneThread, stop = "idle", Next
  PROVE  Session!SessionNext \/ Served' = Served
<1>1. ASSUME UNCHANGED <<rx, client_is_rfc2217>> PROVE Served' = Served
  BY <1>1, ServedStays
<1>2. ASSUME NEW c \in Clients, ClientConnects(c) \/ ClientCloses(c) PROVE Served' = Served
  BY <1>1, <1>2 DEF ClientConnects, ClientCloses, threads, fields
<1>3. ASSUME NEW c \in Clients, Accept(c) PROVE Session!Begins
  <2>1. \A t \in Clients : rx[t] = "none"
    BY <1>3 DEF Accept, OneThread
  <2>2. rx'[c] = "recv" /\ client_is_rfc2217' = FALSE
    BY <1>3 DEF Accept, TypeOK
  <2> QED
    BY <2>1, <2>2 DEF Session!Begins, Served, Alive
\* The thread that receives is the one that is served.
<1>4. ASSUME NEW t \in Clients, Recv(t) PROVE Session!SaysHello \/ Session!Asks
  <2>1. rx' = rx /\ Alive(t) /\ client_is_rfc2217' \in BOOLEAN /\ (client_is_rfc2217 => client_is_rfc2217')
    BY <1>4 DEF Recv, threads, Alive, TypeOK
  <2>2. Served \in {"raw", "rfc"} /\ Served' \in {"raw", "rfc"}
    BY <2>1 DEF Served, Alive
  <2>3. Served' = "raw" => Served = "raw"
    BY <2>1 DEF Served, Alive
  <2> QED
    BY <2>2, <2>3 DEF Session!SaysHello, Session!Asks
\* No other thread is left when it ends.
<1>5. ASSUME NEW t \in Clients, RecvEnds(t) PROVE Session!Ends
  <2>1. Alive(t) /\ rx'[t] = "exit" /\ \A d \in Clients : d # t => rx'[d] = rx[d]
    BY <1>5 DEF RecvEnds, Alive, TypeOK
  <2>2. \A d \in Clients : d # t => ~Alive(d)
    BY <2>1 DEF Alive, OneThread
  <2>3. Served # "none" /\ Served' = "none"
    BY <2>1, <2>2 DEF Served, Alive
  <2> QED
    BY <2>3 DEF Session!Ends
<1>6. ASSUME Listen \/ AcceptError \/ ServerJoin \/ CloseClient \/ \E c \in Clients : StartFails(c)
      PROVE  Served' = Served
  BY <1>1, <1>6 DEF Listen, AcceptError, ServerJoin, CloseClient, StartFails, fields
<1>7. ASSUME ServerJoined \/ StopJoined PROVE Served' = Served
  <2>1. client_is_rfc2217' = client_is_rfc2217
    BY <1>7 DEF ServerJoined, StopJoined, fields
  <2>2. \A d \in Clients : Alive(d)' <=> Alive(d)
    BY <1>7 DEF ServerJoined, StopJoined, Reaps, Alive, TypeOK
  <2> QED
    BY <2>1, <2>2 DEF Served
<1>8. ASSUME StopBegins \/ StopJoinsServer \/ StopReturns PROVE Served' = Served
  BY <1>1, <1>8 DEF StopBegins, StopJoinsServer, StopReturns, fields
<1>9. ASSUME NetSends \/ \E s \in Senders : Lock(s) \/ Write(s) PROVE Served' = Served
  BY <1>1, <1>9 DEF NetSends, Lock, Write, threads, fields
<1> QED
  BY <1>2, <1>3, <1>4, <1>5, <1>6, <1>7, <1>8, <1>9
  DEF Next, ServerThread, Receiver, Stop, Session!SessionNext

\* Until rfc2217_server_stop is called, the server keeps the promise of RfcSession: the
\* callbacks of one client, connected first and disconnected once, and then the next's.
THEOREM SessionIsKept == Spec => SessionKept
<1>1. Init => Session!SessionInit
  BY DEF Init, Session!SessionInit, Served, Alive
<1>2. IInv /\ [Next]_vars => [stop = "idle" => Session!SessionNext]_Served
  <2>1. UNCHANGED vars => Served' = Served
    BY ServedStays DEF vars, threads, fields
  <2> QED
    BY <2>1, SessionStep DEF IInv
<1> QED
  BY <1>1, <1>2, InvHolds, PTL DEF Spec, SessionKept
=============================================================================
