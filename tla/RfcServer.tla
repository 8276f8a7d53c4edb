----------------------------- MODULE RfcServer -----------------------------
(***************************************************************************)
(* The threads and sockets of main/rfc2217_server.c: the server thread     *)
(* that accepts one client after another, the receive thread of each, the  *)
(* senders that share one socket, and rfc2217_server_stop.  What a client's *)
(* bytes mean is the subject of Telnet; here a client sends requests.       *)
(*                                                                          *)
(* client_socket and tcp_receive_thread are fields that everybody reads and *)
(* that keep their value when the socket is closed and the thread is gone.  *)
(* A frame is what one call of tcp_send sends, in FrameLen pieces.          *)
(***************************************************************************)
EXTENDS Integers, Sequences

CONSTANTS
  Clients,      \* clients, each of which connects at most once
  Net,          \* the sender that calls rfc2217_server_send_data
  Nobody,
  Dialog,       \* Dialog[c]: the requests c sends
  FrameLen,     \* pieces of a frame
  MaxFrames,    \* frames that Net sends
  Faults,       \* what may fail: "listen", "accept", "thread"
  Stops         \* rfc2217_server_stop may be called

\* Negotiate the COM port option, ask for something that is answered, send data.
Requests == {"hello", "ask", "data"}

ASSUMPTION RfcServerAssumption ==
  /\ Net \notin Clients /\ Nobody \notin Clients \cup {Net, "server", "stop"}
  /\ Dialog \in [Clients -> Seq(Requests)]
  /\ FrameLen \in Nat \ {0} /\ MaxFrames \in Nat
  /\ Faults \subseteq {"listen", "accept", "thread"} /\ Stops \in BOOLEAN

Senders == Clients \cup {Net}

VARIABLES
  conn,                \* conn[c]: "new", "queued", "open", "shut" (c has closed)
  inbox,               \* inbox[c]: what c sent and recv has not returned
  peer,                \* whose connection the server's descriptor is, once open
  server,              \* where the server thread is
  rx,                  \* rx[c]: where the receive thread made for c is
  joiner,              \* joiner[c]: who waits in pthread_join for that thread
  client_socket, tcp_receive_thread, client_is_rfc2217,
  mutex,               \* who holds tcp_send_mutex
  sending,             \* sending[s]: what is left of the frames s is sending
  frames,              \* frames so far
  wire,                \* wire[c]: the pieces TCP took for c
  stop                 \* where rfc2217_server_stop is

sock == <<conn, inbox, peer>>
fields == <<client_socket, tcp_receive_thread, client_is_rfc2217>>
threads == <<server, rx, joiner, stop>>
out == <<mutex, sending, frames, wire>>
vars == <<sock, fields, threads, out>>

Piece(frame, k) == [frame |-> frame, k |-> k]
Frame(frame) == [k \in 1..FrameLen |-> Piece(frame, k)]
\* lwIP gives the lowest free descriptor, here always the same one, Fd.
Fd == 1
Peer == IF client_socket = Fd THEN peer ELSE Nobody
Alive(c) == rx[c] = "recv"

\* rfc2217_server_create and rfc2217_server_start.
Init ==
  /\ conn = [c \in Clients |-> "new"] /\ inbox = [c \in Clients |-> <<>>]
  /\ peer = Nobody
  /\ server = "listen" /\ stop = "idle"
  /\ rx = [c \in Clients |-> "none"] /\ joiner = [c \in Clients |-> Nobody]
  /\ client_socket = 0 /\ tcp_receive_thread = Nobody /\ client_is_rfc2217 = FALSE
  /\ mutex = Nobody /\ frames = 0
  /\ sending = [s \in Senders |-> <<>>]
  /\ wire = [c \in Clients |-> <<>>]
-----------------------------------------------------------------------------
\* Clients.  The backlog of listen holds one connection.  A client sends its
\* dialog at once and closes whenever it likes.
ClientConnects(c) ==
  /\ conn[c] = "new" /\ server \notin {"listen", "ended"}
  /\ \A d \in Clients : conn[d] # "queued"
  /\ inbox' = [inbox EXCEPT ![c] = Dialog[c]]
  /\ conn' = [conn EXCEPT ![c] = "queued"]
  /\ UNCHANGED <<peer, fields, threads, out>>

ClientCloses(c) ==
  /\ conn[c] = "open"
  /\ conn' = [conn EXCEPT ![c] = "shut"]
  /\ UNCHANGED <<inbox, peer, fields, threads, out>>

-----------------------------------------------------------------------------
\* server_thread_fn first makes its socket; without one the thread is gone.
Listen ==
  /\ server = "listen"
  /\ server' \in {"accept"} \cup (IF "listen" \in Faults THEN {"ended"} ELSE {})
  /\ UNCHANGED <<sock, fields, rx, joiner, stop, out>>

\* A client is accepted: server_thread_fn, and the start of tcp_receive_thread_fn, which resets what
\* nobody else looks at.
\* Mutant: client_is_rfc2217 is kept from the client before.
AcceptAsBefore(c) ==
  /\ server = "accept" /\ conn[c] = "queued"
  /\ conn' = [conn EXCEPT ![c] = "open"]
  /\ peer' = c /\ client_socket' = Fd /\ tcp_receive_thread' = c
  /\ rx' = [rx EXCEPT ![c] = "recv"]
  /\ server' = "join"
  /\ UNCHANGED <<inbox, client_is_rfc2217, joiner, stop, out>>
Accept(c) ==
  /\ server = "accept" /\ conn[c] = "queued"
  /\ conn' = [conn EXCEPT ![c] = "open"]
  /\ peer' = c /\ client_socket' = Fd /\ tcp_receive_thread' = c
  /\ client_is_rfc2217' = FALSE
  /\ rx' = [rx EXCEPT ![c] = "recv"]
  /\ server' = "join"
  /\ UNCHANGED <<inbox, joiner, stop, out>>

\* pthread_create fails and nobody looks: the thread joined is the one before.
StartFails(c) ==
  /\ server = "accept" /\ conn[c] = "queued" /\ "thread" \in Faults
  /\ conn' = [conn EXCEPT ![c] = "open"]
  /\ peer' = c /\ client_socket' = Fd
  /\ server' = "join"
  /\ UNCHANGED <<inbox, tcp_receive_thread, client_is_rfc2217, rx, joiner, stop, out>>

\* One failed accept and the thread is gone; the server stays dead.
AcceptError ==
  /\ server = "accept" /\ "accept" \in Faults
  /\ client_socket' = -1 /\ server' = "ended"
  /\ UNCHANGED <<sock, tcp_receive_thread, client_is_rfc2217, rx, joiner, stop, out>>

\* pthread_join returns at once for a thread that is gone and for one that somebody
\* else is joining; otherwise it waits for the thread's end and reaps it.
Joinable(t) == t # Nobody /\ rx[t] # "none" /\ joiner[t] = Nobody
Reaps(who) ==
  \E t \in Clients :
    /\ joiner[t] = who /\ rx[t] = "exit"
    /\ rx' = [rx EXCEPT ![t] = "none"] /\ joiner' = [joiner EXCEPT ![t] = Nobody]

ServerJoin ==
  /\ server = "join"
  /\ IF Joinable(tcp_receive_thread)
     THEN server' = "joining" /\ joiner' = [joiner EXCEPT ![tcp_receive_thread] = "server"]
     ELSE server' = "close" /\ UNCHANGED joiner
  /\ UNCHANGED <<sock, fields, rx, stop, out>>
ServerJoined ==
  /\ server = "joining" /\ Reaps("server")
  /\ server' = "close"
  /\ UNCHANGED <<sock, fields, stop, out>>

\* shutdown and close: client_socket keeps the number.
CloseClient ==
  /\ server = "close"
  /\ peer' = Nobody
  /\ server' = "accept"
  /\ UNCHANGED <<conn, inbox, fields, rx, joiner, stop, out>>
-----------------------------------------------------------------------------
\* tcp_receive_thread_fn of the thread made for t: recv on whatever client_socket
\* names now gives a request, the end, or an error.  A request is processed: its
\* callback returns, and all but data are answered.
Recv(t) ==
  /\ rx[t] = "recv" /\ sending[t] = <<>>
  /\ Peer # Nobody /\ inbox[Peer] # <<>>
  /\ LET request == Head(inbox[Peer])
     IN  /\ client_is_rfc2217' = (client_is_rfc2217 \/ request = "hello")
         /\ IF request = "data" THEN UNCHANGED <<sending, frames>>
            ELSE /\ sending' = [sending EXCEPT ![t] = Frame(<<t, frames>>)]
                 /\ frames' = frames + 1
  /\ inbox' = [inbox EXCEPT ![Peer] = Tail(@)]
  /\ UNCHANGED <<conn, peer, client_socket, tcp_receive_thread, threads, mutex, wire>>

\* Mutant: the end of the stream is not the end of the thread, only an error is.
RecvEndsOnError(t) ==
  /\ rx[t] = "recv" /\ sending[t] = <<>> /\ Peer = Nobody
  /\ rx' = [rx EXCEPT ![t] = "exit"]
  /\ UNCHANGED <<sock, fields, server, joiner, stop, out>>
\* on_client_disconnected, telnet_options_destroy, pthread_exit.
RecvEnds(t) ==
  /\ rx[t] = "recv" /\ sending[t] = <<>>
  /\ Peer # Nobody => inbox[Peer] = <<>> /\ conn[Peer] = "shut"
  /\ rx' = [rx EXCEPT ![t] = "exit"]
  /\ UNCHANGED <<sock, fields, server, joiner, stop, out>>
-----------------------------------------------------------------------------
\* rfc2217_server_send_data by the task Net: its guards, then one frame.
NetSends ==
  /\ sending[Net] = <<>> /\ frames < MaxFrames
  /\ client_socket >= 0 /\ tcp_receive_thread # Nobody
  /\ sending' = [sending EXCEPT ![Net] = Frame(<<Net, frames>>)]
  /\ frames' = frames + 1
  /\ UNCHANGED <<sock, fields, threads, mutex, wire>>

\* tcp_send by s.
\* Mutant: the mutex is not waited for.
LockAnyway(s) ==
  /\ sending[s] # <<>> /\ mutex # s
  /\ mutex' = s
  /\ UNCHANGED <<sock, fields, threads, sending, frames, wire>>
Lock(s) ==
  /\ sending[s] # <<>> /\ mutex = Nobody
  /\ mutex' = s
  /\ UNCHANGED <<sock, fields, threads, sending, frames, wire>>

\* send writes some of the rest to whatever client_socket names now, or fails: the
\* descriptor is closed, or its client is.  Nobody is told.
\* Mutant: a failed send returns without unlocking.
WriteKeepsLock(s) ==
  /\ mutex = s
  /\ \/ /\ Peer # Nobody
        /\ wire' = [wire EXCEPT ![Peer] = @ \o sending[s]] /\ mutex' = Nobody
     \/ /\ Peer # Nobody => conn[Peer] = "shut"
        /\ UNCHANGED <<wire, mutex>>
  /\ sending' = [sending EXCEPT ![s] = <<>>]
  /\ UNCHANGED <<sock, fields, threads, frames>>
Write(s) ==
  /\ mutex = s
  /\ \/ /\ Peer # Nobody
        /\ \E n \in 1..Len(sending[s]) :
             /\ sending' = [sending EXCEPT ![s] = SubSeq(@, n + 1, Len(@))]
             /\ wire' = [wire EXCEPT ![Peer] = @ \o SubSeq(sending[s], 1, n)]
     \/ /\ Peer # Nobody => conn[Peer] = "shut"
        /\ sending' = [sending EXCEPT ![s] = <<>>]
        /\ UNCHANGED wire
  /\ mutex' = IF sending'[s] = <<>> THEN Nobody ELSE s
  /\ UNCHANGED <<sock, fields, threads, frames>>
-----------------------------------------------------------------------------
\* rfc2217_server_stop.  The two shutdown flags are left out: nothing reads them.
StopBegins ==
  /\ Stops /\ stop = "idle"
  /\ IF Joinable(tcp_receive_thread)
     THEN stop' = "joining" /\ joiner' = [joiner EXCEPT ![tcp_receive_thread] = "stop"]
     ELSE stop' = "joined" /\ UNCHANGED joiner
  /\ UNCHANGED <<sock, fields, server, rx, out>>
StopJoined ==
  /\ stop = "joining" /\ Reaps("stop")
  /\ stop' = "joined"
  /\ UNCHANGED <<sock, fields, server, out>>
StopJoinsServer ==
  /\ stop = "joined"
  /\ tcp_receive_thread' = Nobody
  /\ stop' = "server"
  /\ UNCHANGED <<sock, client_socket, client_is_rfc2217, server, rx, joiner, out>>
StopReturns ==
  /\ stop = "server" /\ server = "ended"
  /\ stop' = "returned"
  /\ UNCHANGED <<sock, fields, server, rx, joiner, out>>
-----------------------------------------------------------------------------
ServerThread ==
  \/ Listen \/ AcceptError \/ \E c \in Clients : Accept(c) \/ StartFails(c)
  \/ ServerJoin \/ ServerJoined \/ CloseClient
Receiver(t) == Recv(t) \/ RecvEnds(t)
Stop == StopBegins \/ StopJoined \/ StopJoinsServer \/ StopReturns

Next ==
  \/ ServerThread \/ NetSends \/ Stop
  \/ \E c \in Clients : ClientConnects(c) \/ ClientCloses(c) \/ Receiver(c)
  \/ \E s \in Senders : Lock(s) \/ Write(s)

Spec == Init /\ [][Next]_vars

\* FreeRTOS runs every task that can run, and the tasks that wait for the mutex get
\* it in turn.  Nothing is assumed of the clients.
FairSpec ==
  /\ Spec
  /\ WF_vars(ServerThread)
  /\ \A t \in Clients : WF_vars(Receiver(t))
  /\ \A s \in Senders : WF_vars(Write(s)) /\ SF_vars(Lock(s))
-----------------------------------------------------------------------------
TypeOK ==
  /\ conn \in [Clients -> {"new", "queued", "open", "shut"}]
  /\ inbox \in [Clients -> Seq(Requests)]
  /\ peer \in Clients \cup {Nobody}
  /\ server \in {"listen", "accept", "join", "joining", "close", "ended"}
  /\ rx \in [Clients -> {"none", "recv", "exit"}]
  /\ joiner \in [Clients -> {Nobody, "server", "stop"}]
  /\ stop \in {"idle", "joining", "joined", "server", "returned"}
  /\ client_socket \in {-1, 0, Fd} /\ client_is_rfc2217 \in BOOLEAN
  /\ tcp_receive_thread \in Clients \cup {Nobody}
  /\ mutex \in Senders \cup {Nobody}
  /\ \A s \in Senders : mutex = s => sending[s] # <<>>

\* tcp_send's mutex: on a connection the pieces of one frame are never mixed with
\* those of another, and never repeated or swapped, although tasks send at the same
\* time, any piece may be the last that is written, and the socket may change
\* hands in between; and no piece goes to two clients.
FramesWhole ==
  /\ \A c \in Clients : \A i, j \in DOMAIN wire[c] :
       i < j /\ wire[c][i].frame = wire[c][j].frame =>
         \A k \in i..j : wire[c][k] = Piece(wire[c][i].frame, wire[c][i].k + k - i)
  /\ \A c, d \in Clients : c # d =>
       \A i \in DOMAIN wire[c], j \in DOMAIN wire[d] : wire[c][i] # wire[d][j]

\* Until rfc2217_server_stop is called, the server keeps the promise of RfcSession.
Served == IF \A t \in Clients : ~Alive(t) THEN "none" ELSE IF client_is_rfc2217 THEN "rfc" ELSE "raw"
Session == INSTANCE RfcSession WITH session <- Served
SessionKept == Session!SessionInit /\ [][stop = "idle" => Session!SessionNext]_Served

\* A client that closes frees the server for the next one, whatever it had asked
\* and whoever is sending, unless an accept failed or the server is being stopped.
NextIsServed ==
  \A c \in Clients :
    (conn[c] = "queued" /\ \A d \in Clients : conn[d] # "open")
      ~> (conn[c] # "queued" \/ server = "ended" \/ stop # "idle")
=============================================================================
