----------------------------- MODULE SocketSink -----------------------------
(***************************************************************************)
(* The socket sink in synchronous mode (sinks/socket_sink.c): a connection *)
(* made at the first write, a blocking send that may take several calls,   *)
(* closing on an error, and the child of a fork that lets go of the        *)
(* connection it shares with its parent.  What the peer reads is kept for  *)
(* each connection; a line is two bytes.                                   *)
(***************************************************************************)
EXTENDS Integers, Sequences

CONSTANTS
  MaxSocketLines,  \* bound on the lines written
  MaxConnections   \* bound on the connections made

VARIABLES
  sock,            \* data->sockfd with its connected, ssl_ctx and ssl: the connection's number, 0: none
  streams,         \* of every connection the bytes its peer gets: <<line, byte>>
  halves,          \* the connections shut down for writing by a forked child
  gone,            \* the connections whose peer went away
  sent             \* the line being written, how many of its bytes are sent, the next line

socketVars == <<sock, streams, halves, gone, sent>>

NoSocket == 0
LineBytes == 2
NotSending == [line |-> 0, bytes |-> LineBytes, next |-> 1]

SocketInit ==
  /\ sock = NoSocket
  /\ streams = <<>>
  /\ halves = {}
  /\ gone = {}
  /\ sent = NotSending

SocketIdle == sent.bytes = LineBytes

(***************************************************************************)
(* socket_connect; a failure (socket, address, connect, TLS context, TLS   *)
(* object, handshake) leaves no connection, and the write returns.         *)
(***************************************************************************)
Connect ==
  /\ Len(streams) < MaxConnections
  /\ sock' = Len(streams) + 1
  /\ streams' = Append(streams, <<>>)

ConnectFails ==
  /\ SocketIdle
  /\ sock = NoSocket
  /\ sent.next <= MaxSocketLines
  /\ sent' = [sent EXCEPT !.next = @ + 1]
  /\ UNCHANGED <<sock, streams, halves, gone>>

\* socket_write up to its loop.
SocketWrite ==
  /\ SocketIdle
  /\ sent.next <= MaxSocketLines
  /\ IF sock = NoSocket THEN Connect ELSE UNCHANGED <<sock, streams>>
  /\ sent' = [line |-> sent.next, bytes |-> 0, next |-> sent.next + 1]
  /\ UNCHANGED <<halves, gone>>

\* One send or SSL_write: some of the bytes that are left.
SendSome ==
  /\ ~SocketIdle
  /\ sock \notin halves
  /\ \E n \in 1 .. LineBytes - sent.bytes :
       /\ streams' = IF sock \in gone THEN streams
                     ELSE [streams EXCEPT ![sock] =
                             @ \o [i \in 1 .. n |-> <<sent.line, sent.bytes + i>>]]
       /\ sent' = [sent EXCEPT !.bytes = @ + n]
  /\ UNCHANGED <<sock, halves, gone>>

GiveUp == sent' = [sent EXCEPT !.bytes = LineBytes]

KeepSocket ==
  /\ ~SocketIdle
  /\ GiveUp
  /\ UNCHANGED <<sock, streams, halves, gone>>

\* A send that fails or times out: everything of the connection is let go, the line is not
\* sent again.
SendFails ==
  /\ ~SocketIdle
  /\ GiveUp
  /\ sock' = NoSocket
  /\ UNCHANGED <<streams, halves, gone>>

\* The peer goes away; what is sent then may still be accepted, and reaches nobody.
PeerCloses ==
  /\ sock \notin gone \cup {NoSocket}
  /\ gone' = gone \cup {sock}
  /\ UNCHANGED <<sock, streams, halves, sent>>

\* socket_atfork_child: shutdown acts on the connection, also for the parent; the parent's
\* descriptors stay.  The dispatcher's mutex is held, so no write is under way.
ForkParent ==
  /\ SocketIdle
  /\ sock # NoSocket
  /\ halves' = halves \cup {sock}
  /\ UNCHANGED <<sock, streams, gone, sent>>

\* The same fork, followed on the side of the child.
ForkChild ==
  /\ SocketIdle
  /\ sock' = NoSocket
  /\ halves' = halves \cup ({sock} \ {NoSocket})
  /\ UNCHANGED <<streams, gone, sent>>

\* socket_destroy, and a new sink at the next initialisation.
SocketDestroy ==
  /\ SocketIdle
  /\ sock # NoSocket
  /\ sock' = NoSocket
  /\ UNCHANGED <<streams, halves, gone, sent>>

SocketNext ==
  \/ ConnectFails \/ SocketWrite \/ SendSome \/ SendFails
  \/ PeerCloses \/ ForkParent \/ ForkChild \/ SocketDestroy

SocketSpec == SocketInit /\ [][SocketNext]_socketVars

(***************************************************************************)
(* A peer never reads a cut line with another line glued to it: on every   *)
(* connection the lines are whole, but for the last one, and they are in   *)
(* the order in which they were written.                                   *)
(***************************************************************************)
StreamOfLines ==
  \A c \in DOMAIN streams : \A i \in 1 .. Len(streams[c]) - 1 :
    LET a == streams[c][i]  b == streams[c][i + 1] IN
    IF a[2] < LineBytes THEN b = <<a[1], a[2] + 1>> ELSE b[1] > a[1] /\ b[2] = 1
=============================================================================
