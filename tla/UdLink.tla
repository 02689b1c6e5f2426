-------------------------------- MODULE UdLink --------------------------------
(***************************************************************************)
(* The unicast link between ud-router and ud-dealer, as the two programs   *)
(* see it through their sockets.  A connection is a number: it stands for  *)
(* the router's descriptor and, once accepted, for the dealer's; numbers   *)
(* are not used again.  Over UDP a connection is the router's connected    *)
(* socket and the datagrams on their way; over TCP it is a byte stream.    *)
(***************************************************************************)
EXTENDS Integers, Sequences, SequencesExt

CONSTANTS
  MAX_RETR,  \* send()s of a datagram at most
  MaxConns,  \* bound: connections made in a behaviour
  MaxIdle,   \* bound: connections of other routers at a time
  MaxDgrams, \* bound: datagrams of the unserding network it gets to forward
  MaxTorn    \* bound: datagrams, the first ones, a stream may take a part of

ASSUME LinkAssumption ==
  /\ MaxConns \in Nat \ {0}
  /\ {MAX_RETR, MaxIdle, MaxDgrams, MaxTorn} \subseteq Nat

VARIABLES
  proto,      \* "udp" or "tcp", what massage_conn() makes of --dealer in both
  listening,  \* whether a dealer has the address bound
  conn        \* conn[c]: both ends of connection c and what is between them

Conn == 1 .. MaxConns
Dgram == 1 .. MaxDgrams
None == -1

\* A datagram is two pieces on a byte stream, so a send() may take a part of it
\* and a read may cut it.  The last number is 0 in what a send() took whole, and
\* tells which send() it was that took the first piece without the second.
Bytes(d) == << <<d, 1, 0>>, <<d, 2, 0>> >>
Byte == Dgram \X {1, 2} \X (0 .. MAX_RETR)

\* r, d: the router's and the dealer's end, r "other" in the hands of another
\* router, which has nothing to forward.  err: the router's end has been
\* told of an error, the peer's reset over TCP, an unreachable port over UDP.
\* stream: bytes the dealer has not read, or, over UDP, datagrams.
ConnState == [r : {"none", "open", "closed", "other"},
              d : {"none", "queued", "open", "closed"},
              stream : IF proto = "tcp" THEN Seq(Byte) ELSE Seq(Seq(Byte)), err : BOOLEAN]

NoConn == [r |-> "none", d |-> "none", stream |-> <<>>, err |-> FALSE]

LinkInit ==
  /\ proto \in {"udp", "tcp"} /\ listening = TRUE
  /\ conn = [c \in Conn |-> NoConn]

\* The next connection there has not been
Unused(c) == conn[c].r = "none" /\ \A b \in 1 .. (c - 1) : conn[b].r # "none"

\* connect(2) of a new socket
ConnectOK(c) ==
  /\ Unused(c)
  /\ \/ proto = "udp" /\ conn' = [conn EXCEPT ![c].r = "open"]
     \/ proto = "tcp" /\ listening
        /\ conn' = [conn EXCEPT ![c].r = "open", ![c].d = "queued"]

\* Another router connects to the same dealer, and goes.
OtherConnect(c) ==
  /\ proto = "tcp" /\ listening /\ Unused(c)
  /\ Cardinality({b \in Conn : conn[b].r = "other"}) < MaxIdle
  /\ conn' = [conn EXCEPT ![c].r = "other", ![c].d = "queued"]
  /\ UNCHANGED listening
OtherClose(c) ==
  /\ conn[c].r = "other"
  /\ conn' = [conn EXCEPT ![c].r = "closed"]
  /\ UNCHANGED listening

\* send(2) on the router's end: what becomes of the connection when the kernel
\* takes some bytes, over UDP a datagram.
SendOn(c, bytes) ==
  IF proto = "tcp"
  THEN IF conn[c].d = "closed" THEN [conn EXCEPT ![c].err = TRUE]
       ELSE [conn EXCEPT ![c].stream = @ \o bytes]
  ELSE IF listening THEN [conn EXCEPT ![c].stream = Append(@, bytes), ![c].err = FALSE]
       ELSE [conn EXCEPT ![c].err = TRUE]

\* What makes the router's end readable: nothing is ever sent that way, so it
\* is the end of the stream or an error.
Readable(c) == conn[c].err \/ (proto = "tcp" /\ conn[c].d = "closed")

\* A process that ends has the kernel close its ends.
RouterGone == [c \in Conn |-> IF conn[c].r = "open" THEN [conn[c] EXCEPT !.r = "closed"]
                              ELSE conn[c]]
\* With the dealer's, unread bytes are dropped and the router's end is reset.
DealerShut(c) == [conn EXCEPT ![c].d = "closed", ![c].stream = <<>>,
                              ![c].err = @ \/ conn[c].stream # <<>>]

\* The network between them loses and reorders datagrams, but not streams.
LinkLose ==
  /\ proto = "udp"
  /\ \E c \in Conn : \E i \in DOMAIN conn[c].stream :
       conn' = [conn EXCEPT ![c].stream = RemoveAt(@, i)]
  /\ UNCHANGED listening
=============================================================================
