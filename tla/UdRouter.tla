------------------------------- MODULE UdRouter -------------------------------
(***************************************************************************)
(* ud-router: reads the datagrams of an unserding network and forwards     *)
(* them, as they are, to a dealer.  One libev loop: a poll collects the    *)
(* watchers with an event, then the check watcher runs (it reconnects),    *)
(* then the callbacks of the others, in an order libev chooses.            *)
(***************************************************************************)
EXTENDS UdLink, FiniteSets

CONSTANTS
  MaxTime    \* bound: the last second of a behaviour

ASSUME RouterAssumption == MaxTime \in Nat \ {0}

VARIABLES
  life,       \* "up", "down" after a signal, "killed" by SIGPIPE or a bad free()
  dst,        \* ctx->dst: descriptor to forward to, or None
  rtr,        \* chk_cb()'s watcher on it
  last_reco,  \* the second of the last attempt to connect
  now,        \* time(NULL), counted from the second before the router starts
  pend,       \* callbacks to run in this iteration of the loop
  subq,       \* datagrams waiting in the subscriber's socket
  taken,      \* those read from it so far
  tries,      \* attempts to connect so far
  shut        \* descriptors the router has closed

rvars == <<life, dst, rtr, last_reco, now, pend, subq, taken, tries, shut>>

Fd == Conn \cup {0, None}  \* 0 is the standard input

RouterInit ==
  /\ life = "up" /\ dst = None /\ rtr = [fd |-> 0, active |-> FALSE]
  /\ last_reco = 0 /\ now = 1 /\ pend = {}
  /\ subq = <<>> /\ taken = <<>> /\ tries = 0 /\ shut = {}

\* The group's datagrams come in the order they were sent, or not at all.
Arrive ==
  /\ life = "up"
  /\ LET d == Len(subq) + Len(taken) + 1
     IN  d \in Dgram /\ subq' = Append(subq, d)
  /\ UNCHANGED <<life, dst, rtr, last_reco, now, pend, taken, tries, shut, conn>>

Tick ==
  /\ now < MaxTime
  /\ now' = now + 1
  /\ UNCHANGED <<life, dst, rtr, last_reco, pend, subq, taken, tries, shut, conn>>

Ready ==
  {w \in {"sub", "rtr"} :
     \/ w = "sub" /\ subq # <<>>
     \/ w = "rtr" /\ rtr.active /\ (rtr.fd \in Conn => Readable(rtr.fd))}

\* The loop waits until something is ready; "sig" is SIGINT or SIGTERM.
Poll(sig) ==
  /\ life = "up" /\ pend = {}
  /\ Ready \cup sig # {}
  /\ pend' = {"chk"} \cup Ready \cup sig
  /\ UNCHANGED <<life, dst, rtr, last_reco, now, subq, taken, tries, shut, conn>>

\* ud_router_socket(): a connection made or none made.  If the lookup of the
\* name fails, freeaddrinfo() gets a pointer that was never set, and if that
\* does no harm the 0 that s began as is returned.
RouterSocket(c) ==
  \/ ConnectOK(c) /\ dst' = c /\ UNCHANGED life
  \/ dst' \in {None, 0} /\ UNCHANGED <<conn, life>>
  \/ life' = "killed" /\ conn' = RouterGone /\ UNCHANGED dst

\* chk_cb() without the note of when it was (for mutation runs, like every
\* definition whose name starts with Bug)
BugReconnect(c) ==
  /\ dst < 0 /\ now > last_reco
  /\ tries' = tries + 1
  /\ RouterSocket(c)
  /\ rtr' = IF dst' < 0 THEN rtr ELSE [fd |-> dst', active |-> TRUE]
  /\ UNCHANGED last_reco
\* chk_cb() with nothing to forward to: at most one attempt a second
Reconnect(c) ==
  /\ dst < 0 /\ now > last_reco
  /\ last_reco' = now /\ tries' = tries + 1
  /\ RouterSocket(c)
  /\ rtr' = IF dst' < 0 THEN rtr ELSE [fd |-> dst', active |-> TRUE]

ChkCb ==
  /\ life = "up" /\ "chk" \in pend
  /\ \/ \E c \in Conn : Unused(c) /\ Reconnect(c)
     \/ /\ ~ (dst < 0 /\ now > last_reco)
        /\ UNCHANGED <<dst, rtr, last_reco, tries, conn, life>>
  /\ pend' = pend \ {"chk"}
  /\ UNCHANGED <<now, subq, taken, shut>>

\* ev_io_shut()
Shut ==
  /\ shut' = shut \cup {rtr.fd}
  /\ conn' = IF rtr.fd \in Conn THEN [conn EXCEPT ![rtr.fd].r = "closed"] ELSE conn
  /\ rtr' = [fd |-> None, active |-> FALSE]

\* rtr_cb() that leaves ctx->dst alone
BugRtrGone == Shut /\ UNCHANGED dst
\* recv() <= 0 over TCP
RtrGone == Shut /\ dst' = None

\* An error over UDP taken for the end of the connection
BugUdpError ==
  /\ conn' = [conn EXCEPT ![rtr.fd].err = FALSE]
  /\ dst' = None
  /\ UNCHANGED <<rtr, shut>>
\* Over UDP the error is gone with the recv().
UdpError ==
  /\ conn' = IF rtr.fd \in Conn THEN [conn EXCEPT ![rtr.fd].err = FALSE] ELSE conn
  /\ UNCHANGED <<dst, rtr, shut>>

RtrCb ==
  /\ life = "up" /\ "rtr" \in pend /\ "chk" \notin pend
  /\ \/ proto = "tcp" /\ RtrGone
     \/ proto = "udp" /\ UdpError
  /\ pend' = pend \ {"rtr"}
  /\ UNCHANGED <<life, last_reco, now, subq, taken, tries>>

\* What MAX_RETR send()s of a datagram put into a stream, each of the whole
\* buffer: n of them took a part of it, and the one behind those all, or none
\* did.
Sent(d, n, all) == [i \in 1 .. n |-> <<d, 1, i>>] \o (IF all THEN Bytes(d) ELSE <<>>)

\* The loop over send() with its condition turned round: again if all went
BugForward(d) ==
  IF dst \in Conn /\ ~ conn[dst].err
  THEN conn' = [SendOn(dst, Bytes(d)) EXCEPT ![dst].stream = @ \o @] /\ UNCHANGED life
  ELSE UNCHANGED <<conn, life>>
\* Up to MAX_RETR send()s of a datagram.  On a reset stream they end in SIGPIPE,
\* which the router does not catch; an error UDP reported earlier costs one.
Forward(d) ==
  \/ dst \notin Conn /\ UNCHANGED <<conn, life>>
  \/ /\ dst \in Conn /\ proto = "tcp" /\ conn[dst].err
     /\ life' = "killed" /\ conn' = RouterGone
  \/ /\ dst \in Conn /\ proto = "tcp" /\ ~ conn[dst].err
     /\ \E n \in 0 .. MAX_RETR, all \in BOOLEAN :
          /\ n > 0 => d <= MaxTorn
          /\ all => n < MAX_RETR
          /\ conn' = SendOn(dst, Sent(d, n, all))
     /\ UNCHANGED life
  \/ /\ dst \in Conn /\ proto = "udp"
     /\ conn' \in {SendOn(dst, Bytes(d)), [conn EXCEPT ![dst].err = FALSE]}
     /\ UNCHANGED life

SubCb ==
  /\ life = "up" /\ "sub" \in pend /\ "chk" \notin pend
  /\ Forward(Head(subq))
  /\ taken' = Append(taken, Head(subq)) /\ subq' = Tail(subq)
  /\ pend' = pend \ {"sub"}
  /\ UNCHANGED <<dst, rtr, last_reco, now, tries, shut>>

\* sigall_cb() ends the loop after this iteration; then chk_cb(EV_CUSTOM) and
\* the end of main(), with which the process ends.
Down ==
  /\ life = "up" /\ pend = {"sig"}
  /\ shut' = shut \cup {rtr.fd}
  /\ conn' = RouterGone
  /\ rtr' = [fd |-> None, active |-> FALSE]
  /\ life' = "down" /\ pend' = {}
  /\ UNCHANGED <<dst, last_reco, now, subq, taken, tries>>

Loop == Poll({}) \/ ChkCb \/ RtrCb \/ SubCb

RouterNext == (Loop \/ Arrive \/ Tick \/ Poll({"sig"}) \/ Down) /\ UNCHANGED listening
=============================================================================
