------------------------------- MODULE UdBridge -------------------------------
(***************************************************************************)
(* A router forwarding an unserding network to a dealer on another, over   *)
(* UDP or TCP, while either of them may be ended, the dealer may be        *)
(* started again, connecting fails and the network loses datagrams.        *)
(***************************************************************************)
EXTENDS UdRouter, UdDealer

vars == <<proto, spliced, listening, conn, rvars, dvars>>

Init == LinkInit /\ RouterInit /\ DealerInit

Next ==
  /\ \/ RouterNext /\ UNCHANGED dvars
     \/ DealerNext /\ UNCHANGED rvars
     \/ LinkLose /\ UNCHANGED <<rvars, dvars>>
     \/ (\E c \in Conn : OtherConnect(c) \/ OtherClose(c)) /\ UNCHANGED <<rvars, dvars>>
  /\ UNCHANGED <<proto, spliced>>

Spec == Init /\ [][Next]_vars

\* The router's loop goes on as long as it has events, which poll() reports as
\* long as they are there.
LiveSpec == Spec /\ WF_vars(Loop /\ UNCHANGED <<proto, spliced, listening, dvars>>)

-----------------------------------------------------------------------------

\* Every variable keeps its type.
TypeOK ==
  /\ proto \in {"udp", "tcp"} /\ listening \in BOOLEAN
  /\ conn \in [Conn -> ConnState]
  /\ life \in {"up", "down", "killed"} /\ dst \in Fd
  /\ rtr \in [fd : Fd, active : BOOLEAN]
  /\ pend \subseteq {"chk", "sub", "rtr", "sig"}
  /\ subq \in Seq(Dgram) /\ taken \in Seq(Dgram)
  /\ last_reco \in 0 .. MaxTime /\ now \in 1 .. MaxTime /\ tries \in Nat
  /\ spliced \in BOOLEAN /\ pipe \in Seq(Byte) /\ piped \in Seq(Byte)
  /\ slots \in [Slot -> Conn \cup {None}] /\ next \in Slot
  /\ published \in Seq(Seq(Byte))

\* What chk_cb(), rtr_cb() and the watcher know of the dealer's connection
\* agrees at every point of the loop, over losses of the connection and
\* reconnects: there is one to forward to if and only if its end is watched,
\* and it is the only one the router has open.
OneWatchedConn ==
  life = "up" =>
    /\ dst # None <=> rtr.active
    /\ dst # None => rtr.fd = dst
    /\ {c \in Conn : conn[c].r = "open"} = {dst} \ {0, None}

\* The dealer's ring of slots loses no connection: those accepted and not yet
\* shut are each in one slot, whatever was evicted and whenever accept()
\* failed.
SlotsHoldOpen ==
  /\ {c \in Conn : conn[c].d = "open"} = {slots[i] : i \in Slot} \ {None}
  /\ \A i, j \in Slot : slots[i] = slots[j] /\ i # j => slots[i] = None

\* What was published, and behind it what is in the pipe
Chunks == Append(published, pipe)

\* Retries, lost connections, evictions, restarts and what stays in the pipe
\* publish no piece of a datagram twice that one send() took, and none that the
\* router did not read.  So it is only by a send() that took a part of the
\* datagram, which sub_cb() sends again from its beginning, that a piece comes
\* twice, and that is its first.
NoDoubles ==
  \A k, l \in DOMAIN Chunks : \A i \in DOMAIN Chunks[k], j \in DOMAIN Chunks[l] :
    LET a == Chunks[k][i]  b == Chunks[l][j] IN
      /\ \E n \in DOMAIN taken : a[1] = taken[n]
      /\ a[1] = b[1] /\ a[2] = b[2] =>
           \/ k = l /\ i = j
           \/ proto = "tcp" /\ a[2] = 1 /\ a[3] # b[3]

\* However often the dealer goes away, the router tries for a new connection
\* at most once a second (chk_cb() keeps the second of the last attempt).
OneTryASecond == tries <= now

\* Forwarding gives the dealer's network the very datagrams of the router's,
\* none cut, none joined ("redirect packet as is, no encapsulation or
\* anything"), where they are not spliced.
AsIs == ~ spliced => \A k \in DOMAIN published : \E d \in Dgram : published[k] = Bytes(d)

\* Over UDP it does, whatever is lost, overtaken or refused, and whenever the
\* dealer is started again.
AsIsOverUDP == proto = "udp" => AsIs

\* If it splices, it publishes what it has read, byte behind byte: a datagram
\* that is not published whole holds up the ones behind it and is put out with
\* them, so where one ends is lost, but no byte is lost, doubled or overtaken,
\* except for those a dealer that ends leaves in its pipe.
PipeInOrder == spliced => FlattenSeq(Chunks) = piped

\* The router forwards to a connection that the dealer has ended.
Dead == dst \in Conn /\ conn[dst].d = "closed"

\* A connection the dealer has ended is not kept: if the router is not ended
\* itself, it stops forwarding to it, whenever that happens.
DeadConnDropped == []<>(~ Dead \/ life # "up" \/ "sig" \in pend)
=============================================================================
