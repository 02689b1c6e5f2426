------------------------------- MODULE UdDealer -------------------------------
(***************************************************************************)
(* ud-dealer: publishes what routers send it to an unserding network, as   *)
(* it is.  Over TCP it keeps the accepted connections in a ring of slots,  *)
(* the oldest of which makes room for a new one, and shuts a connection    *)
(* after the first read.  Where splice(2) works it is built to move what   *)
(* it reads through a pipe, which is never emptied otherwise.              *)
(***************************************************************************)
EXTENDS UdLink

CONSTANTS
  NSlots,   \* countof(conns)
  ChunkMax  \* bytes one read takes, at least a datagram's

ASSUME DealerAssumption == NSlots \in Nat \ {0} /\ ChunkMax \in Nat \ {0, 1}

VARIABLES
  spliced,   \* HAVE_UDP_SPLICE or HAVE_TCP_SPLICE, whichever is for proto
  pipe,      \* bytes in the pipe of dlr_splc_cb()
  piped,     \* history: bytes put into it, but for those a dealer ended with
  slots,     \* conns[]: the connection of each slot, or None
  next,      \* the slot the next connection gets
  published  \* what was sent to the group, as one datagram each

dvars == <<pipe, piped, slots, next, published>>

Slot == 0 .. (NSlots - 1)

DealerInit ==
  /\ spliced \in BOOLEAN /\ pipe = <<>> /\ piped = <<>>
  /\ slots = [i \in Slot |-> None]
  /\ next = 0
  /\ published = <<>>

\* A slot taken over without closing what is in it (for mutation runs, like
\* every definition whose name starts with Bug)
BugEvicted == conn
\* The connections once the next slot is free
Evicted == IF slots[next] = None THEN conn ELSE DealerShut(slots[next])

\* The ring's end taken one too late
BugNextSlot == IF next + 1 > NSlots THEN 0 ELSE next + 1
NextSlot == IF next + 1 >= NSlots THEN 0 ELSE next + 1

\* dlr_tcp_cb(): the slot is cleared before accept(), which can fail
TcpCb ==
  /\ proto = "tcp" /\ listening
  /\ \E c \in Conn :
       /\ conn[c].d = "queued" /\ \A b \in 1 .. (c - 1) : conn[b].d # "queued"
       /\ \/ /\ conn' = [Evicted EXCEPT ![c].d = "open"]
             /\ slots' = [slots EXCEPT ![next] = c]
             /\ next' = NextSlot
          \/ /\ conn' \in {Evicted, [Evicted EXCEPT ![c].d = "closed", ![c].err = TRUE]}
             /\ slots' = [slots EXCEPT ![next] = None]
             /\ UNCHANGED next
  /\ UNCHANGED <<pipe, piped, published, listening>>

\* dlr_data_cb(): up to MAX_RETR send()s to the group, which take all or nothing;
\* all of them may fail.
SendChunk(chunk) ==
  /\ published' \in {published, Append(published, chunk)}
  /\ UNCHANGED <<pipe, piped>>

\* A pipe made anew by each call, as if pfd were not static
BugInPipe(chunk) == chunk
\* What is in the pipe once the first splice() has moved the chunk there
InPipe(chunk) == pipe \o chunk

\* dlr_splc_cb(): as many bytes as the first splice() moved are asked of the
\* second, which may move fewer, or none; what stays in the pipe goes first
\* the next time.
SpliceChunk(chunk) ==
  /\ piped' = piped \o chunk
  /\ \E k \in 0 .. Len(chunk) :
       /\ published' = IF k = 0 THEN published
                       ELSE Append(published, SubSeq(InPipe(chunk), 1, k))
       /\ pipe' = SubSeq(InPipe(chunk), k + 1, Len(InPipe(chunk)))

\* The callback that splices, no matter what it was built for
BugPublish(chunk) == SpliceChunk(chunk)
Publish(chunk) == IF spliced THEN SpliceChunk(chunk) ELSE SendChunk(chunk)

\* dlr_data_cb() or dlr_splc_cb() on a datagram
UdpData ==
  /\ proto = "udp" /\ listening
  /\ \E c \in Conn : \E i \in DOMAIN conn[c].stream :
       /\ Publish(conn[c].stream[i])
       /\ conn' = [conn EXCEPT ![c].stream = RemoveAt(@, i)]
  /\ UNCHANGED <<slots, next, listening>>

\* clo: whatever the read gave
ShutSlot(i, rest) ==
  /\ conn' = [conn EXCEPT ![slots[i]].d = "closed", ![slots[i]].stream = <<>>,
                          ![slots[i]].err = @ \/ rest # <<>>]
  /\ slots' = [slots EXCEPT ![i] = None]

\* Either on a stream: what there is of it, up to the buffer's size,
\* or its end
TcpData(i) ==
  /\ proto = "tcp" /\ listening /\ slots[i] # None
  /\ LET s == conn[slots[i]].stream
     IN  \/ \E n \in 1 .. Len(s) :
              /\ n <= ChunkMax
              /\ Publish(SubSeq(s, 1, n))
              /\ ShutSlot(i, SubSeq(s, n + 1, Len(s)))
         \/ /\ s = <<>> /\ conn[slots[i]].r = "closed"
            /\ UNCHANGED <<pipe, piped, published>> /\ ShutSlot(i, <<>>)
  /\ UNCHANGED <<next, listening>>

\* The dealer ends, and its end of every connection and what is in its pipe with
\* it; a new one starts.
DealerDown ==
  /\ listening
  /\ listening' = FALSE
  /\ conn' = [c \in Conn |-> IF conn[c].d \in {"queued", "open"} THEN DealerShut(c)[c]
                             ELSE conn[c]]
  /\ slots' = [i \in Slot |-> None] /\ next' = 0
  /\ pipe' = <<>> /\ piped' = SubSeq(piped, 1, Len(piped) - Len(pipe))
  /\ UNCHANGED published

DealerUp == ~ listening /\ listening' = TRUE /\ UNCHANGED <<conn, dvars>>

DealerNext == TcpCb \/ UdpData \/ (\E i \in Slot : TcpData(i)) \/ DealerDown \/ DealerUp
=============================================================================
