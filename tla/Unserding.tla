----------------------------- MODULE Unserding -----------------------------
(***************************************************************************)
(* The messaging core of the library: sockets that pack messages into      *)
(* packets, flush the packets to a multicast group, read packets off the   *)
(* group and hand their messages out one by one, answering PINGs on the    *)
(* way.  A step is one call of the interface, run to its end (the library  *)
(* has no threads), or one misbehaviour of the network.                    *)
(***************************************************************************)
EXTENDS UdWire, Sequences

CONSTANTS
  Pubs,      \* sockets whose application packs messages
  Pingers,   \* sockets whose application sends PINGs
  Subs,      \* sockets whose mode has UD_SUB
  Svcs,      \* services the application packs for
  DLens,     \* lengths of the messages it packs
  Calls,     \* other calls it makes: {"flush", "ping", "chck", "dscrd"}
  Faults,    \* {"lose", "dup", "reorder", "fail", "foreign"}
  QMax,      \* datagrams the kernel keeps for a socket nobody reads
  MaxMsgs,   \* bound: messages a publisher packs
  MaxPings,  \* bound: PINGs a socket sends
  MaxEnv     \* bound: misbehaviours of the network

ASSUME CoreAssumption ==
  /\ Pubs \subseteq Sock
  /\ Pingers \subseteq Sock
  /\ Subs \subseteq Sock
  /\ Svcs \subseteq UserSvc
  /\ DLens \subseteq Nat
  /\ {QMax, MaxMsgs, MaxPings, MaxEnv} \subseteq Nat

VARIABLES
  snd,        \* snd[s]: send buffer, its fill, the service it is for, pno
  rcv,        \* rcv[s]: the packet being read
  inq,        \* inq[s]: the kernel's receive queue
  accepted,   \* history: accepted[s], the messages s packed
  left,       \* history: left[s], which of them a sendto() took
  delivered,  \* history: delivered[s], what ud_chck_msg() handed out
  pinged,     \* history: pinged[s], the PING packets s read
  ponged,     \* history: ponged[s], the PONGs s sent
  pings,      \* pings[s]: the PINGs s sent
  env         \* misbehaviours so far

vars == <<snd, rcv, inq, accepted, left, delivered, pinged, ponged, pings, env>>

SendState == [npk : 0 .. Cap, svc : Svc, pno : Nat, buf : Buffer]

RecvState ==
  [nrd : 0 .. Cap, nck : Nat, src : Sock \cup {Foreign},
   pno : 0 .. PnoMod - 1, nr : Nat, cmd : Svc, buf : Buffer]

Handed ==
  [src : Sock \cup {Foreign}, seq : Nat, svc : Svc, len : Byte,
   pno : 0 .. PnoMod - 1, nr : Nat]

Message == [svc : Svcs, dlen : DLens]

\* mmap_mem() returns zeroed memory.
Init ==
  /\ snd = [s \in Sock |-> [npk |-> 0, svc |-> 0, pno |-> 0, buf |-> BlankBuffer]]
  /\ rcv = [s \in Sock |-> [nrd |-> 0, nck |-> 0, src |-> Foreign,
                            pno |-> 0, nr |-> 0, cmd |-> 0, buf |-> BlankBuffer]]
  /\ inq = [s \in Sock |-> <<>>]
  /\ accepted = [s \in Sock |-> <<>>]
  /\ left = [s \in Sock |-> {}]
  /\ delivered = [s \in Sock |-> <<>>]
  /\ pinged = [s \in Sock |-> 0]
  /\ ponged = [s \in Sock |-> 0]
  /\ pings = [s \in Sock |-> 0]
  /\ env = 0

-----------------------------------------------------------------------------
(* Sending.  The outcome of a sendto() is not the library's choice.  What  *)
(* a call sends is a sequence of packets, q is a send state.  The socket   *)
(* counts in an int, of which PnoMod values go on the wire.                *)

SendtoOK == IF "fail" \in Faults THEN BOOLEAN ELSE {TRUE}

\* __msg_fits_p() as if the type octet were forgotten (for mutation runs,
\* like every definition whose name starts with Bug)
BugFits(q, z) == q.npk + 1 + z <= Cap
Fits(q, z) == q.npk + PackSize(z) <= Cap

\* __svc_same_p() as if packets could mix services
BugSameSvc(q, svc) == TRUE
SameSvc(q, svc) == q.svc = 0 \/ q.svc = svc

DataPacket(s, q) ==
  [src |-> s, good |-> TRUE, pno |-> q.pno % PnoMod, nr |-> q.pno, cmd |-> q.svc,
   len |-> q.npk,
   buf |-> Overlay(q.buf, q.npk, BlankBuffer)]

CtrlPacket(s, q, cmd) ==
  [src |-> s, good |-> TRUE, pno |-> q.pno % PnoMod, nr |-> q.pno, cmd |-> cmd,
   len |-> PackSize(PingLen),
   buf |-> PutPack(BlankBuffer, 0, DataCell(PingLen, s, 0))]

\* the counter as if it were not
BugAdvance(q) == q
Advance(q) == [q EXCEPT !.pno = @ + 1]

\* ud_flush() when its sendto(), if it makes one, ends with ok.
FlushFails(q, ok) == q.npk > 0 /\ ~ ok

\* a flush as if it gave up what sendto() refused
BugFlushState(q, ok) == [Advance(q) EXCEPT !.npk = 0, !.svc = 0]
\* a flush as if it kept what it sent
BugFlushKeeps(q, ok) ==
  IF FlushFails(q, ok) THEN q ELSE [Advance(q) EXCEPT !.svc = 0]
FlushState(q, ok) ==
  IF FlushFails(q, ok) THEN q
  ELSE IF q.npk > 0 THEN [Advance(q) EXCEPT !.npk = 0, !.svc = 0]
  ELSE [q EXCEPT !.svc = 0]

FlushPackets(s, q, ok) ==
  IF q.npk > 0 /\ ok THEN <<DataPacket(s, q)>> ELSE <<>>

\* The messages in the send buffer, and those a flush takes off it.
Packs(q) == {q.buf[o].seq : o \in {p \in Offs : p < q.npk /\ q.buf[p].tag = "data"}}
FlushSeqs(q, ok) == IF ok THEN Packs(q) ELSE {}

\* ud_pack_ping(): a flush whose failure is ignored, then ud_pack_cmsg().
PingState(q, fok, cok) ==
  LET f == FlushState(q, fok) IN IF cok THEN Advance(f) ELSE f

PingPackets(s, q, cmd, fok, cok) ==
  FlushPackets(s, q, fok)
    \o (IF cok THEN <<CtrlPacket(s, FlushState(q, fok), cmd)>> ELSE <<>>)

\* A socket's queue takes what fits, the kernel drops the rest.
Enqueue(queue, ds) ==
  LET all == queue \o ds
  IN  SubSeq(all, 1, IF Len(all) <= QMax THEN Len(all) ELSE QMax)

\* The group's members get what is sent, the sender among them.
Multicast(queues, ds) ==
  [t \in Sock |-> IF t \in Subs THEN Enqueue(queues[t], ds) ELSE queues[t]]

-----------------------------------------------------------------------------
(* The publisher's calls. *)

\* ud_pack_msg(); ok is the outcome of the sendto() of the flush it may
\* start with.  When that fails the call returns -1 and changes nothing.
PackMsg(s, svc, dlen, ok) ==
  LET z == WireLen(dlen)
      flush == ~ Fits(snd[s], z) \/ ~ SameSvc(snd[s], svc)
      q == IF flush THEN FlushState(snd[s], ok) ELSE snd[s]
      c == DataCell(z, s, Len(accepted[s]) + 1)
  IN  /\ Len(accepted[s]) < MaxMsgs
      /\ ~ (flush /\ FlushFails(snd[s], ok))
      /\ snd' = [snd EXCEPT ![s] =
           [npk |-> q.npk + PackSize(z), svc |-> svc, pno |-> q.pno,
            buf |-> PutPack(q.buf, q.npk, c)]]
      /\ inq' = IF flush THEN Multicast(inq, FlushPackets(s, snd[s], ok)) ELSE inq
      /\ left' = IF flush
                 THEN [left EXCEPT ![s] = @ \cup FlushSeqs(snd[s], ok)]
                 ELSE left
      /\ accepted' = [accepted EXCEPT ![s] =
           Append(@, [svc |-> svc, dlen |-> dlen])]
      /\ UNCHANGED <<rcv, delivered, pinged, ponged, pings, env>>

\* ud_flush()
Flush(s, ok) ==
  /\ "flush" \in Calls
  /\ snd' = [snd EXCEPT ![s] = FlushState(@, ok)]
  /\ inq' = Multicast(inq, FlushPackets(s, snd[s], ok))
  /\ left' = [left EXCEPT ![s] = @ \cup FlushSeqs(snd[s], ok)]
  /\ UNCHANGED <<rcv, accepted, delivered, pinged, ponged, pings, env>>

\* What ud_pack_ping() with command cmd does for s, on the queues given.
PackPing(s, cmd, queues, fok, cok) ==
  /\ snd' = [snd EXCEPT ![s] = PingState(@, fok, cok)]
  /\ inq' = Multicast(queues, PingPackets(s, snd[s], cmd, fok, cok))
  /\ left' = [left EXCEPT ![s] = @ \cup FlushSeqs(snd[s], fok)]

\* ud_pack_pong(s, 0)
SendPing(s, fok, cok) ==
  /\ "ping" \in Calls
  /\ pings[s] < MaxPings
  /\ PackPing(s, PING, inq, fok, cok)
  /\ pings' = [pings EXCEPT ![s] = @ + 1]
  /\ UNCHANGED <<rcv, accepted, delivered, pinged, ponged, env>>

-----------------------------------------------------------------------------
(* The subscriber's calls. *)

\* A datagram that is not unserding's as if it were
BugLoad(r, d) ==
  [nrd |-> d.len, nck |-> 0, src |-> d.src, pno |-> d.pno, nr |-> d.nr, cmd |-> d.cmd,
   buf |-> Overlay(d.buf, d.len, r.buf)]
\* ud_dscrd() with nothing buffered: the receive state after the next
\* datagram.  A bad one overwrites the buffer all the same.
Load(r, d) ==
  [nrd |-> IF d.good THEN d.len ELSE r.nrd, nck |-> IF d.good THEN 0 ELSE r.nck,
   src |-> d.src, pno |-> d.pno, nr |-> d.nr, cmd |-> d.cmd,
   buf |-> Overlay(d.buf, d.len, r.buf)]

\* as if the check offset survived the packet
BugDropped(r) == [r EXCEPT !.nrd = 0]
Dropped(r) == [r EXCEPT !.nrd = 0, !.nck = 0]

PingsIn(d) == IF d.good /\ d.cmd = PING THEN 1 ELSE 0

\* ud_get_aux() of the packet being read.
Aux(r) == [src |-> r.src, pno |-> r.pno, svc |-> r.cmd, len |-> r.nrd]

\* ud_chck_cmsg(): of the control messages only the PING has an answer.
\* As if every control message had one, and as if the reply bit were mixed up
BugAnswersAll(svc) == IsCtrl(svc)
BugAnswersPong(svc) == svc = PONG
WantsPong(svc) == IsCtrl(svc) /\ svc = PING

\* The part of ud_chck_msg() that looks at the pack at nck of the packet r
\* holds: the reply to a PING, then the pack itself.
Parse(t, r, queues, fok, cok) ==
  LET c == r.buf[r.nck]
  IN  /\ \/ /\ WantsPong(Aux(r).svc)
            /\ PackPing(t, PONG, queues, fok, cok)
            /\ ponged' = [ponged EXCEPT ![t] = @ + (IF cok THEN 1 ELSE 0)]
         \/ /\ ~ WantsPong(Aux(r).svc)
            /\ inq' = queues
            /\ UNCHANGED <<snd, left, ponged>>
      /\ \/ /\ c.tag # "data"
            /\ rcv' = [rcv EXCEPT ![t] = Dropped(r)]
            /\ UNCHANGED delivered
         \/ /\ c.tag = "data"
            /\ rcv' = [rcv EXCEPT ![t] = [r EXCEPT !.nck = @ + PackSize(c.len)]]
            /\ delivered' = [delivered EXCEPT ![t] =
                 Append(@, [src |-> Aux(r).src, seq |-> c.seq, svc |-> Aux(r).svc,
                            len |-> c.len, pno |-> Aux(r).pno, nr |-> r.nr])]

\* ud_chck_msg() with packs left in the packet
ChckNext(t, fok, cok) ==
  /\ rcv[t].nck < rcv[t].nrd
  /\ Parse(t, rcv[t], inq, fok, cok)
  /\ UNCHANGED <<accepted, pinged, pings, env>>

\* ud_chck_msg() at the end of the packet: it forgets it and returns -1.
\* As if the end were one octet behind the last
BugChckEnd(t) ==
  /\ rcv[t].nrd > 0 /\ rcv[t].nck > rcv[t].nrd
  /\ rcv' = [rcv EXCEPT ![t] = Dropped(@)]
  /\ UNCHANGED <<snd, inq, accepted, left, delivered, pinged, ponged, pings, env>>
ChckEnd(t) ==
  /\ rcv[t].nrd > 0 /\ rcv[t].nck >= rcv[t].nrd
  /\ rcv' = [rcv EXCEPT ![t] = Dropped(@)]
  /\ UNCHANGED <<snd, inq, accepted, left, delivered, pinged, ponged, pings, env>>

\* ud_chck_msg() with nothing buffered: it reads the next datagram.
ChckFresh(t, fok, cok) ==
  /\ rcv[t].nrd = 0 /\ inq[t] # <<>>
  /\ LET r == Load(rcv[t], Head(inq[t]))
         queues == [inq EXCEPT ![t] = Tail(@)]
     IN  \/ /\ r.nck < r.nrd
            /\ Parse(t, r, queues, fok, cok)
         \/ /\ r.nck >= r.nrd
            /\ rcv' = [rcv EXCEPT ![t] = r]
            /\ inq' = queues
            /\ UNCHANGED <<snd, left, delivered, ponged>>
  /\ pinged' = [pinged EXCEPT ![t] = @ + PingsIn(Head(inq[t]))]
  /\ UNCHANGED <<accepted, pings, env>>

ChckMsg(t) ==
  /\ "chck" \in Calls
  /\ \/ \E fok, cok \in SendtoOK : ChckNext(t, fok, cok) \/ ChckFresh(t, fok, cok)
     \/ ChckEnd(t)

\* ud_dscrd() by the application
Dscrd(t) ==
  /\ "dscrd" \in Calls
  /\ \/ /\ rcv[t].nrd = 0 /\ inq[t] # <<>>
        /\ rcv' = [rcv EXCEPT ![t] = Load(@, Head(inq[t]))]
        /\ inq' = [inq EXCEPT ![t] = Tail(@)]
        /\ pinged' = [pinged EXCEPT ![t] = @ + PingsIn(Head(inq[t]))]
     \/ /\ rcv[t].nrd > 0
        /\ rcv' = [rcv EXCEPT ![t] = Dropped(@)]
        /\ UNCHANGED <<inq, pinged>>
  /\ UNCHANGED <<snd, accepted, left, delivered, ponged, pings, env>>

-----------------------------------------------------------------------------
(* The network.  Datagrams are lost, doubled and overtaken; somebody else  *)
(* sends a PING that is a header only, something that is not an unserding  *)
(* packet, or a packet whose payload does not start with a data pack.      *)

ForeignPacket(good, cmd, n) ==
  [src |-> Foreign, good |-> good, pno |-> 0, nr |-> 0, cmd |-> cmd, len |-> n,
   buf |-> BlankBuffer]

ForeignPackets ==
  {ForeignPacket(TRUE, PING, 0), ForeignPacket(FALSE, 0, 1)}
    \cup {ForeignPacket(TRUE, v, 1) : v \in Svcs}

\* The network does f to t's queue.
Misbehave(f, t, queue) ==
  /\ f \in Faults
  /\ env < MaxEnv
  /\ env' = env + 1
  /\ inq' = [inq EXCEPT ![t] = queue]
  /\ UNCHANGED <<snd, rcv, accepted, left, delivered, pinged, ponged, pings>>

Lose(t) ==
  \E i \in DOMAIN inq[t] :
    Misbehave("lose", t,
      SubSeq(inq[t], 1, i - 1) \o SubSeq(inq[t], i + 1, Len(inq[t])))

Duplicate(t) ==
  \E i \in DOMAIN inq[t] : Misbehave("dup", t, Enqueue(inq[t], <<inq[t][i]>>))

Reorder(t) ==
  \E i \in 1 .. Len(inq[t]) - 1 :
    Misbehave("reorder", t,
      [inq[t] EXCEPT ![i] = inq[t][i + 1], ![i + 1] = inq[t][i]])

ForeignSend(t) ==
  \E d \in ForeignPackets : Misbehave("foreign", t, Enqueue(inq[t], <<d>>))

-----------------------------------------------------------------------------

Publish(s) ==
  \/ \E svc \in Svcs, dlen \in DLens, ok \in SendtoOK : PackMsg(s, svc, dlen, ok)
  \/ \E ok \in SendtoOK : Flush(s, ok)

Network(t) == Lose(t) \/ Duplicate(t) \/ Reorder(t) \/ ForeignSend(t)

Next ==
  \/ \E s \in Pubs : Publish(s)
  \/ \E s \in Pingers, fok, cok \in SendtoOK : SendPing(s, fok, cok)
  \/ \E t \in Subs : ChckMsg(t) \/ Dscrd(t) \/ Network(t)

Spec == Init /\ [][Next]_vars

\* A subscriber polls its socket and drains it, as the programs do.
LiveSpec == Spec /\ \A t \in Subs : WF_vars(ChckMsg(t))

-----------------------------------------------------------------------------
(* Safety *)

\* Every variable has its type.
TypeOK ==
  /\ snd \in [Sock -> SendState]
  /\ rcv \in [Sock -> RecvState]
  /\ inq \in [Sock -> Seq(Datagram)]
  /\ accepted \in [Sock -> Seq(Message)]
  /\ left \in [Sock -> SUBSET Nat]
  /\ delivered \in [Sock -> Seq(Handed)]
  /\ pinged \in [Sock -> Nat]
  /\ ponged \in [Sock -> Nat]
  /\ pings \in [Sock -> Nat]
  /\ env \in Nat

\* A packet of the library is being read where one of its packs starts.
ReadsPacks(r) ==
  /\ r.nrd = 0 => r.nck = 0
  /\ r.src # Foreign =>
       /\ Framed(r.buf, r.nrd)
       /\ r.nck <= r.nrd
       /\ r.nck < r.nrd => r.buf[r.nck].tag = "data"

\* The library's own packets can be read pack by pack, in the send buffer,
\* on the network and in the receive buffer, where the next pack to read
\* always starts where a pack was written: ud_chck_msg() neither hands out
\* bytes from the middle of a message nor stale ones of an earlier packet.
FramingAgrees ==
  \A s \in Sock :
    /\ Framed(snd[s].buf, snd[s].npk)
    /\ \A i \in DOMAIN inq[s] :
         inq[s][i].src # Foreign => Framed(inq[s][i].buf, inq[s][i].len)
    /\ ReadsPacks(rcv[s])

\* Everything handed out that is a publisher's message is one it packed.
HandedOutWasPacked ==
  \A t \in Sock : \A k \in DOMAIN delivered[t] :
    LET m == delivered[t][k] IN
      m.seq > 0 => m.src \in Sock /\ m.seq \in DOMAIN accepted[m.src]

\* A message is handed out under the service it was packed for, whatever
\* shared its packet.
ServiceKept ==
  \A t \in Sock : \A k \in DOMAIN delivered[t] :
    LET m == delivered[t][k] IN
      m.seq > 0 => m.svc = accepted[m.src][m.seq].svc

\* A message is handed out as long as it was packed.
LengthKept ==
  \A t \in Sock : \A k \in DOMAIN delivered[t] :
    LET m == delivered[t][k] IN
      m.seq > 0 => m.len = accepted[m.src][m.seq].dlen

\* What comes out is what went in, whatever the network did.
Integrity == HandedOutWasPacked /\ ServiceKept /\ LengthKept

\* A message ud_pack_msg() took waits in the send buffer or has been taken
\* by a sendto(), never both and never neither, and the messages leave in
\* order: a flush that fails, or the flush a PING or its answer starts
\* with, loses nothing.
NoPackLost ==
  \A s \in Sock :
    /\ left[s] \cup Packs(snd[s]) = 1 .. Len(accepted[s])
    /\ \A i \in left[s], j \in Packs(snd[s]) : i < j

\* PONGs answer PINGs only and a PING is answered at most once: two sockets
\* never keep answering each other.
NoUnsolicitedPong == \A t \in Sock : ponged[t] <= pinged[t]

\* "Replying to this command is mandatory": a socket that has read its
\* packets has answered every PING among them.
EveryPingAnswered ==
  \A t \in Subs : rcv[t].nck >= rcv[t].nrd => ponged[t] = pinged[t]

\* What t was handed of p, as positions in delivered[t]
Had(t, p) == {k \in DOMAIN delivered[t] : delivered[t][k].src = p}

\* The packet numbers of what t was handed say that nothing was lost between
\* k and l.  That a whole cycle of packets, 65536 in the code, was lost they
\* cannot say.
SaysNext(k, l) ==
  /\ l.pno \in {k.pno, (k.pno + 1) % PnoMod}
  /\ l.nr - k.nr < PnoMod

\* Packet numbers show losses: where they say that nothing was lost from a
\* publisher's message to the next message a subscriber was handed of it, over
\* all that came from it in between, nothing was.
GapFree ==
  \A t \in Subs, p \in Pubs : \A i, j \in Had(t, p) :
    /\ i < j /\ delivered[t][i].seq > 0 /\ delivered[t][j].seq > 0
    /\ \A k \in Had(t, p) : i < k /\ k < j => delivered[t][k].seq = 0
    /\ \A k, l \in Had(t, p) :
         i <= k /\ k < l /\ l <= j /\ (\A m \in Had(t, p) : m <= k \/ l <= m)
         => SaysNext(delivered[t][k], delivered[t][l])
    => delivered[t][j].seq = delivered[t][i].seq + 1

-----------------------------------------------------------------------------
(* What the library promises: ordered unreliable multicast, PubSub. *)

\* A control message, of which PubSub says nothing but who sent it
Control == [svc |-> 0, dlen |-> 0]

\* What was handed out, as PubSub has it
AsHanded(m) ==
  [src |-> m.src, seq |-> m.seq,
   msg |-> IF m.seq = 0 THEN Control ELSE [svc |-> m.svc, dlen |-> m.len]]

Abs ==
  INSTANCE PubSub WITH
    accepted <- accepted,
    flushed <- left,
    delivered <- [t \in Sock |->
      [k \in DOMAIN delivered[t] |-> AsHanded(delivered[t][k])]]

ImplementsPubSub == Abs!Spec

-----------------------------------------------------------------------------
(* Liveness *)

\* The messages of p among the datagrams the kernel keeps for t.
InFlight(t, p) ==
  UNION {{inq[t][i].buf[o].seq : o \in
            {q \in Offs : q < inq[t][i].len /\ inq[t][i].buf[q].tag = "data"}} :
          i \in {j \in DOMAIN inq[t] : inq[t][j].src = p}}
    \ {0}

\* A message the kernel keeps for a subscriber is handed out to it sooner
\* or later, by the packet that holds it being read to its end.
QueuedIsDelivered ==
  \A t \in Subs, p \in Pubs : \A i \in 1 .. MaxMsgs :
    i \in InFlight(t, p) ~>
      \E k \in DOMAIN delivered[t] :
        delivered[t][k].src = p /\ delivered[t][k].seq = i

\* Readers that answer each other's PINGs fall silent: the queues run empty
\* for good, and every PING that was read has been answered by then.
PingsSettle ==
  <>[](\A t \in Subs : inq[t] = <<>> /\ ponged[t] = pinged[t])
=============================================================================
