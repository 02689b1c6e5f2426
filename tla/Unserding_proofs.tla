------------------------- MODULE Unserding_proofs -------------------------
(***************************************************************************)
(* Proofs about the messaging core: type correctness, framing and the      *)
(* bookkeeping of packed messages, and the answers to PINGs, for every set *)
(* of sockets, every packet size and every kind of network fault.          *)
(***************************************************************************)
EXTENDS Unserding, SequenceTheorems, TLAPS

USE WireAssumption, CoreAssumption

-----------------------------------------------------------------------------
(* Operators on packs and packets *)

\* The cell nothing was written to is a cell.
LEMMA BlankType == Blank \in Cell /\ BlankBuffer \in Buffer
<1>1. Blank \in Cell
  BY DEF Blank, Cell, Byte
<1> QED
  BY <1>1 DEF BlankBuffer, Buffer

\* Writing a pack leaves a buffer a buffer.
LEMMA PutPackType ==
  ASSUME NEW b \in Buffer, NEW o \in Nat, NEW c \in Cell
  PROVE  PutPack(b, o, c) \in Buffer
BY BlankType DEF PutPack, Buffer

\* So does laying one over the other.
LEMMA OverlayType ==
  ASSUME NEW b \in Buffer, NEW n \in Nat, NEW under \in Buffer
  PROVE  Overlay(b, n, under) \in Buffer
BY DEF Overlay, Buffer

\* The wire's length octet is an octet.
LEMMA WireLenType ==
  ASSUME NEW dlen \in Nat
  PROVE  WireLen(dlen) \in Byte
BY DEF WireLen, Byte

\* A pack that is written is a cell.
LEMMA DataCellType ==
  ASSUME NEW z \in Byte, NEW s \in Sock, NEW i \in Nat
  PROVE  DataCell(z, s, i) \in Cell
BY DEF DataCell, Cell

\* Services of the library are services.
LEMMA CtrlSvcs == PING \in Svc /\ PONG \in Svc /\ PING # PONG
BY DEF PING, PONG, UD_SVC, ChnCtrl, Svc

\* Counting a packet keeps a send state a send state.
LEMMA AdvanceType ==
  ASSUME NEW q \in SendState
  PROVE  /\ Advance(q) \in SendState
         /\ Advance(q).npk = q.npk /\ Advance(q).svc = q.svc
         /\ Advance(q).buf = q.buf
BY DEF Advance, SendState

\* A flush ends with an empty buffer for no service, or with no change.
LEMMA FlushStateType ==
  ASSUME NEW q \in SendState, NEW ok \in BOOLEAN
  PROVE  /\ FlushState(q, ok) \in SendState
         /\ FlushState(q, ok).buf = q.buf
         /\ ~ FlushFails(q, ok) =>
              FlushState(q, ok).npk = 0 /\ FlushState(q, ok).svc = 0
         /\ FlushFails(q, ok) => FlushState(q, ok) = q
<1>1. 0 \in Svc /\ 0 \in 0 .. Cap
  BY DEF Svc
<1>2. \A f \in SendState :
        /\ [f EXCEPT !.npk = 0, !.svc = 0] \in SendState
        /\ [f EXCEPT !.npk = 0, !.svc = 0].npk = 0
        /\ [f EXCEPT !.npk = 0, !.svc = 0].svc = 0
        /\ [f EXCEPT !.npk = 0, !.svc = 0].buf = f.buf
  BY <1>1 DEF SendState
<1>3. [q EXCEPT !.svc = 0] \in SendState
  BY <1>1 DEF SendState
<1> DEFINE f == Advance(q)
<1>4. f \in SendState /\ f.buf = q.buf
  BY AdvanceType
<1> HIDE DEF f
<1>5. CASE q.npk > 0 /\ ok
  BY <1>2, <1>4, <1>5 DEF FlushState, FlushFails, f
<1>6. CASE q.npk > 0 /\ ~ ok
  BY <1>6 DEF FlushState, FlushFails
<1>7. CASE ~ (q.npk > 0)
  BY <1>3, <1>7 DEF FlushState, FlushFails, SendState
<1> QED
  BY <1>5, <1>6, <1>7

\* What is sent of a send buffer is a datagram.
LEMMA DataPacketType ==
  ASSUME NEW s \in Sock, NEW q \in SendState
  PROVE  DataPacket(s, q) \in Datagram
<1>1. Overlay(q.buf, q.npk, BlankBuffer) \in Buffer
  BY OverlayType, BlankType DEF SendState
<1> QED
  BY <1>1 DEF DataPacket, Datagram, SendState

\* A PING and a PONG are datagrams.
LEMMA CtrlPacketType ==
  ASSUME NEW s \in Sock, NEW q \in SendState, NEW cmd \in Svc
  PROVE  CtrlPacket(s, q, cmd) \in Datagram
<1>1. PingLen \in Byte /\ PackSize(PingLen) \in 0 .. Cap
  BY DEF Byte, PackSize
<1>2. PutPack(BlankBuffer, 0, DataCell(PingLen, s, 0)) \in Buffer
  BY <1>1, PutPackType, BlankType, DataCellType
<1> QED
  BY <1>1, <1>2 DEF CtrlPacket, Datagram, SendState

\* A queue that takes datagrams of a kind holds datagrams of that kind.
LEMMA EnqueueType ==
  ASSUME NEW S, NEW queue \in Seq(S), NEW ds \in Seq(S)
  PROVE  Enqueue(queue, ds) \in Seq(S)
<1> DEFINE all == queue \o ds
           n == IF Len(all) <= QMax THEN Len(all) ELSE QMax
<1>1. all \in Seq(S)
  BY ConcatProperties
<1>2. Len(all) \in Nat /\ n \in Nat /\ n <= Len(all)
  BY <1>1, LenProperties
<1>3. \A i \in 1 .. n : all[i] \in S
  BY <1>1, <1>2, ElementOfSeq
<1> HIDE DEF all, n
<1>4. SubSeq(all, 1, n) \in Seq(S)
  BY <1>2, <1>3, SubSeqProperties
<1> QED
  BY <1>4 DEF Enqueue, all, n

\* The same of all queues of the group.
LEMMA MulticastType ==
  ASSUME NEW S, NEW queues \in [Sock -> Seq(S)], NEW ds \in Seq(S)
  PROVE  Multicast(queues, ds) \in [Sock -> Seq(S)]
BY EnqueueType DEF Multicast

-----------------------------------------------------------------------------
(* Calls, as what they do to one send state and one receive state *)

\* What a flush sends is a sequence of datagrams of the sender.
LEMMA FlushPacketsType ==
  ASSUME NEW S, NEW s \in Sock, NEW q \in SendState, NEW ok \in BOOLEAN,
         q.npk > 0 => DataPacket(s, q) \in S
  PROVE  FlushPackets(s, q, ok) \in Seq(S)
<1>1. CASE q.npk > 0 /\ ok
  <2>1. <<DataPacket(s, q)>> \in Seq(S)
    BY <1>1
  <2> QED
    BY <1>1, <2>1 DEF FlushPackets
<1>2. CASE ~ (q.npk > 0 /\ ok)
  BY <1>2 DEF FlushPackets
<1> QED
  BY <1>1, <1>2

\* So is what a PING or a PONG sends, the flush before it included.
LEMMA PingPacketsType ==
  ASSUME NEW S, NEW s \in Sock, NEW q \in SendState, NEW cmd \in {PING, PONG},
         NEW fok \in BOOLEAN, NEW cok \in BOOLEAN,
         q.npk > 0 => DataPacket(s, q) \in S,
         \A f \in SendState : CtrlPacket(s, f, cmd) \in S
  PROVE  PingPackets(s, q, cmd, fok, cok) \in Seq(S)
<1> DEFINE ds == FlushPackets(s, q, fok)
           cs == IF cok THEN <<CtrlPacket(s, FlushState(q, fok), cmd)>> ELSE <<>>
<1>1. ds \in Seq(S)
  BY FlushPacketsType
<1>2. cs \in Seq(S)
  <2>1. CtrlPacket(s, FlushState(q, fok), cmd) \in S
    BY FlushStateType
  <2> QED
    BY <2>1
<1> HIDE DEF ds, cs
<1>3. ds \o cs \in Seq(S)
  BY <1>1, <1>2, ConcatProperties
<1> QED
  BY <1>3 DEF PingPackets, ds, cs

\* The send state after a PING or a PONG.
LEMMA PingStateType ==
  ASSUME NEW q \in SendState, NEW fok \in BOOLEAN, NEW cok \in BOOLEAN
  PROVE  /\ PingState(q, fok, cok) \in SendState
         /\ PingState(q, fok, cok).npk = FlushState(q, fok).npk
         /\ PingState(q, fok, cok).svc = FlushState(q, fok).svc
         /\ PingState(q, fok, cok).buf = q.buf
<1> DEFINE f == FlushState(q, fok)
<1>1. f \in SendState /\ f.buf = q.buf
  BY FlushStateType
<1> HIDE DEF f
<1>2. /\ Advance(f) \in SendState /\ Advance(f).npk = f.npk
      /\ Advance(f).svc = f.svc /\ Advance(f).buf = f.buf
  BY <1>1, AdvanceType
<1> QED
  BY <1>1, <1>2 DEF PingState, f

\* The messages a flush takes are numbered.
LEMMA FlushSeqsType ==
  ASSUME NEW q \in SendState, NEW ok \in BOOLEAN
  PROVE  FlushSeqs(q, ok) \in SUBSET Nat
BY DEF FlushSeqs, Packs, SendState, Buffer, Cell

\* The receive state after a datagram.
LEMMA LoadType ==
  ASSUME NEW r \in RecvState, NEW d \in Datagram
  PROVE  Load(r, d) \in RecvState
<1>1. Overlay(d.buf, d.len, r.buf) \in Buffer
  BY OverlayType DEF RecvState, Datagram
<1> QED
  BY <1>1 DEF Load, RecvState, Datagram

\* The receive state of a packet that is forgotten.
LEMMA DroppedType ==
  ASSUME NEW r \in RecvState
  PROVE  /\ Dropped(r) \in RecvState
         /\ Dropped(r).nrd = 0 /\ Dropped(r).nck = 0
         /\ Dropped(r).src = r.src /\ Dropped(r).cmd = r.cmd
<1> DEFINE f == [r EXCEPT !.nrd = 0]
<1>1. f \in RecvState /\ f.nrd = 0 /\ f.src = r.src /\ f.cmd = r.cmd
  BY DEF RecvState
<1> HIDE DEF f
<1>2. [f EXCEPT !.nck = 0] \in RecvState
  BY <1>1 DEF RecvState
<1>3. Dropped(r) = [f EXCEPT !.nck = 0]
  BY DEF Dropped, f
<1> QED
  BY <1>1, <1>2, <1>3 DEF RecvState

\* What the network leaves in a queue is what was in it or is foreign.
LEMMA NetworkType ==
  ASSUME NEW S, NEW t \in Sock, inq \in [Sock -> Seq(S)],
         "foreign" \in Faults => ForeignPackets \subseteq S, Network(t)
  PROVE  inq' \in [Sock -> Seq(S)]
<1> DEFINE q == inq[t]
<1>0. q \in Seq(S) /\ Len(q) \in Nat /\ DOMAIN q = 1 .. Len(q)
  BY LenProperties
<1>a. \A i \in 1 .. Len(q) : q[i] \in S
  BY <1>0, ElementOfSeq
<1> SUFFICES ASSUME NEW u \in Seq(S), inq' = [inq EXCEPT ![t] = u]
             PROVE  inq' \in [Sock -> Seq(S)]
  <2>1. CASE Lose(t)
    <3>1. PICK i \in DOMAIN q :
            inq' = [inq EXCEPT ![t] =
                      SubSeq(q, 1, i - 1) \o SubSeq(q, i + 1, Len(q))]
      BY <2>1 DEF Lose, Misbehave
    <3>2. SubSeq(q, 1, i - 1) \in Seq(S) /\ SubSeq(q, i + 1, Len(q)) \in Seq(S)
      BY <1>0, <1>a, SubSeqProperties
    <3>3. SubSeq(q, 1, i - 1) \o SubSeq(q, i + 1, Len(q)) \in Seq(S)
      BY <3>2, ConcatProperties
    <3> QED
      BY <3>1, <3>3
  <2>2. CASE Duplicate(t)
    <3>1. PICK i \in DOMAIN q : inq' = [inq EXCEPT ![t] = Enqueue(q, <<q[i]>>)]
      BY <2>2 DEF Duplicate, Misbehave
    <3>2. <<q[i]>> \in Seq(S)
      BY <1>0, <1>a
    <3> QED
      BY <1>0, <3>1, <3>2, EnqueueType
  <2>3. CASE Reorder(t)
    <3>1. PICK i \in 1 .. Len(q) - 1 :
            inq' = [inq EXCEPT ![t] = [q EXCEPT ![i] = q[i + 1], ![i + 1] = q[i]]]
      BY <2>3 DEF Reorder, Misbehave
    <3> DEFINE v == [q EXCEPT ![i] = q[i + 1]]
    <3>2. v \in Seq(S) /\ Len(v) = Len(q)
      BY <1>0, <1>a, ExceptSeq, SMTT(30)
    <3> HIDE DEF v
    <3>3. [v EXCEPT ![i + 1] = q[i]] \in Seq(S)
      BY <1>0, <1>a, <3>2, ExceptSeq
    <3> QED
      BY <3>1, <3>3 DEF v
  <2>4. CASE ForeignSend(t)
    <3>1. PICK d \in ForeignPackets : inq' = [inq EXCEPT ![t] = Enqueue(q, <<d>>)]
      BY <2>4 DEF ForeignSend, Misbehave
    <3>2. "foreign" \in Faults
      BY <2>4 DEF ForeignSend, Misbehave
    <3>3. <<d>> \in Seq(S)
      BY <3>2
    <3> QED
      BY <1>0, <3>1, <3>3, EnqueueType
  <2> QED
    BY <2>1, <2>2, <2>3, <2>4 DEF Network
<1> QED
  OBVIOUS

-----------------------------------------------------------------------------
(* Type correctness *)

\* The outcome of a sendto() is a Boolean.
LEMMA SendtoType == SendtoOK \subseteq BOOLEAN
BY DEF SendtoOK

\* ud_pack_ping() within the types.
LEMMA PackPingType ==
  ASSUME NEW s \in Sock, NEW cmd \in {PING, PONG}, NEW queues,
         NEW fok \in BOOLEAN, NEW cok \in BOOLEAN,
         snd \in [Sock -> SendState], left \in [Sock -> SUBSET Nat],
         queues \in [Sock -> Seq(Datagram)],
         PackPing(s, cmd, queues, fok, cok)
  PROVE  /\ snd' \in [Sock -> SendState]
         /\ left' \in [Sock -> SUBSET Nat]
         /\ inq' \in [Sock -> Seq(Datagram)]
<1>1. PingState(snd[s], fok, cok) \in SendState
  BY PingStateType
<1>2. FlushSeqs(snd[s], fok) \in SUBSET Nat
  BY FlushSeqsType
<1>3. PingPackets(s, snd[s], cmd, fok, cok) \in Seq(Datagram)
  <2>1. /\ DataPacket(s, snd[s]) \in Datagram
        /\ \A f \in SendState : CtrlPacket(s, f, cmd) \in Datagram
    BY DataPacketType, CtrlPacketType, CtrlSvcs
  <2> QED
    BY <2>1, PingPacketsType
<1>4. Multicast(queues, PingPackets(s, snd[s], cmd, fok, cok))
        \in [Sock -> Seq(Datagram)]
  BY <1>3, MulticastType
<1> QED
  BY <1>1, <1>2, <1>4 DEF PackPing

\* Looking at one pack within the types.
LEMMA ParseType ==
  ASSUME TypeOK, NEW t \in Sock, NEW r \in RecvState, r.nck < r.nrd,
         NEW queues \in [Sock -> Seq(Datagram)],
         NEW fok \in BOOLEAN, NEW cok \in BOOLEAN,
         Parse(t, r, queues, fok, cok)
  PROVE  /\ snd' \in [Sock -> SendState]
         /\ left' \in [Sock -> SUBSET Nat]
         /\ inq' \in [Sock -> Seq(Datagram)]
         /\ ponged' \in [Sock -> Nat]
         /\ rcv' \in [Sock -> RecvState]
         /\ delivered' \in [Sock -> Seq(Handed)]
<1> DEFINE c == r.buf[r.nck]
<1>1. c \in Cell
  BY DEF RecvState, Buffer, Offs
<1>2. /\ snd' \in [Sock -> SendState] /\ left' \in [Sock -> SUBSET Nat]
      /\ inq' \in [Sock -> Seq(Datagram)] /\ ponged' \in [Sock -> Nat]
  <2>1. CASE WantsPong(Aux(r).svc)
    <3>1. /\ PackPing(t, PONG, queues, fok, cok)
          /\ ponged' = [ponged EXCEPT ![t] = @ + (IF cok THEN 1 ELSE 0)]
      BY <2>1 DEF Parse
    <3>2. ponged' \in [Sock -> Nat]
      BY <3>1 DEF TypeOK
    <3>3. /\ snd' \in [Sock -> SendState] /\ left' \in [Sock -> SUBSET Nat]
          /\ inq' \in [Sock -> Seq(Datagram)]
      <4>1. snd \in [Sock -> SendState] /\ left \in [Sock -> SUBSET Nat]
        BY DEF TypeOK
      <4> QED
        BY <3>1, <4>1, PackPingType
    <3> QED
      BY <3>2, <3>3
  <2>2. CASE ~ WantsPong(Aux(r).svc)
    BY <2>2 DEF Parse, TypeOK
  <2> QED
    BY <2>1, <2>2
<1>3. CASE c.tag # "data"
  <2>1. /\ rcv' = [rcv EXCEPT ![t] = Dropped(r)]
        /\ UNCHANGED delivered
    BY <1>3 DEF Parse
  <2> QED
    BY <1>2, <2>1, DroppedType DEF TypeOK
<1>4. CASE c.tag = "data"
  <2> DEFINE m == [src |-> Aux(r).src, seq |-> c.seq, svc |-> Aux(r).svc,
                   len |-> c.len, pno |-> Aux(r).pno, nr |-> r.nr]
  <2>1. /\ rcv' = [rcv EXCEPT ![t] = [r EXCEPT !.nck = @ + PackSize(c.len)]]
        /\ delivered' = [delivered EXCEPT ![t] = Append(@, m)]
    BY <1>4 DEF Parse
  <2>2. m \in Handed
    BY <1>1 DEF Aux, RecvState, Handed, Cell
  <2>3. [r EXCEPT !.nck = @ + PackSize(c.len)] \in RecvState
    <3> DEFINE n == r.nck + PackSize(c.len)
    <3>1. n \in Nat
      <4>1. c.len \in Nat /\ r.nck \in Nat
        BY <1>1 DEF RecvState, Cell, Byte
      <4> HIDE DEF c
      <4> QED
        BY <4>1 DEF PackSize
    <3> HIDE DEF n
    <3>2. [r EXCEPT !.nck = n] \in RecvState
      BY <3>1 DEF RecvState
    <3> QED
      BY <3>2 DEF n
  <2> HIDE DEF m
  <2>4. Append(delivered[t], m) \in Seq(Handed)
    BY <2>2, AppendProperties DEF TypeOK
  <2> QED
    BY <1>2, <2>1, <2>3, <2>4 DEF TypeOK
<1> QED
  BY <1>3, <1>4

\* The packets of other senders are datagrams.
LEMMA ForeignType == ForeignPackets \subseteq Datagram
<1>1. 0 \in 0 .. PnoMod - 1 /\ 1 \in 0 .. Cap /\ 0 \in 0 .. Cap /\ 0 \in Svc
  BY DEF Svc
<1>2. \A v \in Svcs : v \in Svc
  BY DEF UserSvc
<1>3. \A good \in BOOLEAN, v \in Svc, n \in 0 .. Cap :
        ForeignPacket(good, v, n) \in Datagram
  BY <1>1, BlankType DEF ForeignPacket, Datagram
<1>4. ForeignPacket(TRUE, PING, 0) \in Datagram /\ ForeignPacket(FALSE, 0, 1) \in Datagram
  BY <1>1, <1>3, CtrlSvcs
<1>5. \A v \in Svcs : ForeignPacket(TRUE, v, 1) \in Datagram
  BY <1>1, <1>2, <1>3
<1> QED
  BY <1>4, <1>5 DEF ForeignPackets

\* ud_pack_msg() never writes past the end of the send buffer: either the
\* pack fits, or the buffer is empty and any pack fits.
LEMMA PackFits ==
  ASSUME NEW q \in SendState, NEW svc, NEW z \in Byte, NEW ok \in BOOLEAN,
         NEW f,
         f = IF ~ Fits(q, z) \/ ~ SameSvc(q, svc) THEN FlushState(q, ok) ELSE q,
         ~ Fits(q, z) \/ ~ SameSvc(q, svc) => ~ FlushFails(q, ok)
  PROVE  /\ f \in SendState
         /\ f.npk + PackSize(z) \in 0 .. Cap
         /\ f.npk \in Nat
<1>1. CASE ~ Fits(q, z) \/ ~ SameSvc(q, svc)
  <2>1. f \in SendState /\ f.npk = 0
    BY <1>1, FlushStateType
  <2>2. z + 2 \in 0 .. Cap
    BY DEF Byte
  <2> QED
    BY <2>1, <2>2 DEF PackSize
<1>2. CASE Fits(q, z) /\ SameSvc(q, svc)
  <2>1. f = q
    BY <1>2
  <2> QED
    BY <1>2, <2>1 DEF Fits, PackSize, Byte, SendState
<1> QED
  BY <1>1, <1>2

\* Taking a message within the types.
LEMMA PackMsgType ==
  ASSUME TypeOK, NEW s \in Sock, NEW svc \in Svcs, NEW dlen \in DLens,
         NEW ok \in BOOLEAN, PackMsg(s, svc, dlen, ok)
  PROVE  TypeOK'
<1> DEFINE z == WireLen(dlen)
           flush == ~ Fits(snd[s], z) \/ ~ SameSvc(snd[s], svc)
           q == IF flush THEN FlushState(snd[s], ok) ELSE snd[s]
           c == DataCell(z, s, Len(accepted[s]) + 1)
<1>0. snd[s] \in SendState /\ dlen \in Nat /\ svc \in Svc
  BY DEF TypeOK, UserSvc
<1>1. q \in SendState /\ q.npk + PackSize(z) \in 0 .. Cap /\ q.npk \in Nat
  <2>1. z \in Byte
    BY <1>0, WireLenType
  <2>2. flush => ~ FlushFails(snd[s], ok)
    BY DEF PackMsg
  <2> HIDE DEF z
  <2> QED
    BY <1>0, <2>1, <2>2, PackFits
<1>2. c \in Cell
  <2>1. z \in Byte
    BY <1>0, WireLenType
  <2>2. accepted[s] \in Seq(Message)
    BY DEF TypeOK
  <2>3. Len(accepted[s]) + 1 \in Nat
    BY <2>2, LenProperties
  <2> HIDE DEF z
  <2> QED
    BY <2>1, <2>3, DataCellType
<1>3. PutPack(q.buf, q.npk, c) \in Buffer
  BY <1>1, <1>2, PutPackType DEF SendState
<1>4. snd' \in [Sock -> SendState]
  <2>1. [npk |-> q.npk + PackSize(z), svc |-> svc, pno |-> q.pno,
         buf |-> PutPack(q.buf, q.npk, c)] \in SendState
    BY <1>0, <1>1, <1>3 DEF SendState
  <2> QED
    BY <2>1 DEF PackMsg, TypeOK
<1>5. inq' \in [Sock -> Seq(Datagram)]
  <2>1. FlushPackets(s, snd[s], ok) \in Seq(Datagram)
    BY <1>0, FlushPacketsType, DataPacketType
  <2>2. Multicast(inq, FlushPackets(s, snd[s], ok)) \in [Sock -> Seq(Datagram)]
    BY <2>1, MulticastType DEF TypeOK
  <2> QED
    BY <2>2 DEF PackMsg, TypeOK
<1>6. left' \in [Sock -> SUBSET Nat]
  BY <1>0, FlushSeqsType DEF PackMsg, TypeOK
<1>7. accepted' \in [Sock -> Seq(Message)]
  <2>1. [svc |-> svc, dlen |-> dlen] \in Message
    BY DEF Message
  <2>2. Append(accepted[s], [svc |-> svc, dlen |-> dlen]) \in Seq(Message)
    BY <2>1, AppendProperties DEF TypeOK
  <2> QED
    BY <2>2 DEF PackMsg, TypeOK
<1> QED
  BY <1>4, <1>5, <1>6, <1>7 DEF PackMsg, TypeOK

\* The initial state is within the types.
LEMMA InitType == Init => TypeOK
<1> SUFFICES ASSUME Init PROVE TypeOK
  OBVIOUS
<1>1. 0 \in Svc /\ 0 \in 0 .. Cap /\ 0 \in 0 .. PnoMod - 1 /\ 0 \in Nat
  BY DEF Svc
<1>2. snd \in [Sock -> SendState]
  BY <1>1, BlankType DEF Init, SendState
<1>3. rcv \in [Sock -> RecvState]
  BY <1>1, BlankType DEF Init, RecvState
<1> QED
  BY <1>1, <1>2, <1>3 DEF Init, TypeOK

\* Reading a datagram off the queue within the types.
LEMMA DequeueType ==
  ASSUME NEW S, inq \in [Sock -> Seq(S)], NEW t \in Sock, inq[t] # <<>>
  PROVE  /\ Head(inq[t]) \in S
         /\ [inq EXCEPT ![t] = Tail(@)] \in [Sock -> Seq(S)]
<1>1. inq[t] \in Seq(S)
  OBVIOUS
<1>2. Head(inq[t]) \in S /\ Tail(inq[t]) \in Seq(S)
  BY <1>1, HeadTailProperties
<1> QED
  BY <1>2

\* A PING packet more or less to count.
LEMMA PingsInType == ASSUME NEW d PROVE PingsIn(d) \in Nat
BY DEF PingsIn

\* ud_chck_msg() within the types.
LEMMA ChckMsgType ==
  ASSUME TypeOK, NEW t \in Sock, ChckMsg(t)
  PROVE  TypeOK'
<1>0. rcv[t] \in RecvState
  BY DEF TypeOK
<1>1. ASSUME NEW fok \in SendtoOK, NEW cok \in SendtoOK, ChckNext(t, fok, cok)
      PROVE  TypeOK'
  <2>1. /\ rcv[t].nck < rcv[t].nrd
        /\ Parse(t, rcv[t], inq, fok, cok)
        /\ UNCHANGED <<accepted, pinged, pings, env>>
    BY <1>1 DEF ChckNext
  <2>2. /\ snd' \in [Sock -> SendState] /\ left' \in [Sock -> SUBSET Nat]
        /\ inq' \in [Sock -> Seq(Datagram)] /\ ponged' \in [Sock -> Nat]
        /\ rcv' \in [Sock -> RecvState] /\ delivered' \in [Sock -> Seq(Handed)]
    <3>1. inq \in [Sock -> Seq(Datagram)] /\ fok \in BOOLEAN /\ cok \in BOOLEAN
      BY SendtoType DEF TypeOK
    <3> QED
      BY <1>0, <2>1, <3>1, ParseType, SMTT(30)
  <2> QED
    BY <2>1, <2>2 DEF TypeOK
<1>2. ASSUME NEW fok \in SendtoOK, NEW cok \in SendtoOK, ChckFresh(t, fok, cok)
      PROVE  TypeOK'
  <2> DEFINE d == Head(inq[t])
             r == Load(rcv[t], d)
             queues == [inq EXCEPT ![t] = Tail(@)]
  <2>1. inq[t] # <<>> /\ UNCHANGED <<accepted, pings, env>>
        /\ pinged' = [pinged EXCEPT ![t] = @ + PingsIn(d)]
    BY <1>2 DEF ChckFresh
  <2>2. d \in Datagram /\ queues \in [Sock -> Seq(Datagram)]
    BY <2>1, DequeueType DEF TypeOK
  <2>3. r \in RecvState
    BY <1>0, <2>2, LoadType
  <2>4. pinged' \in [Sock -> Nat]
    BY <2>1, PingsInType DEF TypeOK
  <2>5. /\ snd' \in [Sock -> SendState] /\ left' \in [Sock -> SUBSET Nat]
        /\ inq' \in [Sock -> Seq(Datagram)] /\ ponged' \in [Sock -> Nat]
        /\ rcv' \in [Sock -> RecvState] /\ delivered' \in [Sock -> Seq(Handed)]
    <3>1. CASE r.nck < r.nrd /\ Parse(t, r, queues, fok, cok)
      <4>1. fok \in BOOLEAN /\ cok \in BOOLEAN
        BY SendtoType
      <4> HIDE DEF r, queues
      <4> QED
        BY <2>2, <2>3, <3>1, <4>1, ParseType, SMTT(30)
    <3>2. CASE /\ rcv' = [rcv EXCEPT ![t] = r] /\ inq' = queues
               /\ UNCHANGED <<snd, left, delivered, ponged>>
      <4> HIDE DEF r, queues
      <4> QED
        BY <2>2, <2>3, <3>2 DEF TypeOK
    <3> QED
      BY <1>2, <3>1, <3>2 DEF ChckFresh
  <2> QED
    BY <2>1, <2>4, <2>5 DEF TypeOK
<1>3. CASE ChckEnd(t)
  BY <1>0, <1>3, DroppedType DEF ChckEnd, TypeOK
<1> QED
  BY <1>1, <1>2, <1>3 DEF ChckMsg

\* ud_dscrd() within the types.
LEMMA DscrdType ==
  ASSUME TypeOK, NEW t \in Sock, Dscrd(t)
  PROVE  TypeOK'
<1>0. rcv[t] \in RecvState
  BY DEF TypeOK
<1>1. CASE /\ inq[t] # <<>>
           /\ rcv' = [rcv EXCEPT ![t] = Load(@, Head(inq[t]))]
           /\ inq' = [inq EXCEPT ![t] = Tail(@)]
           /\ pinged' = [pinged EXCEPT ![t] = @ + PingsIn(Head(inq[t]))]
  <2>1. Head(inq[t]) \in Datagram /\ inq' \in [Sock -> Seq(Datagram)]
    BY <1>1, DequeueType DEF TypeOK
  <2>2. rcv' \in [Sock -> RecvState]
    BY <1>0, <1>1, <2>1, LoadType DEF TypeOK
  <2>3. pinged' \in [Sock -> Nat]
    BY <1>1, PingsInType DEF TypeOK
  <2> QED
    BY <2>1, <2>2, <2>3 DEF Dscrd, TypeOK
<1>2. CASE /\ rcv' = [rcv EXCEPT ![t] = Dropped(@)]
           /\ UNCHANGED <<inq, pinged>>
  BY <1>0, <1>2, DroppedType DEF Dscrd, TypeOK
<1> QED
  BY <1>1, <1>2 DEF Dscrd

\* Every step stays within the types.
LEMMA NextType == TypeOK /\ [Next]_vars => TypeOK'
<1> SUFFICES ASSUME TypeOK, [Next]_vars PROVE TypeOK'
  OBVIOUS
<1>1. ASSUME NEW s \in Pubs, NEW svc \in Svcs, NEW dlen \in DLens,
             NEW ok \in SendtoOK, PackMsg(s, svc, dlen, ok)
      PROVE  TypeOK'
  BY <1>1, PackMsgType, SendtoType
<1>2. ASSUME NEW s \in Pubs, NEW ok \in SendtoOK, Flush(s, ok)
      PROVE  TypeOK'
  <2>1. snd[s] \in SendState /\ ok \in BOOLEAN
    BY SendtoType DEF TypeOK
  <2>2. FlushPackets(s, snd[s], ok) \in Seq(Datagram)
    BY <2>1, FlushPacketsType, DataPacketType
  <2>3. inq' \in [Sock -> Seq(Datagram)]
    BY <1>2, <2>2, MulticastType DEF Flush, TypeOK
  <2> QED
    BY <1>2, <2>1, <2>3, FlushStateType, FlushSeqsType DEF Flush, TypeOK
<1>3. ASSUME NEW s \in Pingers, NEW fok \in SendtoOK, NEW cok \in SendtoOK,
             SendPing(s, fok, cok)
      PROVE  TypeOK'
  <2>1. fok \in BOOLEAN /\ cok \in BOOLEAN
    BY SendtoType
  <2>2. /\ PackPing(s, PING, inq, fok, cok)
        /\ pings' = [pings EXCEPT ![s] = @ + 1]
        /\ UNCHANGED <<rcv, accepted, delivered, pinged, ponged, env>>
    BY <1>3 DEF SendPing
  <2>3. /\ snd' \in [Sock -> SendState] /\ left' \in [Sock -> SUBSET Nat]
        /\ inq' \in [Sock -> Seq(Datagram)]
    <3>1. /\ snd \in [Sock -> SendState] /\ left \in [Sock -> SUBSET Nat]
          /\ inq \in [Sock -> Seq(Datagram)]
      BY DEF TypeOK
    <3> QED
      BY <2>1, <2>2, <3>1, PackPingType
  <2>4. pings' \in [Sock -> Nat]
    BY <2>2 DEF TypeOK
  <2> QED
    BY <2>2, <2>3, <2>4 DEF TypeOK
<1>4. ASSUME NEW t \in Subs, ChckMsg(t) PROVE TypeOK'
  BY <1>4, ChckMsgType
<1>5. ASSUME NEW t \in Subs, Dscrd(t) PROVE TypeOK'
  BY <1>5, DscrdType
<1>6. ASSUME NEW t \in Subs, Network(t) PROVE TypeOK'
  <2>1. inq' \in [Sock -> Seq(Datagram)]
    BY <1>6, NetworkType, ForeignType DEF TypeOK
  <2>2. /\ env' = env + 1
        /\ UNCHANGED <<snd, rcv, accepted, left, delivered, pinged, ponged, pings>>
    BY <1>6 DEF Network, Lose, Duplicate, Reorder, ForeignSend, Misbehave
  <2> QED
    BY <2>1, <2>2 DEF TypeOK
<1>7. CASE UNCHANGED vars
  BY <1>7 DEF vars, TypeOK
<1> QED
  BY <1>1, <1>2, <1>3, <1>4, <1>5, <1>6, <1>7 DEF Next, Publish

\* The library keeps to its types: in particular neither buffer overflows,
\* whatever is packed and whatever comes in.
THEOREM TypeCorrect == Spec => []TypeOK
<1> QED
  BY InitType, NextType, PTL DEF Spec

-----------------------------------------------------------------------------
(* What a step does to one socket's send buffer *)

\* A flush that does not fail takes every message in the buffer, one that
\* fails takes none.
LEMMA FlushCases ==
  ASSUME NEW q \in SendState, NEW ok \in BOOLEAN
  PROVE  /\ FlushFails(q, ok) => FlushState(q, ok) = q /\ FlushSeqs(q, ok) = {}
         /\ ~ FlushFails(q, ok) => /\ FlushState(q, ok).npk = 0
                                   /\ FlushState(q, ok).svc = 0
                                   /\ FlushSeqs(q, ok) = Packs(q)
<1>1. CASE FlushFails(q, ok)
  BY <1>1, FlushStateType DEF FlushSeqs, FlushFails
<1>2. CASE ~ FlushFails(q, ok)
  <2>1. FlushState(q, ok).npk = 0 /\ FlushState(q, ok).svc = 0
    BY <1>2, FlushStateType
  <2>2. CASE ok
    BY <1>2, <2>1, <2>2 DEF FlushSeqs
  <2>3. CASE q.npk = 0
    <3>1. Packs(q) = {}
      BY <2>3 DEF Packs, Offs
    <3> QED
      BY <1>2, <2>1, <3>1 DEF FlushSeqs
  <2> QED
    BY <1>2, <2>2, <2>3 DEF FlushFails, SendState
<1> QED
  BY <1>1, <1>2

\* The three things a call can do to the send buffer of a socket: nothing,
\* empty it, or add a pack (to an emptied or to the same buffer).
Untouched(s) ==
  /\ snd'[s].npk = snd[s].npk /\ snd'[s].svc = snd[s].svc
  /\ snd'[s].buf = snd[s].buf
  /\ left'[s] = left[s]
  /\ accepted'[s] = accepted[s]

Emptied(s) ==
  /\ snd'[s].npk = 0 /\ snd'[s].svc = 0
  /\ left'[s] = left[s] \cup Packs(snd[s])
  /\ accepted'[s] = accepted[s]

Packed(s, svc, dlen) ==
  LET z == WireLen(dlen)
      c == DataCell(z, s, Len(accepted[s]) + 1)
  IN  \E f \in SendState :
        /\ \/ /\ f = snd[s] /\ SameSvc(f, svc)
              /\ left'[s] = left[s]
           \/ /\ f.npk = 0
              /\ left'[s] = left[s] \cup Packs(snd[s])
        /\ f.npk + PackSize(z) <= Cap
        /\ snd'[s].npk = f.npk + PackSize(z)
        /\ snd'[s].svc = svc
        /\ snd'[s].buf = PutPack(f.buf, f.npk, c)
        /\ accepted'[s] = Append(accepted[s], [svc |-> svc, dlen |-> dlen])

\* ud_pack_ping() empties the buffer or leaves it.
LEMMA PackPingSnd ==
  ASSUME TypeOK, NEW u \in Sock, NEW cmd, NEW queues,
         NEW fok \in BOOLEAN, NEW cok \in BOOLEAN,
         PackPing(u, cmd, queues, fok, cok), UNCHANGED accepted, NEW s \in Sock
  PROVE  Untouched(s) \/ Emptied(s)
<1>0. snd[s] \in SendState
  BY DEF TypeOK
<1>1. CASE u # s
  BY <1>1 DEF PackPing, Untouched, TypeOK
<1>2. CASE u = s
  <2> DEFINE p == PingState(snd[s], fok, cok)
  <2>1. snd'[s] = p /\ left'[s] = left[s] \cup FlushSeqs(snd[s], fok)
    BY <1>2 DEF PackPing, TypeOK
  <2>2. /\ p.npk = FlushState(snd[s], fok).npk
        /\ p.svc = FlushState(snd[s], fok).svc /\ p.buf = snd[s].buf
    BY <1>0, PingStateType
  <2> HIDE DEF p
  <2> QED
    BY <1>0, <2>1, <2>2, FlushCases DEF Untouched, Emptied
<1> QED
  BY <1>1, <1>2

\* ud_pack_msg() adds a pack.
LEMMA PackMsgSnd ==
  ASSUME TypeOK, NEW u \in Sock, NEW svc \in Svcs, NEW dlen \in DLens,
         NEW ok \in BOOLEAN, PackMsg(u, svc, dlen, ok), NEW s \in Sock
  PROVE  IF s = u THEN Packed(s, svc, dlen) ELSE Untouched(s)
<1>0. snd[s] \in SendState /\ dlen \in Nat
  BY DEF TypeOK
<1>1. CASE u # s
  BY <1>1 DEF PackMsg, Untouched, TypeOK
<1>2. CASE u = s
  <2> DEFINE z == WireLen(dlen)
             flush == ~ Fits(snd[s], z) \/ ~ SameSvc(snd[s], svc)
             f == IF flush THEN FlushState(snd[s], ok) ELSE snd[s]
             c == DataCell(z, s, Len(accepted[s]) + 1)
  <2>1. f \in SendState /\ f.npk + PackSize(z) \in 0 .. Cap
    <3>1. z \in Byte
      BY <1>0, WireLenType
    <3>2. flush => ~ FlushFails(snd[s], ok)
      BY <1>2 DEF PackMsg
    <3> HIDE DEF z
    <3> QED
      BY <1>0, <3>1, <3>2, PackFits
  <2>2. /\ snd'[s] = [npk |-> f.npk + PackSize(z), svc |-> svc, pno |-> f.pno,
                      buf |-> PutPack(f.buf, f.npk, c)]
        /\ accepted'[s] = Append(accepted[s], [svc |-> svc, dlen |-> dlen])
        /\ left'[s] = IF flush THEN left[s] \cup FlushSeqs(snd[s], ok) ELSE left[s]
        /\ ~ (flush /\ FlushFails(snd[s], ok))
    BY <1>2 DEF PackMsg, TypeOK
  <2>3. \/ f = snd[s] /\ SameSvc(f, svc) /\ left'[s] = left[s]
        \/ f.npk = 0 /\ left'[s] = left[s] \cup Packs(snd[s])
    <3>1. CASE flush
      BY <1>0, <2>2, <3>1, FlushCases
    <3>2. CASE ~ flush
      BY <2>2, <3>2
    <3> QED
      BY <3>1, <3>2
  <2> HIDE DEF f, z, c
  <2>4. /\ snd'[s].npk = f.npk + PackSize(z) /\ snd'[s].svc = svc
        /\ snd'[s].buf = PutPack(f.buf, f.npk, c)
        /\ f.npk + PackSize(z) <= Cap
    BY <2>1, <2>2
  <2> QED
    BY <1>2, <2>1, <2>2, <2>3, <2>4 DEF Packed, z, c
<1> QED
  BY <1>1, <1>2

\* Flushing empties the buffer or leaves it.
LEMMA FlushSnd ==
  ASSUME TypeOK, NEW u \in Sock, NEW ok \in BOOLEAN, Flush(u, ok), NEW s \in Sock
  PROVE  Untouched(s) \/ Emptied(s)
<1>0. snd[s] \in SendState
  BY DEF TypeOK
<1>1. CASE u # s
  BY <1>1 DEF Flush, Untouched, TypeOK
<1>2. CASE u = s
  <2> DEFINE f == FlushState(snd[s], ok)
  <2>1. /\ snd'[s] = f /\ left'[s] = left[s] \cup FlushSeqs(snd[s], ok)
        /\ accepted' = accepted
    BY <1>2 DEF Flush, TypeOK
  <2>2. /\ FlushFails(snd[s], ok) => f = snd[s] /\ FlushSeqs(snd[s], ok) = {}
        /\ ~ FlushFails(snd[s], ok) =>
             f.npk = 0 /\ f.svc = 0 /\ FlushSeqs(snd[s], ok) = Packs(snd[s])
    BY <1>0, FlushCases
  <2> HIDE DEF f
  <2> QED
    BY <2>1, <2>2 DEF Untouched, Emptied
<1> QED
  BY <1>1, <1>2

\* Looking at a pack, which may answer a PING, empties the buffer or leaves it.
LEMMA ParseSnd ==
  ASSUME TypeOK, NEW t \in Sock, NEW r, NEW queues,
         NEW fok \in BOOLEAN, NEW cok \in BOOLEAN,
         Parse(t, r, queues, fok, cok), UNCHANGED accepted, NEW s \in Sock
  PROVE  Untouched(s) \/ Emptied(s)
<1>1. CASE PackPing(t, PONG, queues, fok, cok)
  BY <1>1, PackPingSnd
<1>2. CASE UNCHANGED <<snd, left>>
  BY <1>2 DEF Untouched
<1> QED
  BY <1>1, <1>2 DEF Parse

\* No step does anything else to the buffer.
LEMMA NextSnd ==
  ASSUME TypeOK, [Next]_vars, NEW s \in Sock
  PROVE  \/ Untouched(s)
         \/ Emptied(s)
         \/ \E svc \in Svcs, dlen \in DLens : Packed(s, svc, dlen)
<1>1. ASSUME NEW u \in Pubs, NEW svc \in Svcs, NEW dlen \in DLens,
             NEW ok \in SendtoOK, PackMsg(u, svc, dlen, ok)
      PROVE  Untouched(s) \/ Packed(s, svc, dlen)
  BY <1>1, PackMsgSnd, SendtoType
<1>2. ASSUME NEW u \in Pubs, NEW ok \in SendtoOK, Flush(u, ok)
      PROVE  Untouched(s) \/ Emptied(s)
  BY <1>2, FlushSnd, SendtoType
<1>3. ASSUME NEW u \in Pingers, NEW fok \in SendtoOK, NEW cok \in SendtoOK,
             SendPing(u, fok, cok)
      PROVE  Untouched(s) \/ Emptied(s)
  <2>1. PackPing(u, PING, inq, fok, cok) /\ UNCHANGED accepted
    BY <1>3 DEF SendPing
  <2> QED
    BY <2>1, PackPingSnd, SendtoType
<1>4. ASSUME NEW t \in Subs, ChckMsg(t)
      PROVE  Untouched(s) \/ Emptied(s)
  <2>1. ASSUME NEW fok \in SendtoOK, NEW cok \in SendtoOK, ChckNext(t, fok, cok)
        PROVE  Untouched(s) \/ Emptied(s)
    BY <2>1, ParseSnd, SendtoType DEF ChckNext
  <2>2. ASSUME NEW fok \in SendtoOK, NEW cok \in SendtoOK, ChckFresh(t, fok, cok)
        PROVE  Untouched(s) \/ Emptied(s)
    <3> DEFINE r == Load(rcv[t], Head(inq[t]))
               queues == [inq EXCEPT ![t] = Tail(@)]
    <3>1. UNCHANGED accepted
      BY <2>2 DEF ChckFresh
    <3>2. CASE Parse(t, r, queues, fok, cok)
      <4> HIDE DEF r, queues
      <4> QED
        BY <3>1, <3>2, ParseSnd, SendtoType
    <3>3. CASE UNCHANGED <<snd, left>>
      BY <3>1, <3>3 DEF Untouched
    <3> QED
      BY <2>2, <3>2, <3>3 DEF ChckFresh
  <2>3. CASE ChckEnd(t)
    BY <2>3 DEF ChckEnd, Untouched
  <2> QED
    BY <1>4, <2>1, <2>2, <2>3 DEF ChckMsg
<1>5. ASSUME NEW t \in Subs, Dscrd(t) \/ Network(t)
      PROVE  Untouched(s)
  BY <1>5 DEF Dscrd, Network, Lose, Duplicate, Reorder, ForeignSend, Misbehave,
              Untouched
<1>6. CASE UNCHANGED vars
  BY <1>6 DEF vars, Untouched
<1> QED
  BY <1>1, <1>2, <1>3, <1>4, <1>5, <1>6 DEF Next, Publish

-----------------------------------------------------------------------------
(* What a step puts into the queues: if what the sockets have to send, and *)
(* what others may, are datagrams of a kind S, then the queues hold        *)
(* datagrams of that kind and nothing else.                                *)

Carries(S) ==
  /\ inq \in [Sock -> Seq(S)]
  /\ \A s \in Sock : snd[s].npk > 0 => DataPacket(s, snd[s]) \in S
  /\ \A s \in Sock, q \in SendState, cmd \in {PING, PONG} : CtrlPacket(s, q, cmd) \in S
  /\ "foreign" \in Faults => ForeignPackets \subseteq S

\* A PING and a PONG, and the flush before them.
LEMMA PackPingQueues ==
  ASSUME TypeOK, NEW S, Carries(S), NEW u \in Sock, NEW cmd \in {PING, PONG},
         NEW queues \in [Sock -> Seq(S)], NEW fok \in BOOLEAN, NEW cok \in BOOLEAN,
         PackPing(u, cmd, queues, fok, cok)
  PROVE  inq' \in [Sock -> Seq(S)]
<1>1. /\ snd[u] \in SendState
      /\ snd[u].npk > 0 => DataPacket(u, snd[u]) \in S
      /\ \A f \in SendState : CtrlPacket(u, f, cmd) \in S
  BY DEF TypeOK, Carries
<1>2. PingPackets(u, snd[u], cmd, fok, cok) \in Seq(S)
  BY <1>1, PingPacketsType
<1>3. Multicast(queues, PingPackets(u, snd[u], cmd, fok, cok)) \in [Sock -> Seq(S)]
  BY <1>2, MulticastType
<1> QED
  BY <1>3 DEF PackPing

\* Looking at a pack.
LEMMA ParseQueues ==
  ASSUME TypeOK, NEW S, Carries(S), NEW t \in Sock, NEW r,
         NEW queues \in [Sock -> Seq(S)], NEW fok \in BOOLEAN, NEW cok \in BOOLEAN,
         Parse(t, r, queues, fok, cok)
  PROVE  inq' \in [Sock -> Seq(S)]
<1>1. CASE PackPing(t, PONG, queues, fok, cok)
  BY <1>1, PackPingQueues
<1>2. CASE inq' = queues
  BY <1>2
<1> QED
  BY <1>1, <1>2 DEF Parse

\* Every step.
LEMMA NextQueues ==
  ASSUME TypeOK, NEW S, Carries(S), [Next]_vars
  PROVE  inq' \in [Sock -> Seq(S)]
<1>0. inq \in [Sock -> Seq(S)]
  BY DEF Carries
<1>1. ASSUME NEW s \in Sock, NEW ok \in BOOLEAN
      PROVE  Multicast(inq, FlushPackets(s, snd[s], ok)) \in [Sock -> Seq(S)]
  <2>1. snd[s] \in SendState /\ (snd[s].npk > 0 => DataPacket(s, snd[s]) \in S)
    BY DEF TypeOK, Carries
  <2>2. FlushPackets(s, snd[s], ok) \in Seq(S)
    BY <2>1, FlushPacketsType
  <2> QED
    BY <1>0, <2>2, MulticastType
<1>2. ASSUME NEW s \in Pubs, Publish(s) PROVE inq' \in [Sock -> Seq(S)]
  <2>1. \A ok \in SendtoOK :
          Multicast(inq, FlushPackets(s, snd[s], ok)) \in [Sock -> Seq(S)]
    BY <1>1, SendtoType
  <2>2. ASSUME NEW svc \in Svcs, NEW dlen \in DLens, NEW ok \in SendtoOK,
               PackMsg(s, svc, dlen, ok)
        PROVE  inq' \in [Sock -> Seq(S)]
    <3>1. \/ inq' = Multicast(inq, FlushPackets(s, snd[s], ok))
          \/ inq' = inq
      BY <2>2 DEF PackMsg
    <3> QED
      BY <1>0, <2>1, <3>1
  <2>3. ASSUME NEW ok \in SendtoOK, Flush(s, ok)
        PROVE  inq' \in [Sock -> Seq(S)]
    BY <2>1, <2>3 DEF Flush
  <2> QED
    BY <1>2, <2>2, <2>3 DEF Publish
<1>3. ASSUME NEW s \in Pingers, NEW fok \in SendtoOK, NEW cok \in SendtoOK,
             SendPing(s, fok, cok)
      PROVE  inq' \in [Sock -> Seq(S)]
  BY <1>0, <1>3, SendtoType, PackPingQueues DEF SendPing
<1>4. ASSUME NEW t \in Subs, ChckMsg(t) PROVE inq' \in [Sock -> Seq(S)]
  <2>1. ASSUME NEW fok \in SendtoOK, NEW cok \in SendtoOK, ChckNext(t, fok, cok)
        PROVE  inq' \in [Sock -> Seq(S)]
    BY <1>0, <2>1, SendtoType, ParseQueues DEF ChckNext
  <2>2. ASSUME NEW fok \in SendtoOK, NEW cok \in SendtoOK, ChckFresh(t, fok, cok)
        PROVE  inq' \in [Sock -> Seq(S)]
    <3> DEFINE r == Load(rcv[t], Head(inq[t]))
               queues == [inq EXCEPT ![t] = Tail(@)]
    <3>1. queues \in [Sock -> Seq(S)]
      BY <1>0, <2>2, DequeueType DEF ChckFresh
    <3>2. Parse(t, r, queues, fok, cok) \/ inq' = queues
      BY <2>2 DEF ChckFresh
    <3> HIDE DEF r, queues
    <3> QED
      BY <3>1, <3>2, SendtoType, ParseQueues
  <2>3. CASE ChckEnd(t)
    BY <1>0, <2>3 DEF ChckEnd
  <2> QED
    BY <1>4, <2>1, <2>2, <2>3 DEF ChckMsg
<1>5. ASSUME NEW t \in Subs, Dscrd(t) PROVE inq' \in [Sock -> Seq(S)]
  <2>1. \/ inq[t] # <<>> /\ inq' = [inq EXCEPT ![t] = Tail(@)]
        \/ inq' = inq
    BY <1>5 DEF Dscrd
  <2>2. inq[t] # <<>> => [inq EXCEPT ![t] = Tail(@)] \in [Sock -> Seq(S)]
    BY <1>0, DequeueType
  <2> QED
    BY <1>0, <2>1, <2>2
<1>6. ASSUME NEW t \in Subs, Network(t) PROVE inq' \in [Sock -> Seq(S)]
  BY <1>0, <1>6, NetworkType DEF Carries
<1>7. CASE UNCHANGED vars
  BY <1>0, <1>7 DEF vars
<1> QED
  BY <1>2, <1>3, <1>4, <1>5, <1>6, <1>7 DEF Next

-----------------------------------------------------------------------------
(* What a step does to one socket's receive state: it may read the next    *)
(* datagram, and it may then forget the packet or hand out one pack.       *)

Read(t, r) ==
  \/ r = rcv[t]
  \/ rcv[t].nrd = 0 /\ inq[t] # <<>> /\ r = Load(rcv[t], Head(inq[t]))

HandsOut(t, r) ==
  LET c == r.buf[r.nck]
  IN  /\ r.nck < r.nrd /\ c.tag = "data"
      /\ rcv'[t] = [r EXCEPT !.nck = @ + PackSize(c.len)]
      /\ delivered'[t] = Append(delivered[t],
           [src |-> r.src, seq |-> c.seq, svc |-> r.cmd, len |-> c.len,
            pno |-> r.pno, nr |-> r.nr])

\* A packet is forgotten when it is read to its end or is not ours, or by
\* ud_dscrd().
Over(r) == "dscrd" \in Calls \/ r.nck >= r.nrd \/ r.buf[r.nck].tag # "data"

LeavesOff(t, r) ==
  /\ rcv'[t] = r \/ (rcv'[t] = Dropped(r) /\ Over(r))
  /\ delivered'[t] = delivered[t]

\* Looking at a pack hands it out or leaves the packet off.
LEMMA ParseRcv ==
  ASSUME TypeOK, NEW t \in Sock, NEW r, r.nck < r.nrd, NEW queues,
         NEW fok, NEW cok, Parse(t, r, queues, fok, cok)
  PROVE  HandsOut(t, r) \/ LeavesOff(t, r)
<1>1. CASE r.buf[r.nck].tag # "data"
  BY <1>1 DEF Parse, LeavesOff, Over, TypeOK
<1>2. CASE r.buf[r.nck].tag = "data"
  BY <1>2 DEF Parse, HandsOut, Aux, TypeOK
<1> QED
  BY <1>1, <1>2

\* It concerns nobody else's packets.
LEMMA ParseRcvOther ==
  ASSUME TypeOK, NEW u \in Sock, NEW r, NEW queues, NEW fok, NEW cok,
         Parse(u, r, queues, fok, cok), NEW t \in Sock, t # u
  PROVE  rcv'[t] = rcv[t] /\ delivered'[t] = delivered[t]
BY DEF Parse, TypeOK

-----------------------------------------------------------------------------
(* What a step does as a whole: one socket u sends the packets ds, and a   *)
(* socket t reads off its queue, which then is a queue base, hands out a   *)
(* pack or not, and gets what was sent.                                    *)

\* The control packets that u can send with number n
Ctrls(u, n) ==
  {CtrlPacket(u, f, cmd) : f \in {g \in SendState : g.pno = n}, cmd \in {PING, PONG}}

Sends(u, ds) ==
  LET q == snd[u]
      n == snd[u].pno
  IN  /\ \A s \in Sock \ {u} : snd'[s] = snd[s] /\ left'[s] = left[s]
      /\ \/ /\ ds = <<>>
            /\ snd'[u].pno = n /\ left'[u] = left[u]
         \/ /\ ds = <<DataPacket(u, q)>> /\ q.npk > 0
            /\ snd'[u].pno = n + 1 /\ left'[u] = left[u] \cup Packs(q)
         \/ \E d \in Ctrls(u, n) :
              /\ ds = <<d>>
              /\ snd'[u].pno = n + 1 /\ left'[u] = left[u]
         \/ \E d \in Ctrls(u, n + 1) :
              /\ ds = <<DataPacket(u, q), d>> /\ q.npk > 0
              /\ snd'[u].pno = n + 2 /\ left'[u] = left[u] \cup Packs(q)

Takes(t, r, base) ==
  \/ r = rcv[t] /\ base = inq[t]
  \/ /\ rcv[t].nrd = 0 /\ inq[t] # <<>>
     /\ r = Load(rcv[t], Head(inq[t])) /\ base = Tail(inq[t])

\* The network may take a datagram away, or add one of somebody else.
Gets(t, base, ds) ==
  \/ inq'[t] = base
  \/ inq'[t] = Enqueue(base, ds)
  \/ \E i \in 1 .. Len(base) :
       inq'[t] = SubSeq(base, 1, i - 1) \o SubSeq(base, i + 1, Len(base))
  \/ \E d \in ForeignPackets : inq'[t] = Enqueue(base, <<d>>)
  \/ "dup" \in Faults /\ \E i \in 1 .. Len(base) : inq'[t] = Enqueue(base, <<base[i]>>)
  \/ "reorder" \in Faults /\ Len(inq'[t]) = Len(base)

Moves(t) ==
  \E u \in Sock, ds \in Seq(Datagram), r \in RecvState, base \in Seq(Datagram) :
    /\ Sends(u, ds)
    /\ Takes(t, r, base)
    /\ Gets(t, base, ds)
    /\ HandsOut(t, r) \/ LeavesOff(t, r)

\* A flush sends the buffer or nothing.
LEMMA FlushSends ==
  ASSUME NEW u, NEW q \in SendState, NEW ok \in BOOLEAN
  PROVE  IF q.npk > 0 /\ ok
         THEN /\ FlushPackets(u, q, ok) = <<DataPacket(u, q)>>
              /\ FlushState(q, ok).pno = q.pno + 1
              /\ FlushSeqs(q, ok) = Packs(q)
         ELSE /\ FlushPackets(u, q, ok) = <<>>
              /\ FlushState(q, ok).pno = q.pno
              /\ FlushSeqs(q, ok) = {}
<1>1. CASE q.npk > 0 /\ ok
  <2>1. Advance(q) \in SendState /\ Advance(q).pno = q.pno + 1
    BY AdvanceType DEF Advance, SendState
  <2>2. FlushState(q, ok) = [Advance(q) EXCEPT !.npk = 0, !.svc = 0]
    BY <1>1 DEF FlushState, FlushFails
  <2>3. FlushState(q, ok).pno = q.pno + 1
    BY <2>1, <2>2 DEF SendState
  <2> QED
    BY <1>1, <2>3 DEF FlushPackets, FlushSeqs
<1>2. CASE q.npk > 0 /\ ~ ok
  BY <1>2 DEF FlushPackets, FlushState, FlushFails, FlushSeqs
<1>3. CASE ~ (q.npk > 0)
  <2>1. q.npk = 0
    BY <1>3 DEF SendState
  <2>2. Packs(q) = {}
    BY <2>1 DEF Packs, Offs
  <2> QED
    BY <1>3, <2>2 DEF FlushPackets, FlushState, FlushFails, FlushSeqs, SendState
<1> QED
  BY <1>1, <1>2, <1>3

\* Two packets, one behind the other.
LEMMA PairConcat == ASSUME NEW x, NEW y PROVE <<x>> \o <<y>> = <<x, y>>
<1> DEFINE S == {x, y}
           a == <<x>>
           b == <<y>>
           d == <<x, y>>
<1>1. a \in Seq(S) /\ b \in Seq(S) /\ d \in Seq(S)
  OBVIOUS
<1>2. /\ Len(a) = 1 /\ Len(b) = 1 /\ Len(d) = 2
      /\ a[1] = x /\ b[1] = y /\ d[1] = x /\ d[2] = y
  OBVIOUS
<1> HIDE DEF a, b, d
<1>3. /\ a \o b \in Seq(S) /\ Len(a \o b) = 2
      /\ (a \o b)[1] = x /\ (a \o b)[2] = y
  <2>1. /\ a \o b \in Seq(S) /\ Len(a \o b) = Len(a) + Len(b)
        /\ \A i \in 1 .. Len(a) + Len(b) :
             (a \o b)[i] = IF i <= Len(a) THEN a[i] ELSE b[i - Len(a)]
    BY <1>1, ConcatProperties
  <2>2. /\ 1 \in 1 .. Len(a) + Len(b) /\ 2 \in 1 .. Len(a) + Len(b)
        /\ 1 <= Len(a) /\ ~ (2 <= Len(a)) /\ 2 - Len(a) = 1 /\ Len(a) + Len(b) = 2
    BY <1>2
  <2> QED
    BY <1>2, <2>1, <2>2
<1>4. \A i \in 1 .. 2 : i = 1 \/ i = 2
  OBVIOUS
<1>6. \A i \in 1 .. Len(a \o b) : (a \o b)[i] = d[i]
  BY <1>2, <1>3, <1>4
<1>5. a \o b = d
  BY <1>1, <1>2, <1>3, <1>6, SeqEqual
<1> QED
  BY <1>5 DEF a, b, d

\* A PING or a PONG is sent behind the buffer, or instead of it.
LEMMA PingSends ==
  ASSUME TypeOK, NEW u \in Sock, NEW cmd \in {PING, PONG}, NEW queues,
         NEW fok \in BOOLEAN, NEW cok \in BOOLEAN,
         PackPing(u, cmd, queues, fok, cok)
  PROVE  Sends(u, PingPackets(u, snd[u], cmd, fok, cok))
<1> DEFINE q == snd[u]
           f == FlushState(q, fok)
           d == CtrlPacket(u, f, cmd)
           ds == PingPackets(u, q, cmd, fok, cok)
<1>0. q \in SendState /\ f \in SendState
  BY FlushStateType DEF TypeOK
<1>1. /\ snd'[u] = PingState(q, fok, cok) /\ left'[u] = left[u] \cup FlushSeqs(q, fok)
      /\ \A s \in Sock \ {u} : snd'[s] = snd[s] /\ left'[s] = left[s]
  BY DEF PackPing, TypeOK
<1>2. snd'[u].pno = IF cok THEN f.pno + 1 ELSE f.pno
  BY <1>0, <1>1 DEF PingState, Advance, SendState
<1>3. ds = FlushPackets(u, q, fok) \o (IF cok THEN <<d>> ELSE <<>>)
  BY DEF PingPackets
<1>4. d \in Ctrls(u, f.pno)
  BY <1>0 DEF Ctrls
<1>5. q.pno \in Nat
  BY <1>0 DEF SendState
<1> HIDE DEF d, f
<1>6. CASE q.npk > 0 /\ fok
  <2>1. /\ FlushPackets(u, q, fok) = <<DataPacket(u, q)>>
        /\ f.pno = q.pno + 1 /\ left'[u] = left[u] \cup Packs(q)
    BY <1>0, <1>1, <1>6, FlushSends DEF f
  <2>2. CASE cok
    <3>1. ds = <<DataPacket(u, q), d>>
      <4>2. ds = <<DataPacket(u, q)>> \o <<d>>
        BY <1>3, <2>1, <2>2
      <4> HIDE DEF ds
      <4> QED
        BY <4>2, PairConcat
    <3>2. snd'[u].pno = q.pno + 2
      BY <1>2, <1>5, <2>1, <2>2
    <3> QED
      BY <1>1, <1>4, <1>6, <2>1, <3>1, <3>2 DEF Sends
  <2>3. CASE ~ cok
    <3>1. ds = <<DataPacket(u, q)>>
      BY <1>3, <2>1, <2>3
    <3> QED
      BY <1>1, <1>2, <1>6, <2>1, <2>3, <3>1 DEF Sends
  <2> QED
    BY <2>2, <2>3
<1>7. CASE ~ (q.npk > 0 /\ fok)
  <2>1. /\ FlushPackets(u, q, fok) = <<>>
        /\ f.pno = q.pno /\ left'[u] = left[u]
    BY <1>0, <1>1, <1>7, FlushSends DEF f
  <2>2. CASE cok
    <3>1. ds = <<d>>
      BY <1>3, <2>1, <2>2
    <3> QED
      BY <1>1, <1>2, <1>4, <2>1, <2>2, <3>1 DEF Sends
  <2>3. CASE ~ cok
    <3>1. ds = <<>>
      BY <1>3, <2>1, <2>3
    <3> QED
      BY <1>1, <1>2, <2>1, <2>3, <3>1 DEF Sends
  <2> QED
    BY <2>2, <2>3
<1> QED
  BY <1>6, <1>7

\* What u sends is datagrams.
LEMMA SendsType ==
  ASSUME TypeOK, NEW u \in Sock, NEW ds, Sends(u, ds)
  PROVE  ds \in Seq(Datagram)
<1>1. DataPacket(u, snd[u]) \in Datagram
  BY DataPacketType DEF TypeOK
<1>2. \A n : Ctrls(u, n) \subseteq Datagram
  BY CtrlPacketType, CtrlSvcs DEF Ctrls
<1>3. \A d \in Datagram :
        <<d>> \in Seq(Datagram) /\ <<DataPacket(u, snd[u]), d>> \in Seq(Datagram)
  BY <1>1
<1>4. \/ ds = <<>>
      \/ ds = <<DataPacket(u, snd[u])>>
      \/ \E d \in Datagram : ds = <<d>>
      \/ \E d \in Datagram : ds = <<DataPacket(u, snd[u]), d>>
  BY <1>2 DEF Sends
<1>5. <<>> \in Seq(Datagram) /\ <<DataPacket(u, snd[u])>> \in Seq(Datagram)
  BY <1>1
<1> QED
  BY <1>3, <1>4, <1>5

\* Nothing is sent.
LEMMA SendsNothing ==
  ASSUME UNCHANGED <<snd, left>>, NEW u \in Sock
  PROVE  Sends(u, <<>>)
BY DEF Sends

\* Everybody may get what is sent.
LEMMA MulticastGets ==
  ASSUME NEW queues, NEW ds, inq' = Multicast(queues, ds), NEW t \in Sock
  PROVE  Gets(t, queues[t], ds)
BY DEF Multicast, Gets

\* Looking at a pack.
LEMMA ParseMoves ==
  ASSUME TypeOK, NEW u \in Sock, NEW r, NEW queues,
         NEW fok \in BOOLEAN, NEW cok \in BOOLEAN, Parse(u, r, queues, fok, cok)
  PROVE  \E ds \in Seq(Datagram) :
           Sends(u, ds) /\ \A t \in Sock : Gets(t, queues[t], ds)
<1>1. CASE PackPing(u, PONG, queues, fok, cok)
  <2> DEFINE ds == PingPackets(u, snd[u], PONG, fok, cok)
  <2>1. Sends(u, ds)
    BY <1>1, PingSends
  <2>2. inq' = Multicast(queues, ds)
    BY <1>1 DEF PackPing
  <2> HIDE DEF ds
  <2> QED
    BY <2>1, <2>2, SendsType, MulticastGets
<1>2. CASE inq' = queues /\ UNCHANGED <<snd, left>>
  BY <1>2, SendsNothing, SendsType DEF Gets
<1> QED
  BY <1>1, <1>2 DEF Parse

\* A step that leaves what t reads alone.
LEMMA IdleMoves ==
  ASSUME TypeOK, NEW t \in Sock, rcv'[t] = rcv[t], delivered'[t] = delivered[t],
         NEW u \in Sock, NEW ds, Sends(u, ds), Gets(t, inq[t], ds)
  PROVE  Moves(t)
<1>1. ds \in Seq(Datagram)
  BY SendsType
<1>2. rcv[t] \in RecvState /\ inq[t] \in Seq(Datagram)
  BY DEF TypeOK
<1>3. Takes(t, rcv[t], inq[t]) /\ LeavesOff(t, rcv[t])
  BY DEF Takes, LeavesOff
<1> QED
  BY <1>1, <1>2, <1>3 DEF Moves

\* A datagram is there to be read.
LEMMA LoadTakes ==
  ASSUME TypeOK, NEW t \in Sock, rcv[t].nrd = 0, inq[t] # <<>>
  PROVE  /\ Load(rcv[t], Head(inq[t])) \in RecvState
         /\ Tail(inq[t]) \in Seq(Datagram)
         /\ Takes(t, Load(rcv[t], Head(inq[t])), Tail(inq[t]))
<1>1. rcv[t] \in RecvState /\ inq[t] \in Seq(Datagram)
  BY DEF TypeOK
<1>2. Head(inq[t]) \in Datagram /\ Tail(inq[t]) \in Seq(Datagram)
  BY <1>1, HeadTailProperties
<1> QED
  BY <1>1, <1>2, LoadType DEF Takes

\* ud_chck_msg()
LEMMA ChckMoves ==
  ASSUME TypeOK, NEW u \in Sock, ChckMsg(u), NEW t \in Sock
  PROVE  Moves(t)
<1>0. rcv[t] \in RecvState /\ inq[t] \in Seq(Datagram) /\ inq \in [Sock -> Seq(Datagram)]
  BY DEF TypeOK
<1>1. ASSUME NEW fok \in SendtoOK, NEW cok \in SendtoOK, ChckNext(u, fok, cok)
      PROVE  Moves(t)
  <2>1. PICK ds \in Seq(Datagram) : Sends(u, ds) /\ Gets(t, inq[t], ds)
    BY <1>1, SendtoType, ParseMoves DEF ChckNext
  <2>2. CASE u = t
    <3>1. HandsOut(t, rcv[t]) \/ LeavesOff(t, rcv[t])
      BY <1>1, <2>2, ParseRcv DEF ChckNext
    <3> QED
      BY <1>0, <2>1, <3>1 DEF Moves, Takes
  <2>3. CASE u # t
    BY <1>1, <2>1, <2>3, ParseRcvOther, IdleMoves DEF ChckNext
  <2> QED
    BY <2>2, <2>3
<1>2. ASSUME NEW fok \in SendtoOK, NEW cok \in SendtoOK, ChckFresh(u, fok, cok)
      PROVE  Moves(t)
  <2> DEFINE r == Load(rcv[u], Head(inq[u]))
             queues == [inq EXCEPT ![u] = Tail(@)]
  <2>1. \/ r.nck < r.nrd /\ Parse(u, r, queues, fok, cok)
        \/ /\ rcv' = [rcv EXCEPT ![u] = r] /\ inq' = queues
           /\ UNCHANGED <<snd, left, delivered>>
    BY <1>2 DEF ChckFresh
  <2>2. rcv[u].nrd = 0 /\ inq[u] # <<>>
    BY <1>2 DEF ChckFresh
  <2>3. queues[t] = IF t = u THEN Tail(inq[t]) ELSE inq[t]
    BY <1>0
  <2>4. /\ u = t => r \in RecvState /\ Tail(inq[t]) \in Seq(Datagram)
                    /\ Takes(t, r, Tail(inq[t]))
    BY <2>2, LoadTakes
  <2> HIDE DEF r, queues
  <2>5. PICK ds \in Seq(Datagram) : Sends(u, ds) /\ Gets(t, queues[t], ds)
    <3>1. CASE Parse(u, r, queues, fok, cok)
      BY <3>1, SendtoType, ParseMoves
    <3>2. CASE inq' = queues /\ UNCHANGED <<snd, left>>
      BY <3>2, SendsNothing, SendsType DEF Gets
    <3> QED
      BY <2>1, <3>1, <3>2
  <2>6. CASE u = t
    <3>1. HandsOut(t, r) \/ LeavesOff(t, r)
      <4>1. CASE r.nck < r.nrd /\ Parse(u, r, queues, fok, cok)
        BY <2>6, <4>1, ParseRcv
      <4>2. CASE rcv' = [rcv EXCEPT ![u] = r] /\ UNCHANGED delivered
        BY <2>6, <4>2 DEF LeavesOff, TypeOK
      <4> QED
        BY <2>1, <4>1, <4>2
    <3> QED
      BY <2>3, <2>4, <2>5, <2>6, <3>1 DEF Moves
  <2>7. CASE u # t
    <3>1. rcv'[t] = rcv[t] /\ delivered'[t] = delivered[t]
      BY <2>1, <2>7, ParseRcvOther DEF TypeOK
    <3> QED
      BY <2>3, <2>5, <2>7, <3>1, IdleMoves
  <2> QED
    BY <2>6, <2>7
<1>3. CASE ChckEnd(u)
  <2>1. UNCHANGED <<snd, left, inq, delivered>>
    BY <1>3 DEF ChckEnd
  <2>2. LeavesOff(t, rcv[t])
    BY <1>3 DEF ChckEnd, LeavesOff, Over, TypeOK
  <2> QED
    BY <1>0, <2>1, <2>2, SendsNothing, SendsType DEF Moves, Takes, Gets
<1> QED
  BY <1>1, <1>2, <1>3 DEF ChckMsg

\* ud_dscrd()
LEMMA DscrdMoves ==
  ASSUME TypeOK, NEW u \in Sock, Dscrd(u), NEW t \in Sock
  PROVE  Moves(t)
<1>0. rcv[t] \in RecvState /\ inq[t] \in Seq(Datagram)
  BY DEF TypeOK
<1>1. UNCHANGED <<snd, left, delivered>> /\ "dscrd" \in Calls
  BY DEF Dscrd
<1>2. Sends(t, <<>>) /\ <<>> \in Seq(Datagram)
  BY <1>1, SendsNothing
<1>3. CASE u # t
  <2>1. rcv'[t] = rcv[t] /\ inq'[t] = inq[t]
    BY <1>3 DEF Dscrd, TypeOK
  <2> QED
    BY <1>1, <1>2, <2>1, IdleMoves DEF Gets
<1>4. CASE u = t
  <2>1. CASE /\ rcv[t].nrd = 0 /\ inq[t] # <<>>
             /\ rcv' = [rcv EXCEPT ![t] = Load(@, Head(inq[t]))]
             /\ inq' = [inq EXCEPT ![t] = Tail(@)]
    <3>1. rcv'[t] = Load(rcv[t], Head(inq[t])) /\ inq'[t] = Tail(inq[t])
      BY <2>1 DEF TypeOK
    <3>2. LeavesOff(t, Load(rcv[t], Head(inq[t]))) /\ Gets(t, Tail(inq[t]), <<>>)
      BY <1>1, <3>1 DEF LeavesOff, Gets
    <3> QED
      BY <1>2, <2>1, <3>2, LoadTakes DEF Moves
  <2>2. CASE rcv' = [rcv EXCEPT ![t] = Dropped(@)] /\ UNCHANGED inq
    <3>1. LeavesOff(t, rcv[t]) /\ Gets(t, inq[t], <<>>)
      BY <1>1, <2>2 DEF LeavesOff, Over, Gets, TypeOK
    <3> QED
      BY <1>0, <1>2, <3>1 DEF Moves, Takes
  <2> QED
    BY <1>4, <2>1, <2>2 DEF Dscrd
<1> QED
  BY <1>3, <1>4

\* The network
LEMMA NetworkMoves ==
  ASSUME TypeOK, NEW u \in Sock, Network(u), NEW t \in Sock
  PROVE  Moves(t)
<1>1. UNCHANGED <<snd, rcv, left, delivered>>
  BY DEF Network, Lose, Duplicate, Reorder, ForeignSend, Misbehave
<1>2. Sends(t, <<>>)
  BY <1>1, SendsNothing
<1>3. inq[u] \in Seq(Datagram) /\ DOMAIN inq[u] = 1 .. Len(inq[u])
  BY LenProperties DEF TypeOK
<1>4. Gets(t, inq[t], <<>>)
  <2>1. CASE u # t
    BY <2>1 DEF Network, Lose, Duplicate, Reorder, ForeignSend, Misbehave, Gets, TypeOK
  <2>2. CASE u = t /\ Lose(u)
    <3>1. PICK i \in 1 .. Len(inq[t]) :
            inq' = [inq EXCEPT ![t] =
                      SubSeq(inq[t], 1, i - 1) \o SubSeq(inq[t], i + 1, Len(inq[t]))]
      BY <1>3, <2>2 DEF Lose, Misbehave
    <3>2. inq'[t] = SubSeq(inq[t], 1, i - 1) \o SubSeq(inq[t], i + 1, Len(inq[t]))
      BY <3>1 DEF TypeOK
    <3> QED
      BY <3>2 DEF Gets
  <2>3. CASE u = t /\ ForeignSend(u)
    BY <2>3 DEF ForeignSend, Misbehave, Gets, TypeOK
  <2>4. CASE u = t /\ Duplicate(u)
    <3>1. PICK i \in 1 .. Len(inq[t]) :
            "dup" \in Faults /\ inq' = [inq EXCEPT ![t] = Enqueue(inq[t], <<inq[t][i]>>)]
      BY <1>3, <2>4 DEF Duplicate, Misbehave
    <3>2. inq'[t] = Enqueue(inq[t], <<inq[t][i]>>)
      BY <3>1 DEF TypeOK
    <3> QED
      BY <3>1, <3>2 DEF Gets
  <2>5. CASE u = t /\ Reorder(u)
    <3>1. PICK i \in 1 .. Len(inq[t]) - 1 :
            inq' = [inq EXCEPT ![t] =
                      [inq[t] EXCEPT ![i] = inq[t][i + 1], ![i + 1] = inq[t][i]]]
      BY <2>5 DEF Reorder, Misbehave
    <3>2. inq'[t] = [inq[t] EXCEPT ![i] = inq[t][i + 1], ![i + 1] = inq[t][i]]
      BY <3>1 DEF TypeOK
    <3> DEFINE v == [inq[t] EXCEPT ![i] = inq[t][i + 1]]
    <3>3. inq[t][i] \in Datagram /\ inq[t][i + 1] \in Datagram
      BY <1>3, <2>5, LenProperties, ElementOfSeq
    <3>4. v \in Seq(Datagram) /\ Len(v) = Len(inq[t])
      BY <1>3, <2>5, <3>3, ExceptSeq
    <3> HIDE DEF v
    <3>5. Len([v EXCEPT ![i + 1] = inq[t][i]]) = Len(v)
      BY <1>3, <2>5, <3>3, <3>4, ExceptSeq
    <3>6. Len(inq'[t]) = Len(inq[t])
      BY <3>2, <3>4, <3>5 DEF v
    <3> QED
      BY <2>5, <3>6 DEF Reorder, Misbehave, Gets
  <2> QED
    BY <2>1, <2>2, <2>3, <2>4, <2>5 DEF Network
<1> QED
  BY <1>1, <1>2, <1>4, IdleMoves

\* Every step.
LEMMA NextMoves ==
  ASSUME TypeOK, [Next]_vars, NEW t \in Sock
  PROVE  Moves(t)
<1>1. ASSUME NEW s \in Pubs, NEW svc \in Svcs, NEW dlen \in DLens,
             NEW ok \in SendtoOK, PackMsg(s, svc, dlen, ok)
      PROVE  Moves(t)
  <2> DEFINE z == WireLen(dlen)
             flush == ~ Fits(snd[s], z) \/ ~ SameSvc(snd[s], svc)
             q == IF flush THEN FlushState(snd[s], ok) ELSE snd[s]
             ds == IF flush THEN FlushPackets(s, snd[s], ok) ELSE <<>>
  <2>0. snd[s] \in SendState /\ ok \in BOOLEAN
    BY SendtoType DEF TypeOK
  <2>1. /\ snd'[s].pno = q.pno
        /\ left'[s] = IF flush THEN left[s] \cup FlushSeqs(snd[s], ok) ELSE left[s]
        /\ \A v \in Sock \ {s} : snd'[v] = snd[v] /\ left'[v] = left[v]
        /\ inq' = IF flush THEN Multicast(inq, FlushPackets(s, snd[s], ok)) ELSE inq
        /\ UNCHANGED <<rcv, delivered>>
    BY <1>1 DEF PackMsg, TypeOK
  <2>2. Sends(s, ds)
    <3>1. CASE flush
      <4> HIDE DEF flush
      <4>1. /\ snd'[s].pno = FlushState(snd[s], ok).pno
            /\ left'[s] = left[s] \cup FlushSeqs(snd[s], ok)
            /\ ds = FlushPackets(s, snd[s], ok)
        BY <2>1, <3>1
      <4> HIDE DEF ds
      <4> QED
        BY <2>0, <2>1, <4>1, FlushSends, ZenonT(30) DEF Sends
    <3>2. CASE ~ flush
      BY <2>1, <3>2 DEF Sends
    <3> QED
      BY <3>1, <3>2
  <2>3. Gets(t, inq[t], ds)
    <3>1. CASE flush
      BY <2>1, <3>1, MulticastGets
    <3>2. CASE ~ flush
      BY <2>1, <3>2 DEF Gets
    <3> QED
      BY <3>1, <3>2
  <2> HIDE DEF ds
  <2> QED
    BY <2>1, <2>2, <2>3, IdleMoves
<1>2. ASSUME NEW s \in Pubs, NEW ok \in SendtoOK, Flush(s, ok)
      PROVE  Moves(t)
  <2> DEFINE ds == FlushPackets(s, snd[s], ok)
  <2>0. snd[s] \in SendState /\ ok \in BOOLEAN
    BY SendtoType DEF TypeOK
  <2>1. /\ snd'[s] = FlushState(snd[s], ok)
        /\ left'[s] = left[s] \cup FlushSeqs(snd[s], ok)
        /\ \A v \in Sock \ {s} : snd'[v] = snd[v] /\ left'[v] = left[v]
        /\ inq' = Multicast(inq, ds)
        /\ UNCHANGED <<rcv, delivered>>
    BY <1>2 DEF Flush, TypeOK
  <2>2. Sends(s, ds)
    <3>1. /\ snd'[s].pno = FlushState(snd[s], ok).pno
          /\ left'[s] = left[s] \cup FlushSeqs(snd[s], ok)
          /\ ds = FlushPackets(s, snd[s], ok)
      BY <2>1
    <3> HIDE DEF ds
    <3>2. \/ /\ ds = <<DataPacket(s, snd[s])>> /\ snd[s].npk > 0
             /\ snd'[s].pno = snd[s].pno + 1 /\ left'[s] = left[s] \cup Packs(snd[s])
          \/ ds = <<>> /\ snd'[s].pno = snd[s].pno /\ left'[s] = left[s]
      <4>1. CASE snd[s].npk > 0 /\ ok
        BY <2>0, <3>1, <4>1, FlushSends
      <4>2. CASE ~ (snd[s].npk > 0 /\ ok)
        BY <2>0, <3>1, <4>2, FlushSends
      <4> QED
        BY <4>1, <4>2
    <3> QED
      BY <2>1, <3>2 DEF Sends
  <2> HIDE DEF ds
  <2> QED
    BY <2>1, <2>2, MulticastGets, IdleMoves
<1>3. ASSUME NEW s \in Pingers, NEW fok \in SendtoOK, NEW cok \in SendtoOK,
             SendPing(s, fok, cok)
      PROVE  Moves(t)
  <2> DEFINE ds == PingPackets(s, snd[s], PING, fok, cok)
  <2>1. PackPing(s, PING, inq, fok, cok) /\ UNCHANGED <<rcv, delivered>>
    BY <1>3 DEF SendPing
  <2>2. Sends(s, ds)
    BY <2>1, PingSends, SendtoType
  <2>3. inq' = Multicast(inq, ds)
    BY <2>1 DEF PackPing
  <2> HIDE DEF ds
  <2> QED
    BY <2>1, <2>2, <2>3, MulticastGets, IdleMoves
<1>4. ASSUME NEW u \in Subs, ChckMsg(u) \/ Dscrd(u) \/ Network(u)
      PROVE  Moves(t)
  BY <1>4, ChckMoves, DscrdMoves, NetworkMoves
<1>5. CASE UNCHANGED vars
  BY <1>5, SendsNothing, IdleMoves DEF vars, Gets
<1> QED
  BY <1>1, <1>2, <1>3, <1>4, <1>5 DEF Next, Publish

\* Of every step, what is read.
LEMMA NextRcv ==
  ASSUME TypeOK, [Next]_vars, NEW t \in Sock
  PROVE  \E r \in RecvState : Read(t, r) /\ (HandsOut(t, r) \/ LeavesOff(t, r))
BY NextMoves DEF Moves, Takes, Read

-----------------------------------------------------------------------------
(* Framing *)

\* An empty payload is framed.
LEMMA FramedEmpty == ASSUME NEW b PROVE Framed(b, 0)
BY DEF Framed, Chained, Offs

\* Framing is a matter of the payload alone, not of what is behind it.
LEMMA FramedPrefix ==
  ASSUME NEW b \in Buffer, NEW d \in Buffer, NEW n \in 0 .. Cap,
         \A o \in Offs : o < n => d[o] = b[o], Framed(b, n)
  PROVE  Framed(d, n)
<1>1. n > 0 => d[0].tag = "data"
  BY DEF Framed, Offs
<1>2. ASSUME NEW o \in Offs, o < n, d[o].tag = "data"
      PROVE  LET e == o + PackSize(d[o].len)
             IN  e = n \/ (e < n /\ d[e].tag = "data")
  <2>1. b[o] = d[o] /\ b[o] \in Cell
    BY <1>2 DEF Buffer
  <2> DEFINE e == o + PackSize(b[o].len)
  <2>2. e \in Nat
    BY <2>1 DEF PackSize, Cell, Byte, Offs
  <2>3. e = n \/ (e < n /\ b[e].tag = "data")
    BY <1>2, <2>1 DEF Framed, Chained
  <2>4. e < n => e \in Offs
    BY <2>2 DEF Offs
  <2> HIDE DEF e
  <2>5. e = n \/ (e < n /\ d[e].tag = "data")
    BY <2>3, <2>4
  <2> QED
    BY <2>1, <2>5 DEF e
<1> QED
  BY <1>1, <1>2 DEF Framed, Chained

\* A payload stays framed when a pack is written behind it.
LEMMA FramedPack ==
  ASSUME NEW b \in Buffer, NEW n \in Nat, NEW c \in Cell, c.tag = "data",
         n + PackSize(c.len) <= Cap, Framed(b, n)
  PROVE  Framed(PutPack(b, n, c), n + PackSize(c.len))
<1> DEFINE d == PutPack(b, n, c)
           m == n + PackSize(c.len)
<1>1. m \in Nat /\ n < m /\ n \in Offs
  BY DEF PackSize, Cell, Byte, Offs
<1>2. \A o \in Offs : d[o] = IF o = n THEN c ELSE IF o > n /\ o < m THEN Blank ELSE b[o]
  BY DEF PutPack
<1> HIDE DEF d
<1>3. d[0].tag = "data"
  <2>1. 0 \in Offs
    BY <1>1 DEF Offs
  <2> QED
    BY <1>2, <2>1 DEF Framed
<1>4. ASSUME NEW o \in Offs, o < m, d[o].tag = "data"
      PROVE  LET e == o + PackSize(d[o].len)
             IN  e = m \/ (e < m /\ d[e].tag = "data")
  <2>1. CASE o > n
    BY <1>2, <1>4, <2>1 DEF Blank
  <2>2. CASE o = n
    BY <1>2, <2>2
  <2>3. CASE o < n
    <3>1. d[o] = b[o] /\ b[o] \in Cell
      BY <1>1, <1>2, <2>3 DEF Offs, Buffer
    <3> DEFINE e == o + PackSize(b[o].len)
    <3>2. e \in Nat
      BY <3>1 DEF PackSize, Cell, Byte, Offs
    <3>3. e = n \/ (e < n /\ b[e].tag = "data")
      BY <1>4, <2>3, <3>1 DEF Framed, Chained
    <3>4. e < n => e \in Offs
      BY <1>1, <3>2 DEF Offs
    <3> HIDE DEF e, m
    <3>5. e < m /\ d[e].tag = "data"
      BY <1>1, <1>2, <3>2, <3>3, <3>4
    <3> QED
      BY <3>1, <3>5 DEF e
  <2> QED
    BY <1>1, <2>1, <2>2, <2>3 DEF Offs
<1> QED
  BY <1>3, <1>4 DEF Framed, Chained, d

\* Reading one pack after the other stays on packs.
LEMMA FramedNext ==
  ASSUME NEW b \in Buffer, NEW n \in 0 .. Cap, NEW o \in Nat, o < n,
         b[o].tag = "data", Framed(b, n)
  PROVE  LET e == o + PackSize(b[o].len)
         IN  e \in Nat /\ e <= n /\ (e < n => b[e].tag = "data")
<1>1. o \in Offs /\ b[o] \in Cell
  BY DEF Offs, Buffer
<1>2. o + PackSize(b[o].len) \in Nat
  BY <1>1 DEF PackSize, Cell, Byte
<1> QED
  BY <1>1, <1>2 DEF Framed, Chained

\* FramingAgrees with the queues typed: what an induction needs.
FramedDatagram == {d \in Datagram : d.src # Foreign => Framed(d.buf, d.len)}

FramingInv ==
  /\ \A s \in Sock : Framed(snd[s].buf, snd[s].npk)
  /\ inq \in [Sock -> Seq(FramedDatagram)]
  /\ \A s \in Sock : ReadsPacks(rcv[s])

\* It says what FramingAgrees says.
LEMMA FramingMeans == TypeOK /\ FramingInv => FramingAgrees
<1> SUFFICES ASSUME TypeOK, FramingInv, NEW s \in Sock,
                    NEW i \in DOMAIN inq[s], inq[s][i].src # Foreign
             PROVE  Framed(inq[s][i].buf, inq[s][i].len)
  BY DEF FramingInv, FramingAgrees
<1>1. inq[s] \in Seq(FramedDatagram)
  BY DEF FramingInv
<1>2. inq[s][i] \in FramedDatagram
  BY <1>1, LenProperties, ElementOfSeq
<1> QED
  BY <1>2 DEF FramedDatagram

\* Whatever the sockets have to send is framed.
LEMMA FramingCarries == TypeOK /\ FramingInv => Carries(FramedDatagram)
<1> SUFFICES ASSUME TypeOK, FramingInv PROVE Carries(FramedDatagram)
  OBVIOUS
<1>1. ASSUME NEW s \in Sock
      PROVE  DataPacket(s, snd[s]) \in FramedDatagram
  <2> DEFINE d == DataPacket(s, snd[s])
             b == Overlay(snd[s].buf, snd[s].npk, BlankBuffer)
  <2>1. snd[s] \in SendState /\ d \in Datagram
    BY DataPacketType DEF TypeOK
  <2>2. b \in Buffer /\ \A o \in Offs : o < snd[s].npk => b[o] = snd[s].buf[o]
    <3>1. snd[s].npk \in Nat /\ snd[s].buf \in Buffer
      BY <2>1 DEF SendState
    <3> QED
      BY <3>1, OverlayType, BlankType DEF Overlay
  <2>3. Framed(snd[s].buf, snd[s].npk)
    BY DEF FramingInv
  <2>4. snd[s].buf \in Buffer /\ snd[s].npk \in 0 .. Cap
    BY <2>1 DEF SendState
  <2> HIDE DEF b
  <2>5. Framed(b, snd[s].npk)
    BY <2>2, <2>3, <2>4, FramedPrefix
  <2>6. d.buf = b /\ d.len = snd[s].npk
    BY DEF DataPacket, b
  <2> HIDE DEF d
  <2> QED
    BY <2>1, <2>5, <2>6 DEF FramedDatagram, d
<1>2. ASSUME NEW s \in Sock, NEW q \in SendState, NEW cmd \in {PING, PONG}
      PROVE  CtrlPacket(s, q, cmd) \in FramedDatagram
  <2> DEFINE c == DataCell(PingLen, s, 0)
  <2>1. c \in Cell /\ c.tag = "data" /\ c.len = PingLen
    <3>1. PingLen \in Byte
      BY DEF Byte
    <3>2. c \in Cell
      BY <3>1, DataCellType
    <3> QED
      BY <3>2 DEF DataCell
  <2>2. 0 + PackSize(c.len) <= Cap
    BY <2>1 DEF PackSize
  <2> HIDE DEF c
  <2>3. Framed(PutPack(BlankBuffer, 0, c), 0 + PackSize(c.len))
    BY <2>1, <2>2, FramedEmpty, FramedPack, BlankType
  <2>4. CtrlPacket(s, q, cmd) \in Datagram
    BY CtrlPacketType, CtrlSvcs
  <2>5. /\ CtrlPacket(s, q, cmd).buf = PutPack(BlankBuffer, 0, c)
        /\ CtrlPacket(s, q, cmd).len = 0 + PackSize(c.len)
    BY <2>1 DEF CtrlPacket, PackSize, c
  <2> QED
    BY <2>3, <2>4, <2>5 DEF FramedDatagram
<1>3. ForeignPackets \subseteq FramedDatagram
  <2>1. \A d \in ForeignPackets : d.src = Foreign
    BY DEF ForeignPackets, ForeignPacket
  <2> QED
    BY <2>1, ForeignType DEF FramedDatagram
<1> QED
  BY <1>1, <1>2, <1>3 DEF Carries, FramingInv

\* A packet just read is read from its first pack on.
LEMMA LoadReadsPacks ==
  ASSUME NEW r \in RecvState, r.nrd = 0, ReadsPacks(r), NEW d \in FramedDatagram
  PROVE  ReadsPacks(Load(r, d))
<1> DEFINE b == Overlay(d.buf, d.len, r.buf)
<1>1. d \in Datagram /\ r.nck = 0
  BY DEF FramedDatagram, ReadsPacks
<1>2. d.len \in 0 .. Cap /\ d.buf \in Buffer /\ r.buf \in Buffer /\ d.len \in Nat
  BY <1>1 DEF Datagram, RecvState
<1>3. b \in Buffer /\ \A o \in Offs : o < d.len => b[o] = d.buf[o]
  BY <1>2, OverlayType DEF Overlay
<1>4. Load(r, d).buf = b /\ Load(r, d).src = d.src /\ Load(r, d).nck = 0
  BY <1>1 DEF Load
<1> HIDE DEF b
<1>5. CASE d.good
  <2>1. Load(r, d).nrd = d.len
    BY <1>5 DEF Load
  <2>2. ASSUME d.src # Foreign
        PROVE  Framed(b, d.len) /\ (0 < d.len => b[0].tag = "data")
    <3>1. Framed(d.buf, d.len)
      BY <2>2 DEF FramedDatagram
    <3>2. Framed(b, d.len)
      BY <1>2, <1>3, <3>1, FramedPrefix
    <3> QED
      BY <3>2 DEF Framed
  <2> QED
    BY <1>2, <1>4, <2>1, <2>2 DEF ReadsPacks
<1>6. CASE ~ d.good
  <2>1. Load(r, d).nrd = 0
    BY <1>6 DEF Load
  <2> QED
    BY <1>4, <2>1, FramedEmpty DEF ReadsPacks
<1> QED
  BY <1>5, <1>6

\* A packet that is left off or whose next pack is handed out is still
\* read where a pack starts.
LEMMA RcvReadsPacks ==
  ASSUME NEW t \in Sock, NEW r \in RecvState, ReadsPacks(r),
         HandsOut(t, r) \/ LeavesOff(t, r)
  PROVE  ReadsPacks(rcv'[t])
<1>1. CASE LeavesOff(t, r)
  <2>1. ReadsPacks(Dropped(r))
    BY DroppedType, FramedEmpty DEF ReadsPacks
  <2> QED
    BY <1>1, <2>1 DEF LeavesOff
<1>2. CASE HandsOut(t, r)
  <2> DEFINE n == r.nck + PackSize(r.buf[r.nck].len)
  <2>1. /\ r.nck < r.nrd /\ r.buf[r.nck].tag = "data"
        /\ rcv'[t] = [r EXCEPT !.nck = n]
    BY <1>2 DEF HandsOut
  <2>2. r.nrd \in 0 .. Cap /\ r.nck \in Nat /\ r.buf \in Buffer
    BY DEF RecvState
  <2>3. Framed(r.buf, r.nrd) =>
          n \in Nat /\ n <= r.nrd /\ (n < r.nrd => r.buf[n].tag = "data")
    BY <2>1, <2>2, FramedNext
  <2> HIDE DEF n
  <2>4. /\ rcv'[t].nck = n /\ rcv'[t].nrd = r.nrd /\ rcv'[t].src = r.src
        /\ rcv'[t].buf = r.buf
    BY <2>1 DEF RecvState
  <2> QED
    BY <2>1, <2>2, <2>3, <2>4 DEF ReadsPacks
<1> QED
  BY <1>1, <1>2

\* Every step keeps the framing.
LEMMA NextFraming == TypeOK /\ FramingInv /\ [Next]_vars => FramingInv'
<1> SUFFICES ASSUME TypeOK, FramingInv, [Next]_vars PROVE FramingInv'
  OBVIOUS
<1>1. ASSUME NEW s \in Sock PROVE Framed(snd'[s].buf, snd'[s].npk)
  <2>1. CASE Untouched(s)
    BY <2>1 DEF Untouched, FramingInv
  <2>2. CASE Emptied(s)
    BY <2>2, FramedEmpty DEF Emptied
  <2>3. ASSUME NEW svc \in Svcs, NEW dlen \in DLens, Packed(s, svc, dlen)
        PROVE  Framed(snd'[s].buf, snd'[s].npk)
    <3> DEFINE z == WireLen(dlen)
               c == DataCell(z, s, Len(accepted[s]) + 1)
    <3>1. c \in Cell /\ c.tag = "data" /\ c.len = z
      <4>1. z \in Byte /\ Len(accepted[s]) + 1 \in Nat
        BY WireLenType, LenProperties DEF TypeOK
      <4>2. c \in Cell
        BY <4>1, DataCellType
      <4> HIDE DEF z
      <4> QED
        BY <4>2 DEF DataCell
    <3>2. PICK f \in SendState :
            /\ f = snd[s] \/ f.npk = 0
            /\ f.npk + PackSize(z) <= Cap
            /\ snd'[s].npk = f.npk + PackSize(z)
            /\ snd'[s].buf = PutPack(f.buf, f.npk, c)
      BY <2>3 DEF Packed
    <3>3. Framed(f.buf, f.npk)
      BY <3>2, FramedEmpty DEF FramingInv
    <3>4. f.buf \in Buffer /\ f.npk \in Nat
      BY DEF SendState
    <3> HIDE DEF c, z
    <3> QED
      BY <3>1, <3>2, <3>3, <3>4, FramedPack
  <2> QED
    BY <2>1, <2>2, <2>3, NextSnd
<1>2. inq' \in [Sock -> Seq(FramedDatagram)]
  BY FramingCarries, NextQueues
<1>3. ASSUME NEW t \in Sock PROVE ReadsPacks(rcv'[t])
  <2>1. PICK r \in RecvState : Read(t, r) /\ (HandsOut(t, r) \/ LeavesOff(t, r))
    BY NextRcv
  <2>2. ReadsPacks(rcv[t]) /\ rcv[t] \in RecvState
    BY DEF FramingInv, TypeOK
  <2>3. inq[t] # <<>> => Head(inq[t]) \in FramedDatagram
    BY DequeueType DEF FramingInv
  <2>4. ReadsPacks(r)
    BY <2>1, <2>2, <2>3, LoadReadsPacks DEF Read
  <2> QED
    BY <2>1, <2>4, RcvReadsPacks
<1> QED
  BY <1>1, <1>2, <1>3 DEF FramingInv

\* Nothing is framed badly at the start.
LEMMA InitFraming == Init => FramingInv
BY FramedEmpty DEF Init, FramingInv, ReadsPacks

\* Framing is never lost: what the library reads of its own packets are
\* the packs that were written, on every network.
THEOREM FramingCorrect == Spec => []FramingAgrees
BY InitFraming, InitType, NextType, NextFraming, FramingMeans, PTL DEF Spec

-----------------------------------------------------------------------------
(* No message is lost on its way through the send buffer *)

\* The messages in a buffer are a matter of its fill and its cells.
LEMMA PacksSame ==
  ASSUME NEW q, NEW f, q.npk = f.npk, q.buf = f.buf
  PROVE  Packs(q) = Packs(f)
BY DEF Packs

\* There are none in an empty one.
LEMMA PacksEmpty == ASSUME NEW q, q.npk = 0 PROVE Packs(q) = {}
BY DEF Packs, Offs

\* Writing a pack behind the others adds its message.
LEMMA PacksPacked ==
  ASSUME NEW f \in SendState, NEW q, NEW c \in Cell, c.tag = "data",
         f.npk + PackSize(c.len) <= Cap,
         q.npk = f.npk + PackSize(c.len), q.buf = PutPack(f.buf, f.npk, c)
  PROVE  Packs(q) = Packs(f) \cup {c.seq}
<1> DEFINE n == f.npk
           m == f.npk + PackSize(c.len)
           b == q.buf
<1>1. m \in Nat /\ n \in Nat /\ n < m /\ n \in Offs /\ m <= Cap
  BY DEF SendState, PackSize, Cell, Byte, Offs
<1>2. \A o \in Offs :
        b[o] = IF o = n THEN c ELSE IF o > n /\ o < m THEN Blank ELSE f.buf[o]
  BY DEF PutPack
<1> HIDE DEF b, m, n
<1>3. \A o \in Offs : o < m /\ b[o].tag = "data"
                        <=> (o < n /\ f.buf[o].tag = "data") \/ o = n
  BY <1>1, <1>2 DEF Blank, Offs
<1>4. \A o \in Offs : o < n => b[o] = f.buf[o]
  BY <1>1, <1>2 DEF Offs
<1>5. b[n] = c
  BY <1>1, <1>2
<1>6. Packs(q) = {b[o].seq : o \in {p \in Offs : p < m /\ b[p].tag = "data"}}
  BY DEF Packs, b, m
<1>7. Packs(f) = {f.buf[o].seq : o \in {p \in Offs : p < n /\ f.buf[p].tag = "data"}}
  BY DEF Packs, n
<1>8. ASSUME NEW x \in Packs(q) PROVE x \in Packs(f) \cup {c.seq}
  BY <1>3, <1>4, <1>5, <1>6, <1>7
<1>9. ASSUME NEW x \in Packs(f) PROVE x \in Packs(q)
  BY <1>3, <1>4, <1>6, <1>7
<1>10. c.seq \in Packs(q)
  BY <1>1, <1>3, <1>5, <1>6
<1> QED
  BY <1>8, <1>9, <1>10

\* Every step keeps the books.
LEMMA NextNoPackLost == TypeOK /\ NoPackLost /\ [Next]_vars => NoPackLost'
<1> SUFFICES ASSUME TypeOK, NoPackLost, [Next]_vars, NEW s \in Sock
             PROVE  /\ left'[s] \cup Packs(snd'[s]) = 1 .. Len(accepted'[s])
                    /\ \A i \in left'[s], j \in Packs(snd'[s]) : i < j
  BY DEF NoPackLost
<1>1. /\ left[s] \cup Packs(snd[s]) = 1 .. Len(accepted[s])
      /\ \A i \in left[s], j \in Packs(snd[s]) : i < j
  BY DEF NoPackLost
<1>2. CASE Untouched(s)
  <2>1. Packs(snd'[s]) = Packs(snd[s])
    BY <1>2, PacksSame DEF Untouched
  <2> QED
    BY <1>1, <1>2, <2>1 DEF Untouched
<1>3. CASE Emptied(s)
  <2>1. Packs(snd'[s]) = {}
    BY <1>3, PacksEmpty DEF Emptied
  <2> QED
    BY <1>1, <1>3, <2>1 DEF Emptied
<1>4. ASSUME NEW svc \in Svcs, NEW dlen \in DLens, Packed(s, svc, dlen)
      PROVE  /\ left'[s] \cup Packs(snd'[s]) = 1 .. Len(accepted'[s])
             /\ \A i \in left'[s], j \in Packs(snd'[s]) : i < j
  <2> DEFINE n == Len(accepted[s])
             z == WireLen(dlen)
             c == DataCell(z, s, n + 1)
  <2>1. n \in Nat
    BY LenProperties DEF TypeOK
  <2>2. c \in Cell /\ c.tag = "data" /\ c.len = z /\ c.seq = n + 1
    <3>1. z \in Byte
      BY WireLenType
    <3> HIDE DEF z, n
    <3>2. c \in Cell
      BY <2>1, <3>1, DataCellType
    <3> QED
      BY <3>2 DEF DataCell
  <2>3. PICK f \in SendState :
          /\ \/ f = snd[s] /\ left'[s] = left[s]
             \/ f.npk = 0 /\ left'[s] = left[s] \cup Packs(snd[s])
          /\ f.npk + PackSize(z) <= Cap
          /\ snd'[s].npk = f.npk + PackSize(z)
          /\ snd'[s].buf = PutPack(f.buf, f.npk, c)
          /\ accepted'[s] = Append(accepted[s], [svc |-> svc, dlen |-> dlen])
    BY <1>4 DEF Packed
  <2>4. Len(accepted'[s]) = n + 1
    <3>1. [svc |-> svc, dlen |-> dlen] \in Message
      BY DEF Message
    <3> QED
      BY <2>3, <3>1, AppendProperties DEF TypeOK
  <2> HIDE DEF n, z, c
  <2>5. Packs(snd'[s]) = Packs(f) \cup {n + 1}
    BY <2>2, <2>3, PacksPacked
  <2>6. 1 .. n + 1 = (1 .. n) \cup {n + 1}
    BY <2>1
  <2>7. left[s] \cup Packs(snd[s]) = 1 .. n
    BY <1>1 DEF n
  <2>8. CASE f = snd[s] /\ left'[s] = left[s]
    <3>1. left'[s] \cup Packs(snd'[s]) = 1 .. n + 1
      BY <2>5, <2>6, <2>7, <2>8
    <3>2. \A i \in left[s] : i < n + 1
      BY <2>1, <2>7
    <3> QED
      BY <1>1, <2>4, <2>5, <2>8, <3>1, <3>2
  <2>9. CASE f.npk = 0 /\ left'[s] = left[s] \cup Packs(snd[s])
    <3>1. Packs(snd'[s]) = {n + 1}
      BY <2>5, <2>9, PacksEmpty
    <3>2. left'[s] = 1 .. n
      BY <2>7, <2>9
    <3>3. \A i \in 1 .. n : i < n + 1
      BY <2>1
    <3> QED
      BY <2>4, <2>6, <3>1, <3>2, <3>3
  <2> QED
    BY <2>3, <2>8, <2>9
<1> QED
  BY <1>2, <1>3, <1>4, NextSnd

\* No message is lost at the start.
LEMMA InitNoPackLost == Init => NoPackLost
<1> SUFFICES ASSUME Init, NEW s \in Sock
             PROVE  /\ left[s] \cup Packs(snd[s]) = 1 .. Len(accepted[s])
                    /\ \A i \in left[s], j \in Packs(snd[s]) : i < j
  BY DEF NoPackLost
<1>1. left[s] = {} /\ snd[s].npk = 0 /\ accepted[s] = <<>>
  BY DEF Init
<1>2. Packs(snd[s]) = {}
  BY <1>1, PacksEmpty
<1>3. Len(accepted[s]) = 0
  BY <1>1
<1> QED
  BY <1>1, <1>2, <1>3

\* However the calls interleave and whichever sendto() fails, a message the
\* library took is in the send buffer or has been sent, and not both.
THEOREM NoPackLostCorrect == Spec => []NoPackLost
BY InitNoPackLost, InitType, NextType, NextNoPackLost, PTL DEF Spec

-----------------------------------------------------------------------------
(* Integrity *)

\* A pack cell in a packet of src for service svc is what acc says src packed.
Truthful(acc, src, svc, c) ==
  c.tag = "data" /\ c.seq > 0 =>
    /\ src \in Sock
    /\ c.seq \in 1 .. Len(acc[src])
    /\ acc[src][c.seq].svc = svc
    /\ acc[src][c.seq].dlen = c.len

TrueDatagrams(acc) ==
  {d \in Datagram : \A o \in Offs : o < d.len => Truthful(acc, d.src, d.cmd, d.buf[o])}

\* In the send buffers, on the network and in the receive buffers there is
\* nothing but what was packed.
OriginInv ==
  /\ \A s \in Sock :
       /\ snd[s].npk > 0 => snd[s].svc \in Svcs
       /\ \A o \in Offs : o < snd[s].npk =>
            Truthful(accepted, s, snd[s].svc, snd[s].buf[o])
  /\ inq \in [Sock -> Seq(TrueDatagrams(accepted))]
  /\ \A t \in Sock : \A o \in Offs : o < rcv[t].nrd =>
       Truthful(accepted, rcv[t].src, rcv[t].cmd, rcv[t].buf[o])

\* What was packed stays packed.
LEMMA AcceptedGrows ==
  ASSUME TypeOK, [Next]_vars, NEW s \in Sock
  PROVE  /\ Len(accepted'[s]) \in Nat /\ Len(accepted[s]) <= Len(accepted'[s])
         /\ \A i \in 1 .. Len(accepted[s]) : accepted'[s][i] = accepted[s][i]
<1>0. accepted[s] \in Seq(Message) /\ Len(accepted[s]) \in Nat
  BY LenProperties DEF TypeOK
<1>1. CASE accepted'[s] = accepted[s]
  BY <1>0, <1>1
<1>2. ASSUME NEW svc \in Svcs, NEW dlen \in DLens,
             accepted'[s] = Append(accepted[s], [svc |-> svc, dlen |-> dlen])
      PROVE  /\ Len(accepted'[s]) \in Nat /\ Len(accepted[s]) <= Len(accepted'[s])
             /\ \A i \in 1 .. Len(accepted[s]) : accepted'[s][i] = accepted[s][i]
  <2>1. [svc |-> svc, dlen |-> dlen] \in Message
    BY DEF Message
  <2> QED
    BY <1>0, <1>2, <2>1, AppendProperties
<1>3. \/ accepted'[s] = accepted[s]
      \/ \E svc \in Svcs, dlen \in DLens :
           accepted'[s] = Append(accepted[s], [svc |-> svc, dlen |-> dlen])
  BY NextSnd DEF Untouched, Emptied, Packed
<1> QED
  BY <1>1, <1>2, <1>3

\* So what was true of a pack stays true.
LEMMA TruthStays ==
  ASSUME TypeOK, [Next]_vars
  PROVE  \A src, svc, c : c.seq \in Nat /\ Truthful(accepted, src, svc, c)
           => Truthful(accepted', src, svc, c)
<1> SUFFICES ASSUME NEW src, NEW svc, NEW c, c.seq \in Nat,
                    Truthful(accepted, src, svc, c), c.tag = "data", c.seq > 0
             PROVE  /\ src \in Sock
                    /\ c.seq \in 1 .. Len(accepted'[src])
                    /\ accepted'[src][c.seq].svc = svc
                    /\ accepted'[src][c.seq].dlen = c.len
  BY DEF Truthful
<1>1. /\ src \in Sock
      /\ c.seq \in 1 .. Len(accepted[src])
      /\ accepted[src][c.seq].svc = svc
      /\ accepted[src][c.seq].dlen = c.len
  BY DEF Truthful
<1>2. Len(accepted[src]) \in Nat
  BY <1>1, LenProperties DEF TypeOK
<1> QED
  BY <1>1, <1>2, AcceptedGrows

\* What the sockets have to send is true.
LEMMA OriginCarries == TypeOK /\ OriginInv => Carries(TrueDatagrams(accepted))
<1> SUFFICES ASSUME TypeOK, OriginInv PROVE Carries(TrueDatagrams(accepted))
  OBVIOUS
<1>0. \A src, svc : Truthful(accepted, src, svc, Blank)
  BY DEF Truthful, Blank
<1>1. ASSUME NEW s \in Sock
      PROVE  DataPacket(s, snd[s]) \in TrueDatagrams(accepted)
  <2> DEFINE d == DataPacket(s, snd[s])
  <2>1. d \in Datagram /\ d.src = s /\ d.cmd = snd[s].svc /\ d.len = snd[s].npk
    BY DataPacketType DEF TypeOK, DataPacket
  <2>2. \A o \in Offs : o < snd[s].npk => d.buf[o] = snd[s].buf[o]
    BY DEF DataPacket, Overlay
  <2> HIDE DEF d
  <2>3. \A o \in Offs : o < d.len => Truthful(accepted, d.src, d.cmd, d.buf[o])
    BY <2>1, <2>2 DEF OriginInv
  <2> QED
    BY <2>1, <2>3 DEF TrueDatagrams, d
<1>2. ASSUME NEW s \in Sock, NEW q \in SendState, NEW cmd \in {PING, PONG}
      PROVE  CtrlPacket(s, q, cmd) \in TrueDatagrams(accepted)
  <2> DEFINE d == CtrlPacket(s, q, cmd)
             c == DataCell(PingLen, s, 0)
  <2>1. d \in Datagram
    BY CtrlPacketType, CtrlSvcs
  <2>2. \A src, svc : Truthful(accepted, src, svc, c)
    BY DEF Truthful, DataCell
  <2>3. \A o \in Offs : d.buf[o] \in {c, Blank}
    BY DEF CtrlPacket, PutPack, BlankBuffer
  <2> HIDE DEF d, c
  <2>4. \A o \in Offs : Truthful(accepted, d.src, d.cmd, d.buf[o])
    BY <1>0, <2>2, <2>3
  <2> QED
    BY <2>1, <2>4 DEF TrueDatagrams, d
<1>3. ForeignPackets \subseteq TrueDatagrams(accepted)
  <2>1. \A d \in ForeignPackets : \A o \in Offs : d.buf[o] = Blank
    BY DEF ForeignPackets, ForeignPacket, BlankBuffer
  <2> QED
    BY <1>0, <2>1, ForeignType DEF TrueDatagrams
<1> QED
  BY <1>1, <1>2, <1>3 DEF Carries, OriginInv

\* A new pack is true, and the packs before it stay true, for the service
\* of the buffer is the service of all of them.
LEMMA PackedTruthful ==
  ASSUME TypeOK, OriginInv, [Next]_vars, 0 \notin Svcs, DLens \subseteq Byte,
         NEW s \in Sock, NEW svc \in Svcs, NEW dlen \in DLens,
         Packed(s, svc, dlen)
  PROVE  /\ snd'[s].svc = svc
         /\ \A o \in Offs : o < snd'[s].npk =>
              Truthful(accepted', s, svc, snd'[s].buf[o])
<1> DEFINE n == Len(accepted[s])
           z == WireLen(dlen)
           c == DataCell(z, s, n + 1)
           m == [svc |-> svc, dlen |-> dlen]
<1>1. n \in Nat /\ accepted[s] \in Seq(Message)
  BY LenProperties DEF TypeOK
<1>2. z = dlen
  BY DEF WireLen, Byte
<1>3. PICK f \in SendState :
        /\ (f = snd[s] /\ SameSvc(f, svc)) \/ f.npk = 0
        /\ snd'[s].npk = f.npk + PackSize(z)
        /\ snd'[s].svc = svc
        /\ snd'[s].buf = PutPack(f.buf, f.npk, c)
        /\ accepted'[s] = Append(accepted[s], m)
  BY DEF Packed
<1>4. Len(accepted'[s]) = n + 1 /\ accepted'[s][n + 1] = m
  <2>1. m \in Message
    BY DEF Message
  <2> QED
    BY <1>1, <1>3, <2>1, AppendProperties
<1>5. c.tag = "data" /\ c.seq = n + 1 /\ c.len = dlen
  BY <1>2 DEF DataCell
<1>6. m.svc = svc /\ m.dlen = dlen
  OBVIOUS
<1> HIDE DEF n, z, c, m
<1>7. Truthful(accepted', s, svc, c)
  BY <1>1, <1>4, <1>5, <1>6 DEF Truthful
<1>8. ASSUME NEW o \in Offs, o < f.npk
      PROVE  Truthful(accepted', s, svc, f.buf[o])
  <2>1. f = snd[s] /\ SameSvc(f, svc) /\ f.npk > 0
    <3>1. f.npk \in Nat /\ f.npk > 0
      BY <1>8 DEF Offs, SendState
    <3> QED
      BY <1>3, <3>1
  <2>2. snd[s].svc = svc
    BY <2>1 DEF OriginInv, SameSvc
  <2>3. Truthful(accepted, s, svc, f.buf[o])
    BY <1>8, <2>1, <2>2 DEF OriginInv
  <2>4. f.buf[o].seq \in Nat
    BY DEF SendState, Buffer, Cell
  <2> QED
    BY <2>3, <2>4, TruthStays
<1>9. ASSUME NEW o \in Offs, o < snd'[s].npk
      PROVE  Truthful(accepted', s, svc, snd'[s].buf[o])
  <2>1. f.npk \in Nat /\ o \in Int
    BY DEF SendState, Offs
  <2>2. snd'[s].buf[o] = IF o = f.npk THEN c
                         ELSE IF o > f.npk /\ o < f.npk + PackSize(c.len) THEN Blank
                         ELSE f.buf[o]
    BY <1>3 DEF PutPack
  <2>3. PackSize(c.len) = PackSize(z)
    BY <1>2, <1>5
  <2>4. CASE o = f.npk
    BY <1>7, <2>2, <2>4
  <2>5. CASE o > f.npk
    <3>1. snd'[s].buf[o] = Blank
      BY <1>3, <1>9, <2>1, <2>2, <2>3, <2>5
    <3> QED
      BY <3>1 DEF Truthful, Blank
  <2>6. CASE o < f.npk
    <3>1. snd'[s].buf[o] = f.buf[o]
      BY <2>1, <2>2, <2>6
    <3> QED
      BY <1>8, <2>6, <3>1
  <2> QED
    BY <2>1, <2>4, <2>5, <2>6
<1> QED
  BY <1>3, <1>9

\* What is read is true.
LEMMA ReadTruthful ==
  ASSUME TypeOK, OriginInv, NEW t \in Sock, NEW r \in RecvState, Read(t, r)
  PROVE  \A o \in Offs : o < r.nrd => Truthful(accepted, r.src, r.cmd, r.buf[o])
<1>1. CASE r = rcv[t]
  BY <1>1 DEF OriginInv
<1>2. CASE rcv[t].nrd = 0 /\ inq[t] # <<>> /\ r = Load(rcv[t], Head(inq[t]))
  <2> DEFINE d == Head(inq[t])
  <2>1. d \in TrueDatagrams(accepted)
    BY <1>2, DequeueType DEF OriginInv
  <2>2. \A o \in Offs : o < d.len => Truthful(accepted, d.src, d.cmd, d.buf[o])
    BY <2>1 DEF TrueDatagrams
  <2> HIDE DEF d
  <2>3. r = Load(rcv[t], d)
    BY <1>2 DEF d
  <2>4. CASE d.good
    <3>1. r.nrd = d.len /\ r.src = d.src /\ r.cmd = d.cmd
      BY <2>3, <2>4 DEF Load
    <3>2. \A o \in Offs : o < d.len => r.buf[o] = d.buf[o]
      BY <2>3 DEF Load, Overlay
    <3> QED
      BY <2>2, <3>1, <3>2
  <2>5. CASE ~ d.good
    <3>1. r.nrd = 0
      BY <1>2, <2>3, <2>5 DEF Load
    <3> QED
      BY <3>1 DEF Offs
  <2> QED
    BY <2>4, <2>5
<1> QED
  BY <1>1, <1>2 DEF Read

\* Every step keeps the origins.
LEMMA NextOrigin ==
  ASSUME 0 \notin Svcs, DLens \subseteq Byte
  PROVE  TypeOK /\ OriginInv /\ [Next]_vars => OriginInv'
<1> SUFFICES ASSUME TypeOK, OriginInv, [Next]_vars PROVE OriginInv'
  OBVIOUS
<1>1. ASSUME NEW s \in Sock
      PROVE  /\ snd'[s].npk > 0 => snd'[s].svc \in Svcs
             /\ \A o \in Offs : o < snd'[s].npk =>
                  Truthful(accepted', s, snd'[s].svc, snd'[s].buf[o])
  <2>1. CASE Untouched(s)
    <3>1. \A o \in Offs : snd[s].buf[o].seq \in Nat
      BY DEF TypeOK, SendState, Buffer, Cell
    <3> QED
      BY <2>1, <3>1, TruthStays DEF Untouched, OriginInv
  <2>2. CASE Emptied(s)
    BY <2>2 DEF Emptied, Offs
  <2>3. ASSUME NEW svc \in Svcs, NEW dlen \in DLens, Packed(s, svc, dlen)
        PROVE  /\ snd'[s].svc \in Svcs
               /\ \A o \in Offs : o < snd'[s].npk =>
                    Truthful(accepted', s, snd'[s].svc, snd'[s].buf[o])
    BY <2>3, PackedTruthful
  <2> QED
    BY <2>1, <2>2, <2>3, NextSnd
<1>2. inq' \in [Sock -> Seq(TrueDatagrams(accepted'))]
  <2>1. inq' \in [Sock -> Seq(TrueDatagrams(accepted))]
    BY OriginCarries, NextQueues
  <2>2. TrueDatagrams(accepted) \subseteq TrueDatagrams(accepted')
    <3> SUFFICES ASSUME NEW d \in TrueDatagrams(accepted), NEW o \in Offs, o < d.len
                 PROVE  Truthful(accepted', d.src, d.cmd, d.buf[o])
      BY DEF TrueDatagrams
    <3>1. d \in Datagram /\ Truthful(accepted, d.src, d.cmd, d.buf[o])
      BY DEF TrueDatagrams
    <3>2. d.buf[o].seq \in Nat
      BY <3>1 DEF Datagram, Buffer, Cell
    <3> QED
      BY <3>1, <3>2, TruthStays
  <2>3. \A t \in Sock : inq'[t] \in Seq(TrueDatagrams(accepted'))
    BY <2>1, <2>2, SeqMonotonic
  <2> QED
    BY <2>1, <2>3
<1>3. ASSUME NEW t \in Sock, NEW o \in Offs, o < rcv'[t].nrd
      PROVE  Truthful(accepted', rcv'[t].src, rcv'[t].cmd, rcv'[t].buf[o])
  <2>1. PICK r \in RecvState : Read(t, r) /\ (HandsOut(t, r) \/ LeavesOff(t, r))
    BY NextRcv
  <2>2. o < r.nrd => Truthful(accepted', r.src, r.cmd, r.buf[o])
    <3>1. r.buf[o].seq \in Nat
      BY DEF RecvState, Buffer, Cell
    <3> QED
      BY <2>1, <3>1, ReadTruthful, TruthStays
  <2>3. \/ rcv'[t].nrd = 0
        \/ /\ rcv'[t].nrd = r.nrd /\ rcv'[t].src = r.src
           /\ rcv'[t].cmd = r.cmd /\ rcv'[t].buf = r.buf
    BY <2>1, DroppedType, ZenonT(30) DEF HandsOut, LeavesOff, RecvState
  <2> QED
    BY <1>3, <2>2, <2>3 DEF Offs
<1> QED
  BY <1>1, <1>2, <1>3 DEF OriginInv

\* Nothing has an origin at the start.
LEMMA InitOrigin == Init => OriginInv
<1> SUFFICES ASSUME Init PROVE OriginInv
  OBVIOUS
<1>1. \A s \in Sock : snd[s].npk = 0 /\ rcv[s].nrd = 0
  BY DEF Init
<1>2. inq \in [Sock -> Seq(TrueDatagrams(accepted))]
  BY DEF Init
<1> QED
  BY <1>1, <1>2 DEF OriginInv, Offs

\* What was handed out, as the cell it was.
CellOf(m) == [tag |-> "data", len |-> m.len, src |-> m.src, seq |-> m.seq]

HandedInv ==
  \A t \in Sock : \A k \in 1 .. Len(delivered[t]) :
    Truthful(accepted, delivered[t][k].src, delivered[t][k].svc,
             CellOf(delivered[t][k]))

\* It says what Integrity says.
LEMMA HandedMeans == TypeOK /\ HandedInv => Integrity
<1> SUFFICES ASSUME TypeOK, HandedInv, NEW t \in Sock,
                    NEW k \in DOMAIN delivered[t], delivered[t][k].seq > 0
             PROVE  LET m == delivered[t][k] IN
                      /\ m.src \in Sock
                      /\ m.seq \in DOMAIN accepted[m.src]
                      /\ m.svc = accepted[m.src][m.seq].svc
                      /\ m.len = accepted[m.src][m.seq].dlen
  BY DEF Integrity, HandedOutWasPacked, ServiceKept, LengthKept
<1> DEFINE m == delivered[t][k]
<1>1. k \in 1 .. Len(delivered[t])
  BY LenProperties DEF TypeOK
<1>2. Truthful(accepted, m.src, m.svc, CellOf(m))
  BY <1>1 DEF HandedInv
<1> HIDE DEF m
<1>3. m.seq > 0 => /\ m.src \in Sock
                   /\ m.seq \in 1 .. Len(accepted[m.src])
                   /\ m.svc = accepted[m.src][m.seq].svc
                   /\ m.len = accepted[m.src][m.seq].dlen
  BY <1>2 DEF Truthful, CellOf
<1>4. \A s \in Sock : DOMAIN accepted[s] = 1 .. Len(accepted[s])
  BY LenProperties DEF TypeOK
<1> QED
  BY <1>3, <1>4 DEF m

\* Every step hands out what was packed.
LEMMA NextHanded ==
  ASSUME TypeOK, OriginInv, HandedInv, [Next]_vars
  PROVE  HandedInv'
<1> SUFFICES ASSUME NEW t \in Sock, NEW k \in 1 .. Len(delivered'[t])
             PROVE  Truthful(accepted', delivered'[t][k].src, delivered'[t][k].svc,
                             CellOf(delivered'[t][k]))
  BY DEF HandedInv
<1>1. delivered[t] \in Seq(Handed) /\ Len(delivered[t]) \in Nat
  BY LenProperties DEF TypeOK
<1>2. ASSUME k <= Len(delivered[t]), delivered'[t][k] = delivered[t][k]
      PROVE  Truthful(accepted', delivered'[t][k].src, delivered'[t][k].svc,
                      CellOf(delivered'[t][k]))
  <2>1. k \in 1 .. Len(delivered[t])
    BY <1>1, <1>2
  <2>2. CellOf(delivered[t][k]).seq \in Nat
    <3>1. delivered[t][k] \in Handed
      BY <1>1, <2>1, ElementOfSeq
    <3> QED
      BY <3>1 DEF Handed, CellOf
  <2>3. Truthful(accepted, delivered[t][k].src, delivered[t][k].svc,
                 CellOf(delivered[t][k]))
    BY <2>1 DEF HandedInv
  <2> QED
    BY <1>2, <2>2, <2>3, TruthStays
<1>3. PICK r \in RecvState : Read(t, r) /\ (HandsOut(t, r) \/ LeavesOff(t, r))
  BY NextRcv
<1>4. CASE LeavesOff(t, r)
  <2>1. delivered'[t] = delivered[t]
    BY <1>4 DEF LeavesOff
  <2> QED
    BY <1>1, <1>2, <2>1
<1>5. CASE HandsOut(t, r)
  <2> DEFINE c == r.buf[r.nck]
             m == [src |-> r.src, seq |-> c.seq, svc |-> r.cmd, len |-> c.len,
                   pno |-> r.pno, nr |-> r.nr]
  <2>1. r.nck < r.nrd /\ c.tag = "data" /\ delivered'[t] = Append(delivered[t], m)
    BY <1>5 DEF HandsOut
  <2>2. r.nck \in Offs /\ c \in Cell
    BY <2>1, SMTT(30) DEF RecvState, Buffer, Offs
  <2>3. m \in Handed
    BY <2>2 DEF RecvState, Cell, Handed
  <2>4. Truthful(accepted', r.src, r.cmd, c)
    <3>1. Truthful(accepted, r.src, r.cmd, c)
      BY <1>3, <2>1, <2>2, ReadTruthful
    <3>2. c.seq \in Nat
      BY <2>2 DEF Cell
    <3> HIDE DEF c
    <3> QED
      BY <3>1, <3>2, TruthStays
  <2>5. Truthful(accepted', m.src, m.svc, CellOf(m))
    <3> HIDE DEF c
    <3>1. m.src = r.src /\ m.svc = r.cmd /\ m.seq = c.seq /\ m.len = c.len
      OBVIOUS
    <3> HIDE DEF m
    <3> QED
      BY <2>1, <2>4, <3>1 DEF Truthful, CellOf
  <2> HIDE DEF m
  <2>6. /\ Len(delivered'[t]) = Len(delivered[t]) + 1
        /\ delivered'[t][Len(delivered[t]) + 1] = m
        /\ \A i \in 1 .. Len(delivered[t]) : delivered'[t][i] = delivered[t][i]
    BY <1>1, <2>1, <2>3, AppendProperties
  <2>7. CASE k = Len(delivered[t]) + 1
    BY <2>5, <2>6, <2>7
  <2>8. CASE k <= Len(delivered[t])
    BY <1>1, <1>2, <2>6, <2>8
  <2> QED
    BY <1>1, <2>6, <2>7, <2>8
<1> QED
  BY <1>3, <1>4, <1>5

\* What comes out is what went in: the service, the length and the message
\* are those of a pack its sender packed, for applications that keep off
\* service 0 and off messages whose length does not fit the length octet.
THEOREM IntegrityCorrect ==
  ASSUME 0 \notin Svcs, DLens \subseteq Byte
  PROVE  Spec => []Integrity
<1>1. Init => HandedInv
  <2> SUFFICES ASSUME Init PROVE HandedInv
    OBVIOUS
  <2>1. \A s \in Sock : Len(delivered[s]) = 0
    BY DEF Init
  <2> QED
    BY <2>1 DEF HandedInv
<1>2. TypeOK /\ OriginInv /\ [Next]_vars => OriginInv'
  BY NextOrigin
<1>3. TypeOK /\ OriginInv /\ HandedInv /\ [Next]_vars => HandedInv'
  BY NextHanded
<1> QED
  BY <1>1, <1>2, <1>3, InitOrigin, InitType, NextType, HandedMeans, PTL DEF Spec

-----------------------------------------------------------------------------
(* PONGs answer PINGs, one each at most, whatever the network does and     *)
(* however many sockets answer each other.  A PING is a packet of its own  *)
(* with one pack in it, so that looking at it twice is impossible; the     *)
(* proof is about that pack.                                               *)

\* n bytes that are one pack and nothing else
OnePack(b, n) == b[0].tag = "data" /\ n = PackSize(b[0].len)

PingDatagram ==
  {d \in Datagram : d.cmd = PING /\ d.len > 0 => OnePack(d.buf, d.len)}

\* The packet holds a pack that ud_chck_cmsg() will answer.
Owing(r) == r.cmd = PING /\ r.nck < r.nrd

Owed(r) == IF Owing(r) THEN 1 ELSE 0

PingsRead(r) ==
  /\ r.nrd = 0 => r.nck = 0
  /\ Owing(r) => r.nck = 0 /\ OnePack(r.buf, r.nrd)

PongInv ==
  /\ \A s \in Sock : snd[s].npk > 0 => snd[s].svc # PING
  /\ inq \in [Sock -> Seq(PingDatagram)]
  /\ \A t \in Sock : PingsRead(rcv[t])
  /\ \A t \in Sock : ponged[t] + Owed(rcv[t]) <= pinged[t]

\* The application cannot pack messages that look like PINGs.
LEMMA PingReserved == PING \notin Svcs /\ PING \in Svc /\ IsCtrl(PING)
<1>1. PING = 65284
  BY DEF PING, UD_SVC, ChnCtrl
<1>2. 65284 \div 256 = 255
  OBVIOUS
<1>3. IsCtrl(PING)
  BY <1>1, <1>2 DEF IsCtrl, UD_CHN, ChnCtrl
<1> QED
  BY <1>3, CtrlSvcs DEF UserSvc

-----------------------------------------------------------------------------
(* The send buffer and the queues *)

\* What waits in a send buffer is never sent as a PING.
LEMMA NextNoPingPacked ==
  ASSUME TypeOK, PongInv, [Next]_vars, NEW s \in Sock, snd'[s].npk > 0
  PROVE  snd'[s].svc # PING
<1>1. CASE Untouched(s)
  BY <1>1 DEF Untouched, PongInv
<1>2. CASE Emptied(s)
  BY <1>2 DEF Emptied
<1>3. ASSUME NEW svc \in Svcs, NEW dlen \in DLens, Packed(s, svc, dlen)
      PROVE  snd'[s].svc # PING
  BY <1>3, PingReserved DEF Packed
<1> QED
  BY <1>1, <1>2, <1>3, NextSnd

\* Every PING on the way has one pack or none.
LEMMA PingCarries == TypeOK /\ PongInv => Carries(PingDatagram)
<1> SUFFICES ASSUME TypeOK, PongInv PROVE Carries(PingDatagram)
  OBVIOUS
<1>1. ASSUME NEW s \in Sock, snd[s].npk > 0
      PROVE  DataPacket(s, snd[s]) \in PingDatagram
  <2>1. DataPacket(s, snd[s]) \in Datagram
    BY DataPacketType DEF TypeOK
  <2>2. DataPacket(s, snd[s]).cmd # PING
    BY <1>1 DEF PongInv, DataPacket
  <2> QED
    BY <2>1, <2>2 DEF PingDatagram
<1>2. ASSUME NEW s \in Sock, NEW q \in SendState, NEW cmd \in {PING, PONG}
      PROVE  CtrlPacket(s, q, cmd) \in PingDatagram
  <2> DEFINE c == DataCell(PingLen, s, 0)
             b == PutPack(BlankBuffer, 0, c)
  <2>1. CtrlPacket(s, q, cmd) \in Datagram
    BY CtrlPacketType, CtrlSvcs
  <2>2. CtrlPacket(s, q, cmd).buf = b /\ CtrlPacket(s, q, cmd).len = PackSize(PingLen)
    BY DEF CtrlPacket
  <2>3. b[0] = c
    BY DEF PutPack, Offs
  <2>4. c.tag = "data" /\ c.len = PingLen
    BY DEF DataCell
  <2> HIDE DEF b, c
  <2>5. OnePack(b, PackSize(PingLen))
    BY <2>3, <2>4 DEF OnePack
  <2> QED
    BY <2>1, <2>2, <2>5 DEF PingDatagram
<1>3. ASSUME NEW d \in ForeignPackets PROVE d \in PingDatagram
  <2>1. d \in Datagram
    BY ForeignType
  <2>2. d.cmd = PING => d.len = 0
    <3>1. PING # 0
      BY DEF PING, UD_SVC, ChnCtrl
    <3> QED
      BY <3>1, PingReserved DEF ForeignPackets, ForeignPacket
  <2> QED
    BY <2>1, <2>2 DEF PingDatagram
<1> QED
  BY <1>1, <1>2, <1>3 DEF Carries, PongInv

-----------------------------------------------------------------------------
(* Reading and answering *)

\* Reading the next datagram owes at most the answer to the PING it is.
LEMMA LoadOwes ==
  ASSUME NEW r \in RecvState, r.nrd = 0, PingsRead(r), NEW d \in PingDatagram
  PROVE  PingsRead(Load(r, d)) /\ Owed(Load(r, d)) <= PingsIn(d)
<1> DEFINE b == Overlay(d.buf, d.len, r.buf)
           l == Load(r, d)
<1>1. d \in Datagram /\ r.nck = 0
  BY DEF PingDatagram, PingsRead
<1>2. l.nck = 0 /\ l.cmd = d.cmd /\ l.buf = b /\ l.nrd = (IF d.good THEN d.len ELSE 0)
  BY <1>1 DEF Load
<1>3. d.len > 0 => b[0] = d.buf[0]
  BY <1>1 DEF Overlay, Offs, Datagram
<1>4. d.len \in Nat
  BY <1>1 DEF Datagram
<1> HIDE DEF l, b
<1>5. Owing(l) => d.good /\ d.cmd = PING /\ d.len > 0
  BY <1>2, <1>4 DEF Owing
<1>6. Owing(l) => OnePack(b, l.nrd)
  BY <1>2, <1>3, <1>5 DEF OnePack, PingDatagram
<1>7. PingsRead(l)
  BY <1>2, <1>6 DEF PingsRead
<1>8. Owed(l) <= PingsIn(d)
  BY <1>5 DEF Owed, PingsIn
<1> QED
  BY <1>7, <1>8 DEF l

\* What a step can do to the PINGs of a socket: read the next datagram or
\* not, which makes the packet r and the number of PINGs read n ...
Reads(t, r, n) ==
  /\ \/ r = rcv[t] /\ n = 0
     \/ /\ rcv[t].nrd = 0 /\ inq[t] # <<>>
        /\ r = Load(rcv[t], Head(inq[t])) /\ n = PingsIn(Head(inq[t]))
  /\ pinged'[t] = pinged[t] + n

\* ... and then leave it ...
Leaves(t, r) ==
  /\ \/ rcv'[t] = r
     \/ rcv'[t] = Dropped(r) /\ (r.nck >= r.nrd \/ "dscrd" \in Calls)
  /\ ponged'[t] = ponged[t]

\* ... or look at its next pack.
Looks(t, r) ==
  /\ r.nck < r.nrd
  /\ \/ ponged'[t] = ponged[t] /\ (r.cmd # PING \/ "fail" \in Faults)
     \/ r.cmd = PING /\ ponged'[t] = ponged[t] + 1
  /\ \/ rcv'[t] = Dropped(r) /\ r.buf[r.nck].tag # "data"
     \/ rcv'[t] = [r EXCEPT !.nck = @ + PackSize(r.buf[r.nck].len)]

\* Looking at a pack.
LEMMA ParseLooks ==
  ASSUME TypeOK, NEW t \in Sock, NEW r, r.nck < r.nrd, NEW queues,
         NEW fok \in SendtoOK, NEW cok \in SendtoOK, Parse(t, r, queues, fok, cok)
  PROVE  Looks(t, r)
<1>1. \/ ponged'[t] = ponged[t] /\ (r.cmd # PING \/ "fail" \in Faults)
      \/ r.cmd = PING /\ ponged'[t] = ponged[t] + 1
  <2>0. ponged[t] \in Nat
    BY DEF TypeOK
  <2>1. CASE WantsPong(Aux(r).svc)
    <3>1. r.cmd = PING
      BY <2>1 DEF WantsPong, Aux
    <3>2. ponged'[t] = ponged[t] + (IF cok THEN 1 ELSE 0)
      BY <2>1 DEF Parse, TypeOK
    <3>3. cok \/ "fail" \in Faults
      BY DEF SendtoOK
    <3> QED
      BY <2>0, <3>1, <3>2, <3>3
  <2>2. CASE ~ WantsPong(Aux(r).svc)
    <3>1. r.cmd # PING
      BY <2>2, PingReserved DEF WantsPong, Aux
    <3> QED
      BY <2>2, <3>1 DEF Parse
  <2> QED
    BY <2>1, <2>2
<1>2. \/ rcv'[t] = Dropped(r) /\ r.buf[r.nck].tag # "data"
      \/ rcv'[t] = [r EXCEPT !.nck = @ + PackSize(r.buf[r.nck].len)]
  BY DEF Parse, TypeOK
<1> QED
  BY <1>1, <1>2 DEF Looks

\* It concerns nobody else's PINGs.
LEMMA ParseOther ==
  ASSUME TypeOK, NEW u \in Sock, NEW r, NEW queues, NEW fok, NEW cok,
         Parse(u, r, queues, fok, cok), NEW t \in Sock, t # u
  PROVE  rcv'[t] = rcv[t] /\ ponged'[t] = ponged[t]
BY DEF Parse, TypeOK

\* Every step.
LEMMA NextPongs ==
  ASSUME TypeOK, [Next]_vars, NEW t \in Sock
  PROVE  \E r, n : Reads(t, r, n) /\ (Leaves(t, r) \/ Looks(t, r))
<1>0. pinged[t] \in Nat
  BY DEF TypeOK
<1>1. ASSUME rcv'[t] = rcv[t], pinged'[t] = pinged[t], ponged'[t] = ponged[t]
      PROVE  \E r, n : Reads(t, r, n) /\ Leaves(t, r)
  <2>1. Reads(t, rcv[t], 0)
    BY <1>0, <1>1 DEF Reads
  <2> QED
    BY <1>1, <2>1 DEF Leaves
<1>2. ASSUME NEW u \in Sock, ChckMsg(u)
      PROVE  \E r, n : Reads(t, r, n) /\ (Leaves(t, r) \/ Looks(t, r))
  <2>1. ASSUME NEW fok \in SendtoOK, NEW cok \in SendtoOK, ChckNext(u, fok, cok)
        PROVE  \E r, n : Reads(t, r, n) /\ (Leaves(t, r) \/ Looks(t, r))
    <3>0. /\ rcv[u].nck < rcv[u].nrd /\ Parse(u, rcv[u], inq, fok, cok)
          /\ pinged' = pinged
      BY <2>1 DEF ChckNext
    <3>1. CASE u = t
      <4>1. Looks(t, rcv[t])
        BY <3>0, <3>1, ParseLooks, SendtoType
      <4>2. Reads(t, rcv[t], 0)
        BY <1>0, <3>0 DEF Reads
      <4> QED
        BY <4>1, <4>2
    <3>2. CASE u # t
      BY <1>1, <3>0, <3>2, ParseOther
    <3> QED
      BY <3>1, <3>2
  <2>2. ASSUME NEW fok \in SendtoOK, NEW cok \in SendtoOK, ChckFresh(u, fok, cok)
        PROVE  \E r, n : Reads(t, r, n) /\ (Leaves(t, r) \/ Looks(t, r))
    <3> DEFINE r == Load(rcv[u], Head(inq[u]))
               n == PingsIn(Head(inq[u]))
               queues == [inq EXCEPT ![u] = Tail(@)]
    <3>1. \/ r.nck < r.nrd /\ Parse(u, r, queues, fok, cok)
          \/ rcv' = [rcv EXCEPT ![u] = r] /\ UNCHANGED ponged
      BY <2>2 DEF ChckFresh
    <3>2. /\ inq[u] # <<>> /\ rcv[u].nrd = 0
          /\ pinged' = [pinged EXCEPT ![u] = @ + n]
      BY <2>2 DEF ChckFresh
    <3>3. CASE u = t
      <4>0. pinged'[t] = pinged[t] + n
        BY <3>2, <3>3 DEF TypeOK
      <4>1. Reads(t, r, n)
        BY <3>2, <3>3, <4>0 DEF Reads
      <4> HIDE DEF r, n, queues
      <4>2. CASE r.nck < r.nrd /\ Parse(u, r, queues, fok, cok)
        <5>1. Looks(t, r)
          BY <3>3, <4>2, ParseLooks, SendtoType
        <5> QED
          BY <4>1, <5>1
      <4>3. CASE rcv' = [rcv EXCEPT ![u] = r] /\ UNCHANGED ponged
        <5>1. Leaves(t, r)
          BY <3>3, <4>3 DEF Leaves, TypeOK
        <5> QED
          BY <4>1, <5>1
      <4> QED
        BY <3>1, <4>2, <4>3
    <3>4. CASE u # t
      <4> HIDE DEF r, n, queues
      <4>1. rcv'[t] = rcv[t] /\ ponged'[t] = ponged[t]
        BY <3>1, <3>4, ParseOther DEF TypeOK
      <4>2. pinged'[t] = pinged[t]
        BY <3>2, <3>4 DEF TypeOK
      <4> QED
        BY <1>1, <4>1, <4>2
    <3> QED
      BY <3>3, <3>4
  <2>3. CASE ChckEnd(u)
    <3>1. Reads(t, rcv[t], 0)
      BY <1>0, <2>3 DEF ChckEnd, Reads
    <3>2. Leaves(t, rcv[t])
      BY <2>3 DEF ChckEnd, Leaves, TypeOK
    <3> QED
      BY <3>1, <3>2
  <2> QED
    BY <1>2, <2>1, <2>2, <2>3 DEF ChckMsg
<1>3. ASSUME NEW u \in Sock, Dscrd(u)
      PROVE  \E r, n : Reads(t, r, n) /\ Leaves(t, r)
  <2>1. ponged' = ponged
    BY <1>3 DEF Dscrd
  <2>2. CASE u # t
    <3>1. rcv'[t] = rcv[t] /\ pinged'[t] = pinged[t]
      BY <1>3, <2>2 DEF Dscrd, TypeOK
    <3> QED
      BY <1>1, <2>1, <3>1
  <2>3. CASE u = t
    <3> DEFINE r == Load(rcv[t], Head(inq[t]))
               n == PingsIn(Head(inq[t]))
    <3>1. CASE /\ rcv[t].nrd = 0 /\ inq[t] # <<>>
               /\ rcv' = [rcv EXCEPT ![t] = Load(@, Head(inq[t]))]
               /\ pinged' = [pinged EXCEPT ![t] = @ + PingsIn(Head(inq[t]))]
      <4>1. rcv'[t] = r /\ pinged'[t] = pinged[t] + n
        BY <3>1 DEF TypeOK
      <4>2. Reads(t, r, n)
        BY <3>1, <4>1 DEF Reads
      <4> QED
        BY <2>1, <4>1, <4>2 DEF Leaves
    <3>2. CASE rcv' = [rcv EXCEPT ![t] = Dropped(@)] /\ pinged' = pinged
      <4>1. Reads(t, rcv[t], 0)
        BY <1>0, <3>2 DEF Reads
      <4>2. Leaves(t, rcv[t])
        BY <1>3, <2>1, <3>2 DEF Leaves, TypeOK, Dscrd
      <4> QED
        BY <4>1, <4>2
    <3> QED
      BY <1>3, <2>3, <3>1, <3>2 DEF Dscrd
  <2> QED
    BY <2>2, <2>3
<1>4. CASE \/ \E s \in Pubs : Publish(s)
           \/ \E s \in Pingers, fok, cok \in SendtoOK : SendPing(s, fok, cok)
           \/ \E u \in Subs : Network(u)
           \/ UNCHANGED vars
  <2>1. UNCHANGED <<rcv, pinged, ponged>>
    <3>1. CASE \E s \in Pubs : Publish(s)
      <4>1. ASSUME NEW s, NEW svc, NEW dlen, NEW ok, PackMsg(s, svc, dlen, ok)
            PROVE  UNCHANGED <<rcv, pinged, ponged>>
        BY <4>1 DEF PackMsg
      <4>2. ASSUME NEW s, NEW ok, Flush(s, ok)
            PROVE  UNCHANGED <<rcv, pinged, ponged>>
        BY <4>2 DEF Flush
      <4> QED
        BY <3>1, <4>1, <4>2 DEF Publish
    <3>2. CASE \E s \in Pingers, fok, cok \in SendtoOK : SendPing(s, fok, cok)
      BY <3>2 DEF SendPing
    <3>3. CASE \E u \in Subs : Network(u)
      BY <3>3 DEF Network, Lose, Duplicate, Reorder, ForeignSend, Misbehave
    <3>4. CASE UNCHANGED vars
      BY <3>4 DEF vars
    <3> QED
      BY <1>4, <3>1, <3>2, <3>3, <3>4
  <2> QED
    BY <1>1, <2>1
<1> QED
  BY <1>2, <1>3, <1>4 DEF Next

-----------------------------------------------------------------------------
(* The invariant is one *)

\* A packet looked at is not answered again.
LEMMA LooksOnce ==
  ASSUME TypeOK, NEW t \in Sock, NEW r \in RecvState, PingsRead(r), Looks(t, r)
  PROVE  /\ PingsRead(rcv'[t])
         /\ ponged'[t] + Owed(rcv'[t]) <= ponged[t] + Owed(r)
<1> DEFINE z == r.buf[r.nck].len
<1>0. ponged[t] \in Nat /\ r.nck < r.nrd /\ r.nck \in Nat /\ r.nrd \in Nat
  BY DEF TypeOK, Looks, RecvState
<1>1. ponged'[t] <= ponged[t] + Owed(r)
  BY <1>0 DEF Looks, Owed, Owing
<1>2. CASE rcv'[t] = Dropped(r)
  <2>1. rcv'[t].nrd = 0 /\ rcv'[t].nck = 0
    BY <1>2 DEF Dropped, RecvState
  <2> QED
    BY <1>0, <1>1, <2>1 DEF PingsRead, Owed, Owing, Looks
<1>3. CASE rcv'[t] = [r EXCEPT !.nck = @ + PackSize(z)]
  <2>1. /\ rcv'[t].nck = r.nck + PackSize(z) /\ rcv'[t].nrd = r.nrd
        /\ rcv'[t].cmd = r.cmd
    BY <1>3 DEF RecvState
  <2>2. z \in Nat
    <3>1. r.nck \in Offs /\ r.buf \in Buffer
      BY <1>0 DEF RecvState, Offs
    <3> QED
      BY <3>1 DEF Buffer, Cell, Byte
  <2>3. r.cmd = PING => r.nck = 0 /\ r.nrd = PackSize(z)
    BY <1>0 DEF PingsRead, Owing, OnePack
  <2> HIDE DEF z
  <2>4. ~ Owing(rcv'[t])
    <3>1. CASE r.cmd = PING
      BY <2>1, <2>2, <2>3, <3>1 DEF Owing, PackSize
    <3>2. CASE r.cmd # PING
      BY <2>1, <3>2 DEF Owing
    <3> QED
      BY <3>1, <3>2
  <2>5. PingsRead(rcv'[t])
    BY <1>0, <2>1, <2>4 DEF PingsRead
  <2>6. Owed(rcv'[t]) = 0
    BY <2>4 DEF Owed
  <2>7. ponged'[t] \in Nat
    BY <1>0 DEF Looks
  <2> QED
    BY <1>1, <2>5, <2>6, <2>7
<1> QED
  BY <1>2, <1>3 DEF Looks

\* Nor is one that is left.
LEMMA LeavesOnce ==
  ASSUME TypeOK, NEW t \in Sock, NEW r \in RecvState, PingsRead(r), Leaves(t, r)
  PROVE  /\ PingsRead(rcv'[t])
         /\ ponged'[t] + Owed(rcv'[t]) <= ponged[t] + Owed(r)
<1>0. ponged[t] \in Nat /\ Owed(r) \in {0, 1}
  BY DEF TypeOK, Owed
<1>1. CASE rcv'[t] = r
  BY <1>0, <1>1 DEF Leaves
<1>2. CASE rcv'[t] = Dropped(r)
  <2>1. rcv'[t].nrd = 0 /\ rcv'[t].nck = 0
    BY <1>2 DEF Dropped, RecvState
  <2>2. Owed(rcv'[t]) = 0 /\ PingsRead(rcv'[t])
    BY <2>1 DEF Owed, Owing, PingsRead
  <2> QED
    BY <1>0, <2>2 DEF Leaves
<1> QED
  BY <1>1, <1>2 DEF Leaves

\* What is read, or was, owes what it owed or what has been read.
LEMMA ReadsOwe ==
  ASSUME TypeOK, PongInv, NEW t \in Sock, NEW r, NEW n, Reads(t, r, n)
  PROVE  /\ r \in RecvState /\ PingsRead(r) /\ n \in Nat
         /\ Owed(r) <= Owed(rcv[t]) + n
<1>0. rcv[t] \in RecvState /\ PingsRead(rcv[t]) /\ Owed(rcv[t]) \in {0, 1}
  BY DEF TypeOK, PongInv, Owed
<1>1. CASE r = rcv[t] /\ n = 0
  BY <1>0, <1>1
<1>2. CASE /\ rcv[t].nrd = 0 /\ inq[t] # <<>>
           /\ r = Load(rcv[t], Head(inq[t])) /\ n = PingsIn(Head(inq[t]))
  <2> DEFINE d == Head(inq[t])
  <2>1. d \in PingDatagram
    BY <1>2, DequeueType DEF PongInv
  <2>2. d \in Datagram
    BY <2>1 DEF PingDatagram
  <2> HIDE DEF d
  <2>3. r \in RecvState
    BY <1>0, <1>2, <2>2, LoadType DEF d
  <2>4. PingsRead(r) /\ Owed(r) <= n
    BY <1>0, <1>2, <2>1, LoadOwes DEF d
  <2>5. n \in Nat /\ Owed(r) \in {0, 1}
    BY <1>2, PingsInType DEF Owed
  <2> QED
    BY <1>0, <2>3, <2>4, <2>5
<1> QED
  BY <1>1, <1>2 DEF Reads

\* A step keeps the invariant.
LEMMA NextPongInv == TypeOK /\ PongInv /\ [Next]_vars => PongInv'
<1> SUFFICES ASSUME TypeOK, PongInv, [Next]_vars PROVE PongInv'
  OBVIOUS
<1>1. inq' \in [Sock -> Seq(PingDatagram)]
  BY PingCarries, NextQueues
<1>2. \A s \in Sock : snd'[s].npk > 0 => snd'[s].svc # PING
  BY NextNoPingPacked
<1>3. ASSUME NEW t \in Sock
      PROVE  PingsRead(rcv'[t]) /\ ponged'[t] + Owed(rcv'[t]) <= pinged'[t]
  <2>1. PICK r, n : Reads(t, r, n) /\ (Leaves(t, r) \/ Looks(t, r))
    BY NextPongs
  <2>2. /\ r \in RecvState /\ PingsRead(r) /\ n \in Nat
        /\ Owed(r) <= Owed(rcv[t]) + n
    BY <2>1, ReadsOwe
  <2>3. /\ PingsRead(rcv'[t])
        /\ ponged'[t] + Owed(rcv'[t]) <= ponged[t] + Owed(r)
    BY <2>1, <2>2, LeavesOnce, LooksOnce
  <2>4. pinged'[t] = pinged[t] + n
    BY <2>1 DEF Reads
  <2>5. /\ ponged[t] + Owed(rcv[t]) <= pinged[t]
        /\ ponged[t] \in Nat /\ pinged[t] \in Nat
        /\ Owed(r) \in {0, 1} /\ Owed(rcv[t]) \in {0, 1} /\ Owed(rcv'[t]) \in {0, 1}
    BY DEF PongInv, TypeOK, Owed
  <2>6. ponged'[t] \in Nat
    BY <2>1, <2>5 DEF Leaves, Looks
  <2> QED
    BY <2>2, <2>3, <2>4, <2>5, <2>6
<1> QED
  BY <1>1, <1>2, <1>3 DEF PongInv

\* It holds when nothing has been sent or read.
LEMMA InitPongInv == Init => PongInv
<1> SUFFICES ASSUME Init PROVE PongInv
  OBVIOUS
<1>1. \A s \in Sock : snd[s].npk = 0
  BY DEF Init
<1>2. inq \in [Sock -> Seq(PingDatagram)]
  BY DEF Init
<1>3. ASSUME NEW t \in Sock
      PROVE  PingsRead(rcv[t]) /\ ponged[t] + Owed(rcv[t]) <= pinged[t]
  <2>1. /\ rcv[t].nrd = 0 /\ rcv[t].nck = 0
        /\ ponged[t] = 0 /\ pinged[t] = 0
    BY DEF Init
  <2>2. Owed(rcv[t]) = 0
    BY <2>1 DEF Owed, Owing
  <2> QED
    BY <2>1, <2>2 DEF PingsRead, Owing
<1> QED
  BY <1>1, <1>2, <1>3 DEF PongInv

\* PONGs answer PINGs only and a PING is answered at most once, for any
\* number of sockets that answer each other, on every network.
THEOREM NoUnsolicitedPongCorrect == Spec => []NoUnsolicitedPong
<1>1. TypeOK /\ PongInv => NoUnsolicitedPong
  <2> SUFFICES ASSUME TypeOK, PongInv, NEW t \in Sock
               PROVE  ponged[t] <= pinged[t]
    BY DEF NoUnsolicitedPong
  <2>1. /\ ponged[t] + Owed(rcv[t]) <= pinged[t]
        /\ ponged[t] \in Nat /\ pinged[t] \in Nat /\ Owed(rcv[t]) \in {0, 1}
    BY DEF PongInv, TypeOK, Owed
  <2> QED
    BY <2>1
<1> QED
  BY <1>1, InitType, NextType, InitPongInv, NextPongInv, PTL DEF Spec

-----------------------------------------------------------------------------
(* Every PING is answered.  This is about networks on which nobody sends    *)
(* PINGs without payload, sockets that can send, and programs that do not   *)
(* discard what they read.                                                  *)

Plain == {"fail", "foreign"} \cap Faults = {} /\ "dscrd" \notin Calls

AnswerDatagram ==
  {d \in PingDatagram : d.cmd = PING => d.good /\ d.len > 0}

AnswerInv ==
  /\ inq \in [Sock -> Seq(AnswerDatagram)]
  /\ \A t \in Sock : pinged[t] <= ponged[t] + Owed(rcv[t])

\* No PING is too short to be looked at.
LEMMA AnswerCarries ==
  ASSUME Plain, TypeOK, PongInv, AnswerInv
  PROVE  Carries(AnswerDatagram)
<1>1. Carries(PingDatagram)
  BY PingCarries
<1>2. ASSUME NEW s \in Sock, snd[s].npk > 0
      PROVE  DataPacket(s, snd[s]) \in AnswerDatagram
  <2>1. DataPacket(s, snd[s]).cmd # PING
    BY <1>2 DEF PongInv, DataPacket
  <2> QED
    BY <1>1, <1>2, <2>1 DEF Carries, AnswerDatagram
<1>3. ASSUME NEW s \in Sock, NEW q \in SendState, NEW cmd \in {PING, PONG}
      PROVE  CtrlPacket(s, q, cmd) \in AnswerDatagram
  <2>1. CtrlPacket(s, q, cmd).good /\ CtrlPacket(s, q, cmd).len = PackSize(PingLen)
    BY DEF CtrlPacket
  <2>2. PackSize(PingLen) > 0
    BY DEF PackSize
  <2>3. CtrlPacket(s, q, cmd) \in PingDatagram
    BY <1>1 DEF Carries
  <2> HIDE DEF CtrlPacket
  <2> QED
    BY <2>1, <2>2, <2>3 DEF AnswerDatagram
<1> QED
  BY <1>2, <1>3 DEF Carries, Plain, AnswerInv

\* What is read owes the answer it can be given.
LEMMA ReadsAsk ==
  ASSUME TypeOK, PongInv, AnswerInv, NEW t \in Sock, NEW r, NEW n, Reads(t, r, n)
  PROVE  Owed(rcv[t]) + n <= Owed(r)
<1>1. CASE r = rcv[t] /\ n = 0
  BY <1>1 DEF Owed
<1>2. CASE /\ rcv[t].nrd = 0 /\ inq[t] # <<>>
           /\ r = Load(rcv[t], Head(inq[t])) /\ n = PingsIn(Head(inq[t]))
  <2> DEFINE d == Head(inq[t])
  <2>1. d \in AnswerDatagram
    BY <1>2, DequeueType DEF AnswerInv
  <2>2. Owed(rcv[t]) = 0
    BY <1>2 DEF PongInv, PingsRead, Owed, Owing
  <2> HIDE DEF d
  <2>3. n = PingsIn(d) /\ r = Load(rcv[t], d)
    BY <1>2 DEF d
  <2>4. CASE d.good /\ d.cmd = PING
    <3>1. r.nck = 0 /\ r.nrd = d.len /\ r.cmd = PING /\ d.len > 0
      BY <2>1, <2>3, <2>4 DEF AnswerDatagram, Load
    <3> QED
      BY <2>2, <2>3, <2>4, <3>1 DEF PingsIn, Owed, Owing
  <2>5. CASE ~ (d.good /\ d.cmd = PING)
    BY <2>2, <2>3, <2>5 DEF PingsIn, Owed
  <2> QED
    BY <2>4, <2>5
<1> QED
  BY <1>1, <1>2 DEF Reads

LEMMA NextAnswerInv ==
  ASSUME Plain, TypeOK, PongInv, AnswerInv, [Next]_vars
  PROVE  AnswerInv'
<1>1. inq' \in [Sock -> Seq(AnswerDatagram)]
  BY AnswerCarries, NextQueues
<1>2. ASSUME NEW t \in Sock
      PROVE  pinged'[t] <= ponged'[t] + Owed(rcv'[t])
  <2>1. PICK r, n : Reads(t, r, n) /\ (Leaves(t, r) \/ Looks(t, r))
    BY NextPongs
  <2>2. n \in Nat /\ Owed(rcv[t]) + n <= Owed(r) /\ pinged'[t] = pinged[t] + n
    BY <2>1, ReadsAsk, ReadsOwe DEF Reads
  <2>3. /\ ponged[t] \in Nat /\ pinged[t] \in Nat /\ ponged'[t] \in Nat
        /\ Owed(r) \in {0, 1} /\ Owed(rcv[t]) \in {0, 1} /\ Owed(rcv'[t]) \in {0, 1}
        /\ pinged[t] <= ponged[t] + Owed(rcv[t])
    BY <2>1, SMTT(30) DEF TypeOK, Owed, Leaves, Looks, AnswerInv
  <2>4. ponged[t] + Owed(r) <= ponged'[t] + Owed(rcv'[t])
    <3>1. CASE rcv'[t] = r /\ ponged'[t] = ponged[t]
      BY <2>3, <3>1
    <3>2. CASE r.nck >= r.nrd /\ ponged'[t] = ponged[t]
      <4>1. r \in RecvState
        BY <2>1, ReadsOwe
      <4>2. ~ Owing(r)
        BY <3>2, <4>1 DEF Owing, RecvState
      <4> QED
        BY <2>3, <3>2, <4>2 DEF Owed
    <3>3. CASE r.cmd # PING /\ ponged'[t] = ponged[t]
      BY <2>3, <3>3 DEF Owed, Owing
    <3>4. CASE ponged'[t] = ponged[t] + 1
      BY <2>3, <3>4
    <3> QED
      BY <2>1, <3>1, <3>2, <3>3, <3>4 DEF Leaves, Looks, Plain
  <2> QED
    BY <2>2, <2>3, <2>4
<1> QED
  BY <1>1, <1>2 DEF AnswerInv

LEMMA InitAnswerInv == Init => AnswerInv
<1> SUFFICES ASSUME Init PROVE AnswerInv
  OBVIOUS
<1>1. inq \in [Sock -> Seq(AnswerDatagram)]
  BY DEF Init
<1>2. ASSUME NEW t \in Sock PROVE pinged[t] <= ponged[t] + Owed(rcv[t])
  <2>1. rcv[t].nrd = 0 /\ rcv[t].nck = 0 /\ ponged[t] = 0 /\ pinged[t] = 0
    BY DEF Init
  <2> QED
    BY <2>1 DEF Owed, Owing
<1> QED
  BY <1>1, <1>2 DEF AnswerInv

\* A socket that has read its packets has answered every PING among them, on
\* networks that lose, double and reorder datagrams, if sending works, nobody
\* sends PINGs without payload and the application discards nothing.
THEOREM EveryPingAnsweredCorrect == Plain => (Spec => []EveryPingAnswered)
<1> SUFFICES ASSUME Plain PROVE Spec => []EveryPingAnswered
  OBVIOUS
<1>1. TypeOK /\ PongInv /\ AnswerInv => EveryPingAnswered
  <2> SUFFICES ASSUME TypeOK, PongInv, AnswerInv, NEW t \in Subs, rcv[t].nck >= rcv[t].nrd
               PROVE  ponged[t] = pinged[t]
    BY DEF EveryPingAnswered
  <2>1. t \in Sock
    BY DEF CoreAssumption
  <2>2. Owed(rcv[t]) = 0
    BY <2>1, SMTT(30) DEF Owed, Owing, TypeOK, RecvState
  <2> QED
    BY <2>1, <2>2 DEF PongInv, AnswerInv, TypeOK
<1>2. TypeOK /\ PongInv /\ AnswerInv /\ [Next]_vars => AnswerInv'
  BY NextAnswerInv
<1> QED
  BY <1>1, <1>2, InitType, NextType, InitPongInv, NextPongInv, InitAnswerInv, PTL DEF Spec
=============================================================================
