--------------------------- MODULE UdBridge_proofs ---------------------------
(***************************************************************************)
(* Router and dealer keep track of their connections, the router does not  *)
(* hurry, and nothing is published twice or out of its place, for any      *)
(* number of connections, slots and datagrams.                             *)
(***************************************************************************)
EXTENDS UdBridge, SequenceTheorems, WellFoundedInduction, TLAPS

USE LinkAssumption, RouterAssumption, DealerAssumption

-----------------------------------------------------------------------------
(* Attempts to connect *)

TriesInv ==
  /\ now \in Nat /\ last_reco \in Nat /\ tries \in Nat
  /\ tries <= last_reco /\ last_reco <= now

LEMMA TriesInit == Init => TriesInv
BY DEF Init, RouterInit, TriesInv

LEMMA TriesNext == TriesInv /\ [Next]_vars => TriesInv'
<1> SUFFICES ASSUME TriesInv, [Next]_vars PROVE TriesInv'
  OBVIOUS
<1>1. CASE UNCHANGED <<now, last_reco, tries>>
  BY <1>1 DEF TriesInv
<1>2. CASE ChkCb
  BY <1>2 DEF ChkCb, Reconnect, TriesInv
<1>3. CASE Tick
  BY <1>3 DEF Tick, TriesInv
<1>4. CASE Arrive \/ (\E sig \in {{}, {"sig"}} : Poll(sig)) \/ RtrCb \/ SubCb \/ Down
  BY <1>1, <1>4 DEF Arrive, Poll, RtrCb, SubCb, Down
<1>5. CASE UNCHANGED rvars \/ UNCHANGED vars
  BY <1>1, <1>5 DEF vars, rvars
<1> QED
  BY <1>2, <1>3, <1>4, <1>5 DEF Next, RouterNext, Loop

\* The router tries for a connection once a second at most.
THEOREM OneTryASecondCorrect == Spec => []OneTryASecond
<1>1. TriesInv => OneTryASecond
  BY DEF TriesInv, OneTryASecond
<1> QED
  BY <1>1, TriesInit, TriesNext, PTL DEF Spec

-----------------------------------------------------------------------------
(* Types *)

Conns == [Conn -> ConnState]
Stream == IF proto = "tcp" THEN Seq(Byte) ELSE Seq(Seq(Byte))

\* A callback that is to run for the subscriber's socket has a datagram.
SubWaits == "sub" \in pend => subq # <<>>

BridgeType == TypeOK /\ SubWaits

LEMMA BytesType == ASSUME NEW d \in Dgram PROVE Bytes(d) \in Seq(Byte)
<1>1. <<d, 1, 0>> \in Byte /\ <<d, 2, 0>> \in Byte
  BY DEF Byte
<1> QED
  BY <1>1 DEF Bytes

LEMMA SentType ==
  ASSUME NEW d \in Dgram, NEW n \in 0 .. MAX_RETR, NEW all \in BOOLEAN
  PROVE  Sent(d, n, all) \in Seq(Byte)
<1>1. [i \in 1 .. n |-> <<d, 1, i>>] \in Seq(Byte)
  <2>1. \A i \in 1 .. n : <<d, 1, i>> \in Byte
    BY DEF Byte
  <2>2. n \in Nat
    OBVIOUS
  <2> QED
    BY <2>1, <2>2
<1>2. (IF all THEN Bytes(d) ELSE <<>>) \in Seq(Byte)
  BY BytesType, EmptySeq
<1> QED
  BY <1>1, <1>2, ConcatProperties DEF Sent

\* What is left of a sequence is one.
LEMMA RemoveAtType ==
  ASSUME NEW S, NEW s \in Seq(S), NEW k \in DOMAIN s
  PROVE  RemoveAt(s, k) \in Seq(S)
<1>1. k \in 1 .. Len(s) /\ Len(s) \in Nat /\ \A x \in 1 .. Len(s) : s[x] \in S
  BY LenProperties, ElementOfSeq
<1>2. SubSeq(s, 1, k - 1) \in Seq(S)
  BY <1>1, SubSeqProperties
<1>3. SubSeq(s, k + 1, Len(s)) \in Seq(S)
  BY <1>1, SubSeqProperties
<1> QED
  BY <1>2, <1>3, ConcatProperties DEF RemoveAt

LEMMA PieceType ==
  ASSUME NEW S, NEW s \in Seq(S), NEW m \in Nat \ {0}, NEW n \in 0 .. Len(s)
  PROVE  SubSeq(s, m, n) \in Seq(S)
<1>1. Len(s) \in Nat /\ \A x \in 1 .. Len(s) : s[x] \in S
  BY LenProperties, ElementOfSeq
<1> QED
  BY <1>1, SubSeqProperties

\* A sequence but for as many elements at its end as another has
LEMMA FrontType ==
  ASSUME NEW S, NEW s \in Seq(S), NEW t \in Seq(S)
  PROVE  SubSeq(s, 1, Len(s) - Len(t)) \in Seq(S)
<1> DEFINE m == Len(s) - Len(t)
<1>1. Len(s) \in Nat /\ m \in Int /\ m <= Len(s) /\ \A x \in 1 .. Len(s) : s[x] \in S
  BY LenProperties, ElementOfSeq
<1> HIDE DEF m
<1>2. \A x \in 1 .. m : s[x] \in S
  BY <1>1
<1>3. SubSeq(s, 1, m) \in Seq(S)
  BY <1>1, <1>2, SubSeqProperties
<1> QED
  BY <1>3 DEF m

\* Connections stay connections when a part of one is set.
LEMMA EditType ==
  ASSUME NEW f \in Conns, NEW c \in Conn
  PROVE  /\ \A x \in {"none", "open", "closed", "other"} : [f EXCEPT ![c].r = x] \in Conns
         /\ \A x \in {"none", "queued", "open", "closed"} : [f EXCEPT ![c].d = x] \in Conns
         /\ \A x \in Stream : [f EXCEPT ![c].stream = x] \in Conns
         /\ \A x \in BOOLEAN : [f EXCEPT ![c].err = x] \in Conns
         /\ f[c] \in ConnState /\ f[c].stream \in Stream /\ f[c].err \in BOOLEAN
<1>1. f[c] \in ConnState /\ \A v \in ConnState : [f EXCEPT ![c] = v] \in Conns
  BY DEF Conns
<1>2. f[c].stream \in Stream /\ f[c].err \in BOOLEAN
  BY <1>1 DEF ConnState, Stream
<1>3. \A x \in {"none", "open", "closed", "other"} : [f[c] EXCEPT !.r = x] \in ConnState
  BY <1>1 DEF ConnState
<1>4. \A x \in {"none", "queued", "open", "closed"} : [f[c] EXCEPT !.d = x] \in ConnState
  BY <1>1 DEF ConnState
<1>5. \A x \in Stream : [f[c] EXCEPT !.stream = x] \in ConnState
  BY <1>1 DEF ConnState, Stream
<1>6. \A x \in BOOLEAN : [f[c] EXCEPT !.err = x] \in ConnState
  BY <1>1 DEF ConnState
<1> QED
  BY <1>1, <1>2, <1>3, <1>4, <1>5, <1>6

LEMMA NoBytesType == <<>> \in Stream
BY EmptySeq DEF Stream

\* Closing an end, the dealer's, every open one of the router's, or the
\* dealer's with all it has accepted, leaves connections.
LEMMA ShutType ==
  ASSUME conn \in Conns
  PROVE  /\ \A c \in Conn, e \in BOOLEAN :
              [conn EXCEPT ![c].d = "closed", ![c].stream = <<>>, ![c].err = @ \/ e] \in Conns
         /\ \A c \in Conn : DealerShut(c) \in Conns
         /\ RouterGone \in Conns
<1>1. ASSUME NEW c \in Conn, NEW e \in BOOLEAN
      PROVE  [conn EXCEPT ![c].d = "closed", ![c].stream = <<>>, ![c].err = @ \/ e] \in Conns
  <2> DEFINE f == [conn EXCEPT ![c].d = "closed"]
             g == [f EXCEPT ![c].stream = <<>>]
             h == [g EXCEPT ![c].err = @ \/ e]
  <2>1. f \in Conns
    BY EditType
  <2>2. g \in Conns
    <3> HIDE DEF f
    <3> QED
      BY <2>1, NoBytesType, EditType
  <2>3. h \in Conns
    <3> HIDE DEF g
    <3>1. g[c].err \in BOOLEAN
      BY <2>2, EditType
    <3>2. (g[c].err \/ e) \in BOOLEAN
      BY <3>1
    <3> QED
      BY <2>2, <3>2, EditType
  <2> QED
    BY <2>3
<1>2. ASSUME NEW c \in Conn PROVE DealerShut(c) \in Conns
  BY <1>1 DEF DealerShut
<1>3. RouterGone \in Conns
  <2>1. \A c \in Conn : conn[c] \in ConnState /\ [conn[c] EXCEPT !.r = "closed"] \in ConnState
    BY DEF Conns, ConnState
  <2> QED
    BY <2>1 DEF RouterGone, Conns
<1> QED
  BY <1>1, <1>2, <1>3

\* Nor does sending on one.
LEMMA SendType ==
  ASSUME conn \in Conns, NEW c \in Conn, NEW v \in Seq(Byte)
  PROVE  SendOn(c, v) \in Conns
<1>1. CASE proto = "tcp"
  <2>1. conn[c].stream \in Seq(Byte) /\ conn[c].stream \o v \in Seq(Byte)
    BY <1>1, EditType, ConcatProperties DEF Stream
  <2> QED
    BY <1>1, <2>1, EditType DEF SendOn, Stream
<1>2. CASE proto # "tcp"
  <2>1. conn[c].stream \in Seq(Seq(Byte)) /\ Append(conn[c].stream, v) \in Seq(Seq(Byte))
    BY <1>2, EditType, AppendProperties DEF Stream
  <2> DEFINE f == [conn EXCEPT ![c].stream = Append(@, v)]
  <2>2. f \in Conns
    BY <1>2, <2>1, EditType DEF Stream
  <2>3. [f EXCEPT ![c].err = FALSE] \in Conns
    <3> HIDE DEF f
    <3> QED
      BY <2>2, EditType
  <2>4. [conn EXCEPT ![c].err = TRUE] \in Conns
    BY EditType
  <2> QED
    BY <1>2, <2>3, <2>4 DEF SendOn
<1> QED
  BY <1>1, <1>2

LEMMA TypeInit == Init => BridgeType
<1> SUFFICES ASSUME Init PROVE BridgeType
  OBVIOUS
<1>1. conn \in [Conn -> ConnState]
  BY NoBytesType DEF Init, LinkInit, NoConn, ConnState, Stream
<1>2. subq \in Seq(Dgram) /\ taken \in Seq(Dgram) /\ pipe \in Seq(Byte)
      /\ piped \in Seq(Byte) /\ published \in Seq(Seq(Byte))
  BY EmptySeq DEF Init, RouterInit, DealerInit
<1> QED
  BY <1>1, <1>2
  DEF Init, LinkInit, RouterInit, DealerInit, BridgeType, TypeOK, SubWaits, Fd, Slot

\* What of the types an action touches
ConnTyped == UNCHANGED proto /\ conn' \in Conns
LEMMA ConnTypes ==
  ASSUME BridgeType
  PROVE  conn \in Conns /\ (ConnTyped => (conn \in [Conn -> ConnState])')
BY DEF BridgeType, TypeOK, ConnTyped, Conns, ConnState

LEMMA ReconnectType ==
  ASSUME BridgeType, NEW c \in Conn, Reconnect(c), UNCHANGED proto
  PROVE  /\ conn' \in Conns /\ dst' \in Fd /\ rtr' \in [fd : Fd, active : BOOLEAN]
         /\ life' \in {"up", "killed"} \cup {life}
         /\ last_reco' \in 0 .. MaxTime /\ tries' \in Nat
<1>1. conn \in Conns
  BY ConnTypes
<1>2. RouterSocket(c)
  BY DEF Reconnect
<1>3. conn' \in Conns /\ dst' \in Fd /\ life' \in {"up", "killed"} \cup {life}
  <2>1. CASE ConnectOK(c) /\ dst' = c /\ UNCHANGED life
    <3>1. [conn EXCEPT ![c].r = "open"] \in Conns
      BY <1>1, EditType
    <3>2. [conn EXCEPT ![c].r = "open", ![c].d = "queued"] \in Conns
      <4> DEFINE f == [conn EXCEPT ![c].r = "open"]
      <4>1. f \in Conns
        BY <3>1
      <4>2. [f EXCEPT ![c].d = "queued"] \in Conns
        <5> HIDE DEF f
        <5> QED
          BY <4>1, EditType
      <4> QED
        BY <4>2
    <3> QED
      BY <2>1, <3>1, <3>2 DEF ConnectOK, Fd
  <2>2. CASE dst' \in {None, 0} /\ UNCHANGED <<conn, life>>
    BY <2>2, <1>1 DEF Fd
  <2>3. CASE life' = "killed" /\ conn' = RouterGone /\ UNCHANGED dst
    BY <2>3, <1>1, ShutType DEF BridgeType, TypeOK
  <2> QED
    BY <1>2, <2>1, <2>2, <2>3 DEF RouterSocket
<1>4. rtr' \in [fd : Fd, active : BOOLEAN] /\ last_reco' \in 0 .. MaxTime /\ tries' \in Nat
  BY <1>3 DEF Reconnect, BridgeType, TypeOK
<1> QED
  BY <1>3, <1>4

LEMMA RtrType ==
  ASSUME BridgeType, RtrCb, UNCHANGED proto
  PROVE  conn' \in Conns /\ dst' \in Fd /\ rtr' \in [fd : Fd, active : BOOLEAN]
<1>1. conn \in Conns /\ rtr.fd \in Fd
  BY ConnTypes DEF BridgeType, TypeOK
<1>2. CASE RtrGone
  <2>1. rtr.fd \in Conn => [conn EXCEPT ![rtr.fd].r = "closed"] \in Conns
    BY <1>1, EditType
  <2> QED
    BY <1>1, <1>2, <2>1 DEF RtrGone, Shut, Fd
<1>3. CASE UdpError
  <2>1. rtr.fd \in Conn => [conn EXCEPT ![rtr.fd].err = FALSE] \in Conns
    BY <1>1, EditType
  <2> QED
    BY <1>1, <1>3, <2>1 DEF UdpError, BridgeType, TypeOK
<1> QED
  BY <1>2, <1>3 DEF RtrCb

LEMMA ForwardType ==
  ASSUME BridgeType, NEW d \in Dgram, Forward(d), UNCHANGED proto
  PROVE  conn' \in Conns /\ life' \in {"killed"} \cup {life}
<1>1. conn \in Conns
  BY ConnTypes
<1>2. CASE dst \notin Conn
  BY <1>1, <1>2 DEF Forward
<1>3. CASE dst \in Conn
  <2>1. SendOn(dst, Bytes(d)) \in Conns /\ [conn EXCEPT ![dst].err = FALSE] \in Conns
    BY <1>1, <1>3, BytesType, SendType, EditType
  <2>2. \A n \in 0 .. MAX_RETR, all \in BOOLEAN : SendOn(dst, Sent(d, n, all)) \in Conns
    BY <1>1, <1>3, SentType, SendType
  <2>3. RouterGone \in Conns
    BY <1>1, ShutType
  <2> QED
    BY <1>3, <2>1, <2>2, <2>3 DEF Forward
<1> QED
  BY <1>2, <1>3

LEMMA RouterType == BridgeType /\ RouterNext /\ UNCHANGED <<proto, spliced, dvars>> => BridgeType'
<1> SUFFICES ASSUME BridgeType, RouterNext, UNCHANGED <<proto, spliced, dvars>>
             PROVE  BridgeType'
  OBVIOUS
<1> USE DEF BridgeType, TypeOK, SubWaits
<1>1. conn \in Conns /\ UNCHANGED listening /\ (ConnTyped => (conn \in [Conn -> ConnState])')
  BY ConnTypes DEF RouterNext
<1>2. CASE Arrive
  <2>1. ConnTyped
    BY <1>1, <1>2 DEF Arrive, ConnTyped
  <2>2. subq' \in Seq(Dgram) /\ subq' # <<>>
    <3>1. subq \in Seq(Dgram)
      OBVIOUS
    <3>2. PICK d \in Dgram : subq' = Append(subq, d)
      BY <1>2 DEF Arrive
    <3> QED
      BY ONLY <3>1, <3>2, AppendProperties
  <2> QED
    BY <1>1, <1>2, <2>1, <2>2 DEF Arrive, dvars, Fd, Slot
<1>3. CASE Tick
  <2>1. ConnTyped
    BY <1>1, <1>3 DEF Tick, ConnTyped
  <2> QED
    BY <1>1, <1>3, <2>1 DEF Tick, dvars, Fd, Slot
<1>4. ASSUME NEW sig \in {{}, {"sig"}}, Poll(sig) PROVE BridgeType'
  <2>1. ConnTyped
    BY <1>1, <1>4 DEF Poll, ConnTyped
  <2>2. pend' \subseteq {"chk", "sub", "rtr", "sig"} /\ ("sub" \in pend' => subq' # <<>>)
    BY <1>4 DEF Poll, Ready
  <2> QED
    BY <1>1, <1>4, <2>1, <2>2 DEF Poll, dvars, Fd, Slot
<1>5. CASE ChkCb
  <2>1. ConnTyped /\ dst' \in Fd /\ rtr' \in [fd : Fd, active : BOOLEAN]
        /\ life' \in {"up", "killed"} /\ last_reco' \in 0 .. MaxTime /\ tries' \in Nat
    BY <1>1, <1>5, ReconnectType DEF ChkCb, ConnTyped
  <2> QED
    BY <1>1, <1>5, <2>1 DEF ChkCb, dvars, Fd, Slot
<1>6. CASE RtrCb
  <2>1. ConnTyped /\ dst' \in Fd /\ rtr' \in [fd : Fd, active : BOOLEAN]
    BY <1>6, RtrType DEF ConnTyped
  <2> QED
    BY <1>1, <1>6, <2>1 DEF RtrCb, dvars, Fd, Slot
<1>7. CASE SubCb
  <2>1. Head(subq) \in Dgram /\ Tail(subq) \in Seq(Dgram)
    BY <1>7, HeadTailProperties DEF SubCb
  <2>2. taken' \in Seq(Dgram) /\ subq' \in Seq(Dgram)
    BY <1>7, <2>1, AppendProperties DEF SubCb
  <2>3. ConnTyped /\ life' \in {"killed", "up"}
    BY <1>7, <2>1, ForwardType DEF SubCb, ConnTyped
  <2> QED
    BY <1>1, <1>7, <2>2, <2>3 DEF SubCb, dvars, Fd, Slot
<1>8. CASE Down
  <2>1. ConnTyped
    BY <1>1, <1>8, ShutType DEF Down, ConnTyped
  <2> QED
    BY <1>1, <1>8, <2>1 DEF Down, dvars, Fd, Slot
<1> QED
  BY <1>2, <1>3, <1>4, <1>5, <1>6, <1>7, <1>8 DEF RouterNext, Loop

\* What the dealer publishes, and keeps in the pipe, is made of bytes.
LEMMA PublishType ==
  ASSUME BridgeType, NEW chunk \in Seq(Byte), Publish(chunk)
  PROVE  published' \in Seq(Seq(Byte)) /\ pipe' \in Seq(Byte) /\ piped' \in Seq(Byte)
<1>t. published \in Seq(Seq(Byte)) /\ pipe \in Seq(Byte) /\ piped \in Seq(Byte)
  BY DEF BridgeType, TypeOK
<1>1. CASE SendChunk(chunk)
  <2>1. Append(published, chunk) \in Seq(Seq(Byte))
    BY <1>t, AppendProperties
  <2> QED
    BY <1>1, <1>t, <2>1 DEF SendChunk
<1>2. CASE SpliceChunk(chunk)
  <2> DEFINE bytes == InPipe(chunk)
  <2>1. PICK k \in 0 .. Len(chunk) :
          /\ published' = IF k = 0 THEN published ELSE Append(published, SubSeq(bytes, 1, k))
          /\ pipe' = SubSeq(bytes, k + 1, Len(bytes))
    BY <1>2 DEF SpliceChunk
  <2>2. /\ bytes \in Seq(Byte) /\ Len(bytes) = Len(pipe) + Len(chunk)
        /\ Len(pipe) \in Nat /\ Len(chunk) \in Nat
    BY <1>t, ConcatProperties, LenProperties DEF InPipe
  <2> HIDE DEF bytes
  <2>3. k \in 0 .. Len(bytes) /\ k + 1 \in Nat \ {0} /\ Len(bytes) \in 0 .. Len(bytes)
    BY <2>2
  <2>4. SubSeq(bytes, 1, k) \in Seq(Byte) /\ SubSeq(bytes, k + 1, Len(bytes)) \in Seq(Byte)
    BY <2>2, <2>3, PieceType
  <2>5. published' \in Seq(Seq(Byte))
    BY <1>t, <2>1, <2>4, AppendProperties
  <2>6. piped' \in Seq(Byte)
    BY <1>2, <1>t, ConcatProperties DEF SpliceChunk
  <2> QED
    BY <2>1, <2>4, <2>5, <2>6
<1> QED
  BY <1>1, <1>2 DEF Publish

\* A datagram of a connection taken out of what is on its way
LEMMA TakeOutType ==
  ASSUME conn \in Conns, proto # "tcp", NEW c \in Conn, NEW i \in DOMAIN conn[c].stream
  PROVE  /\ conn[c].stream[i] \in Seq(Byte)
         /\ [conn EXCEPT ![c].stream = RemoveAt(@, i)] \in Conns
<1>1. conn[c].stream \in Seq(Seq(Byte))
  BY EditType DEF Stream
<1>2. RemoveAt(conn[c].stream, i) \in Stream
  BY <1>1, RemoveAtType DEF Stream
<1> QED
  BY <1>1, <1>2, EditType, ElementOfSeq, LenProperties

LEMMA TcpCbType ==
  ASSUME BridgeType, TcpCb, UNCHANGED proto
  PROVE  conn' \in Conns /\ slots' \in [Slot -> Conn \cup {None}] /\ next' \in Slot
<1> USE DEF BridgeType, TypeOK
<1>1. conn \in Conns
  BY ConnTypes
<1>2. Evicted \in Conns
  <2>1. slots[next] \in Conn \cup {None}
    OBVIOUS
  <2> QED
    BY <1>1, <2>1, ShutType DEF Evicted
<1>3. NextSlot \in Slot
  BY DEF NextSlot, Slot
<1>4. PICK c \in Conn :
        \/ /\ conn' = [Evicted EXCEPT ![c].d = "open"]
           /\ slots' = [slots EXCEPT ![next] = c]
           /\ next' = NextSlot
        \/ /\ conn' \in {Evicted, [Evicted EXCEPT ![c].d = "closed", ![c].err = TRUE]}
           /\ slots' = [slots EXCEPT ![next] = None]
           /\ UNCHANGED next
  BY DEF TcpCb
<1>5. [Evicted EXCEPT ![c].d = "open"] \in Conns
      /\ [Evicted EXCEPT ![c].d = "closed", ![c].err = TRUE] \in Conns
  <2> DEFINE e == Evicted
             f == [e EXCEPT ![c].d = "closed"]
  <2>1. e \in Conns
    BY <1>2
  <2> HIDE DEF e
  <2>2. [e EXCEPT ![c].d = "open"] \in Conns /\ f \in Conns
    BY <2>1, EditType
  <2>3. [f EXCEPT ![c].err = TRUE] \in Conns
    <3> HIDE DEF f
    <3> QED
      BY <2>2, EditType
  <2> QED
    BY <2>2, <2>3 DEF e
<1> QED
  BY <1>2, <1>3, <1>4, <1>5

LEMMA TcpDataType ==
  ASSUME BridgeType, NEW i \in Slot, TcpData(i), UNCHANGED proto
  PROVE  /\ conn' \in Conns /\ slots' \in [Slot -> Conn \cup {None}]
         /\ published' \in Seq(Seq(Byte)) /\ pipe' \in Seq(Byte) /\ piped' \in Seq(Byte)
<1> USE DEF BridgeType, TypeOK
<1> DEFINE c == slots[i]
           s == conn[c].stream
<1>1. conn \in Conns /\ c \in Conn /\ proto = "tcp"
  BY ConnTypes DEF TcpData
<1>2. s \in Seq(Byte)
  BY <1>1, EditType DEF Stream
<1>3. ASSUME NEW rest, ShutSlot(i, rest) 
      PROVE  conn' \in Conns /\ slots' \in [Slot -> Conn \cup {None}]
  <2>1. (rest # <<>>) \in BOOLEAN
    OBVIOUS
  <2>2. \A e \in BOOLEAN :
          [conn EXCEPT ![c].d = "closed", ![c].stream = <<>>, ![c].err = @ \/ e] \in Conns
    BY <1>1, ShutType
  <2>3. [conn EXCEPT ![c].d = "closed", ![c].stream = <<>>,
                     ![c].err = @ \/ rest # <<>>] \in Conns
    BY <2>1, <2>2
  <2> QED
    BY <1>3, <2>3 DEF ShutSlot
<1>4. CASE \E n \in 1 .. Len(s) :
             Publish(SubSeq(s, 1, n)) /\ ShutSlot(i, SubSeq(s, n + 1, Len(s)))
  <2>1. PICK n \in 1 .. Len(s) :
          Publish(SubSeq(s, 1, n)) /\ ShutSlot(i, SubSeq(s, n + 1, Len(s)))
    BY <1>4
  <2>2. SubSeq(s, 1, n) \in Seq(Byte)
    BY <1>2, PieceType
  <2> QED
    BY <1>3, <2>1, <2>2, PublishType
<1>5. CASE UNCHANGED <<pipe, piped, published>> /\ ShutSlot(i, <<>>)
  BY <1>3, <1>5
<1> QED
  BY <1>4, <1>5 DEF TcpData

LEMMA DealerType == BridgeType /\ DealerNext /\ UNCHANGED <<proto, spliced, rvars>> => BridgeType'
<1> SUFFICES ASSUME BridgeType, DealerNext, UNCHANGED <<proto, spliced, rvars>>
             PROVE  BridgeType'
  OBVIOUS
<1> USE DEF BridgeType, TypeOK, SubWaits
<1>1. conn \in Conns /\ (ConnTyped => (conn \in [Conn -> ConnState])')
  BY ConnTypes
<1>2. CASE TcpCb
  <2>1. ConnTyped /\ slots' \in [Slot -> Conn \cup {None}] /\ next' \in Slot
    BY <1>2, TcpCbType DEF ConnTyped
  <2> QED
    BY <1>1, <1>2, <2>1 DEF TcpCb, rvars, Fd
<1>3. CASE UdpData
  <2>c. PICK c \in Conn : \E k \in DOMAIN conn[c].stream :
          Publish(conn[c].stream[k]) /\ conn' = [conn EXCEPT ![c].stream = RemoveAt(@, k)]
    BY <1>3 DEF UdpData
  <2>1. PICK k \in DOMAIN conn[c].stream :
          Publish(conn[c].stream[k]) /\ conn' = [conn EXCEPT ![c].stream = RemoveAt(@, k)]
    BY <2>c
  <2>2. conn[c].stream[k] \in Seq(Byte) /\ conn' \in Conns
    BY <1>1, <1>3, <2>1, TakeOutType DEF UdpData
  <2>3. published' \in Seq(Seq(Byte)) /\ pipe' \in Seq(Byte) /\ piped' \in Seq(Byte)
    BY <2>1, <2>2, PublishType
  <2>4. ConnTyped
    BY <2>2 DEF ConnTyped
  <2> QED
    BY <1>1, <1>3, <2>3, <2>4 DEF UdpData, rvars, Fd
<1>4. ASSUME NEW i \in Slot, TcpData(i) PROVE BridgeType'
  <2>1. ConnTyped /\ slots' \in [Slot -> Conn \cup {None}]
        /\ published' \in Seq(Seq(Byte)) /\ pipe' \in Seq(Byte) /\ piped' \in Seq(Byte)
    BY <1>4, TcpDataType DEF ConnTyped
  <2> QED
    BY <1>1, <1>4, <2>1 DEF TcpData, rvars, Fd
<1>5. CASE DealerDown
  <2>1. \A c \in Conn : DealerShut(c)[c] \in ConnState /\ conn[c] \in ConnState
    BY <1>1, ShutType, EditType
  <2>2. conn' \in Conns
    BY <1>5, <2>1 DEF DealerDown, Conns
  <2>3. pipe' \in Seq(Byte) /\ ConnTyped
    BY <1>5, <2>2, EmptySeq DEF DealerDown, ConnTyped
  <2>4. slots' \in [Slot -> Conn \cup {None}] /\ next' \in Slot
    BY <1>5 DEF DealerDown, Slot
  <2>5. conn' \in [Conn -> ConnState]'
    BY <1>1, <2>3
  <2>6. piped' \in Seq(Byte)
    <3>1. piped \in Seq(Byte) /\ pipe \in Seq(Byte)
      OBVIOUS
    <3>2. piped' = SubSeq(piped, 1, Len(piped) - Len(pipe))
      BY <1>5 DEF DealerDown
    <3> QED
      BY <3>1, <3>2, FrontType
  <2> QED
    BY <1>5, <2>3, <2>4, <2>5, <2>6 DEF DealerDown, rvars
<1>6. CASE DealerUp
  <2>1. ConnTyped
    BY <1>1, <1>6 DEF DealerUp, ConnTyped
  <2> QED
    BY <1>1, <1>6, <2>1 DEF DealerUp, dvars, rvars, Fd, Slot
<1> QED
  BY <1>2, <1>3, <1>4, <1>5, <1>6 DEF DealerNext

\* Other routers and the network
Outside ==
  /\ \/ LinkLose
     \/ \E c \in Conn : OtherConnect(c) \/ OtherClose(c)
  /\ UNCHANGED <<proto, spliced, rvars, dvars>>

LEMMA OutsideType == BridgeType /\ Outside => BridgeType'
<1> SUFFICES ASSUME BridgeType, Outside PROVE BridgeType'
  OBVIOUS
<1>1. conn \in Conns /\ (ConnTyped => (conn \in [Conn -> ConnState])') /\ UNCHANGED proto
  BY ConnTypes DEF Outside
<1>2. conn' \in Conns /\ UNCHANGED listening
  <2>1. CASE LinkLose
    BY <1>1, <2>1, TakeOutType, ZenonT(30) DEF LinkLose
  <2>2. ASSUME NEW c \in Conn, OtherConnect(c) PROVE conn' \in Conns /\ UNCHANGED listening
    <3> DEFINE f == [conn EXCEPT ![c].r = "other"]
    <3>1. f \in Conns
      BY <1>1, EditType
    <3>2. [f EXCEPT ![c].d = "queued"] \in Conns
      <4> HIDE DEF f
      <4> QED
        BY <3>1, EditType
    <3> QED
      BY <2>2, <3>2 DEF OtherConnect
  <2>3. ASSUME NEW c \in Conn, OtherClose(c) PROVE conn' \in Conns /\ UNCHANGED listening
    BY <1>1, <2>3, EditType DEF OtherClose
  <2> QED
    BY <2>1, <2>2, <2>3 DEF Outside
<1> QED
  BY <1>1, <1>2 DEF Outside, ConnTyped, BridgeType, TypeOK, SubWaits, rvars, dvars, Fd, Slot

LEMMA TypeNext == BridgeType /\ [Next]_vars => BridgeType'
<1>1. CASE UNCHANGED vars
  BY <1>1 DEF vars, rvars, dvars, BridgeType, TypeOK, SubWaits, ConnState, Fd, Slot
<1>2. CASE Next
  BY <1>2, RouterType, DealerType, OutsideType DEF Next, Outside
<1> QED
  BY <1>1, <1>2

\* Every variable keeps its type, whichever side does what in which order.
THEOREM TypeCorrect == Spec => []TypeOK
<1>1. BridgeType => TypeOK
  BY DEF BridgeType
<1> QED
  BY <1>1, TypeInit, TypeNext, PTL DEF Spec

-----------------------------------------------------------------------------
(* The router's connection *)

\* Which end of which connection a change of one reaches
LEMMA EditEnds ==
  ASSUME NEW f \in Conns, NEW c \in Conn, NEW x \in Conn, NEW v
  PROVE  /\ [f EXCEPT ![c].err = v][x].r = f[x].r
         /\ [f EXCEPT ![c].err = v][x].d = f[x].d
         /\ [f EXCEPT ![c].stream = v][x].r = f[x].r
         /\ [f EXCEPT ![c].stream = v][x].d = f[x].d
         /\ [f EXCEPT ![c].d = v][x].r = f[x].r
         /\ [f EXCEPT ![c].d = v][x].d = IF x = c THEN v ELSE f[x].d
         /\ [f EXCEPT ![c].r = v][x].r = IF x = c THEN v ELSE f[x].r
         /\ [f EXCEPT ![c].r = v][x].d = f[x].d
<1>1. f[c] \in ConnState /\ f \in [Conn -> ConnState]
  BY DEF Conns
<1>2. /\ [f[c] EXCEPT !.err = v].r = f[c].r /\ [f[c] EXCEPT !.err = v].d = f[c].d
      /\ [f[c] EXCEPT !.stream = v].r = f[c].r /\ [f[c] EXCEPT !.stream = v].d = f[c].d
      /\ [f[c] EXCEPT !.d = v].r = f[c].r /\ [f[c] EXCEPT !.d = v].d = v
      /\ [f[c] EXCEPT !.r = v].r = v /\ [f[c] EXCEPT !.r = v].d = f[c].d
  BY <1>1 DEF ConnState
<1>3. \A w : [f EXCEPT ![c] = w][x] = IF x = c THEN w ELSE f[x]
  BY <1>1
<1> QED
  BY <1>2, <1>3

\* (of the router's end alone)
LEMMA EditMine ==
  ASSUME NEW f \in Conns, NEW c \in Conn, NEW x \in Conn, NEW v
  PROVE  /\ [f EXCEPT ![c].r = v][x].r = IF x = c THEN v ELSE f[x].r
         /\ [f EXCEPT ![c].r = v][x].d = f[x].d
<1>1. f[c] \in ConnState /\ f \in [Conn -> ConnState]
  BY DEF Conns
<1>2. [f[c] EXCEPT !.r = v].r = v /\ [f[c] EXCEPT !.r = v].d = f[c].d
  BY <1>1 DEF ConnState
<1>3. \A w : [f EXCEPT ![c] = w][x] = IF x = c THEN w ELSE f[x]
  BY <1>1
<1> QED
  BY <1>2, <1>3

\* Sending leaves the ends as they are, the dealer's closing an end touches
\* that one, the end of the router all of its own.
LEMMA SendEnds ==
  ASSUME conn \in Conns, NEW c \in Conn, NEW v \in Seq(Byte), NEW x \in Conn
  PROVE  SendOn(c, v)[x].r = conn[x].r /\ SendOn(c, v)[x].d = conn[x].d
<1>1. CASE proto = "tcp"
  BY <1>1, EditEnds DEF SendOn
<1>2. CASE proto # "tcp"
  <2> DEFINE f == [conn EXCEPT ![c].stream = Append(@, v)]
  <2>1. f \in Conns
    <3>1. conn[c].stream \in Seq(Seq(Byte))
      BY <1>2, EditType DEF Stream
    <3>2. Append(conn[c].stream, v) \in Stream
      BY <1>2, <3>1, AppendProperties DEF Stream
    <3> QED
      BY <3>2, EditType
  <2>2. f[x].r = conn[x].r /\ f[x].d = conn[x].d
    BY EditEnds
  <2>3. [f EXCEPT ![c].err = FALSE][x].r = f[x].r /\ [f EXCEPT ![c].err = FALSE][x].d = f[x].d
    <3> HIDE DEF f
    <3> QED
      BY <2>1, EditEnds
  <2>4. [conn EXCEPT ![c].err = TRUE][x].r = conn[x].r
        /\ [conn EXCEPT ![c].err = TRUE][x].d = conn[x].d
    BY EditEnds
  <2> QED
    BY <1>2, <2>2, <2>3, <2>4 DEF SendOn
<1> QED
  BY <1>1, <1>2

ShutWith(c, e) == [conn EXCEPT ![c].d = "closed", ![c].stream = <<>>, ![c].err = @ \/ e]

LEMMA ShutEnds ==
  ASSUME conn \in Conns, NEW c \in Conn, NEW e, NEW x \in Conn
  PROVE  /\ ShutWith(c, e)[x].r = conn[x].r
         /\ ShutWith(c, e)[x].d = IF x = c THEN "closed" ELSE conn[x].d
<1> DEFINE f == [conn EXCEPT ![c].d = "closed"]
           g == [f EXCEPT ![c].stream = <<>>]
           h == [g EXCEPT ![c].err = @ \/ e]
<1>t. f \in Conns
  BY EditType
<1>1. f[x].r = conn[x].r /\ f[x].d = IF x = c THEN "closed" ELSE conn[x].d
  BY EditEnds
<1>2. g \in Conns /\ g[x].r = f[x].r /\ g[x].d = f[x].d
  <2> HIDE DEF f
  <2>1. g \in Conns
    BY <1>t, NoBytesType, EditType
  <2>2. g[x].r = f[x].r /\ g[x].d = f[x].d
    BY <1>t, EditEnds
  <2> QED
    BY <2>1, <2>2
<1>3. h[x].r = g[x].r /\ h[x].d = g[x].d
  <2> HIDE DEF g
  <2> QED
    BY <1>2, EditEnds
<1>4. ShutWith(c, e) = h
  BY DEF ShutWith
<1> HIDE DEF h
<1> QED
  BY <1>1, <1>2, <1>3, <1>4

LEMMA DealerShutEnds ==
  ASSUME conn \in Conns, NEW c \in Conn, NEW x \in Conn
  PROVE  /\ DealerShut(c)[x].r = conn[x].r
         /\ DealerShut(c)[x].d = IF x = c THEN "closed" ELSE conn[x].d
<1>1. DealerShut(c) = ShutWith(c, conn[c].stream # <<>>)
  BY DEF DealerShut, ShutWith
<1> QED
  BY <1>1, ShutEnds

LEMMA GoneEnds ==
  ASSUME conn \in Conns, NEW x \in Conn
  PROVE  /\ RouterGone[x].r = IF conn[x].r = "open" THEN "closed" ELSE conn[x].r
         /\ RouterGone[x].d = conn[x].d
<1>1. conn[x] \in ConnState
  BY DEF Conns
<1>2. [conn[x] EXCEPT !.r = "closed"].r = "closed"
      /\ [conn[x] EXCEPT !.r = "closed"].d = conn[x].d
  BY <1>1 DEF ConnState
<1> QED
  BY <1>2 DEF RouterGone

LEMMA ConnectEnds ==
  ASSUME conn \in Conns, NEW c \in Conn, ConnectOK(c), NEW x \in Conn
  PROVE  /\ conn'[x].r = IF x = c THEN "open" ELSE conn[x].r
         /\ \/ conn'[x].d = conn[x].d
            \/ x = c /\ conn'[x].d = "queued"
<1> DEFINE f == [conn EXCEPT ![c].r = "open"]
<1>t. f \in Conns
  BY EditType
<1>1. f[x].r = IF x = c THEN "open" ELSE conn[x].r
  BY EditEnds
<1>d. f[x].d = conn[x].d
  BY EditEnds
<1>2. [f EXCEPT ![c].d = "queued"][x].r = f[x].r
      /\ [f EXCEPT ![c].d = "queued"][x].d = IF x = c THEN "queued" ELSE f[x].d
  <2> HIDE DEF f
  <2> QED
    BY <1>t, EditEnds
<1>3. CASE conn' = f
  BY <1>1, <1>d, <1>3
<1>4. CASE conn' = [f EXCEPT ![c].d = "queued"]
  <2> HIDE DEF f
  <2> QED
    BY <1>1, <1>d, <1>2, <1>4
<1> QED
  BY <1>3, <1>4 DEF ConnectOK

\* The router's ends after a step of the dealer's
LEMMA DealerKeepsR ==
  ASSUME BridgeType, DealerNext, UNCHANGED proto, NEW x \in Conn
  PROVE  conn'[x].r = conn[x].r
<1>1. conn \in Conns
  BY ConnTypes
<1>2. CASE TcpCb
  <2>1. Evicted \in Conns /\ Evicted[x].r = conn[x].r
    <3>1. slots[next] \in Conn \cup {None}
      BY DEF BridgeType, TypeOK
    <3> QED
      BY <1>1, <3>1, ShutType, DealerShutEnds DEF Evicted
  <2>2. ASSUME NEW c \in Conn
        PROVE  /\ [Evicted EXCEPT ![c].d = "open"][x].r = conn[x].r
               /\ [Evicted EXCEPT ![c].d = "closed", ![c].err = TRUE][x].r = conn[x].r
    <3> DEFINE e == Evicted
               f == [e EXCEPT ![c].d = "closed"]
    <3>1. e \in Conns /\ e[x].r = conn[x].r
      BY <2>1
    <3> HIDE DEF e
    <3>2. [e EXCEPT ![c].d = "open"][x].r = e[x].r /\ f[x].r = e[x].r
      BY <3>1, EditEnds
    <3>t. f \in Conns
      BY <3>1, EditType
    <3>3. [f EXCEPT ![c].err = TRUE][x].r = f[x].r
      <4> HIDE DEF f
      <4> QED
        BY <3>t, EditEnds
    <3> QED
      BY <3>1, <3>2, <3>3 DEF e
  <2> QED
    BY <1>2, <2>1, <2>2 DEF TcpCb
<1>3. CASE UdpData
  BY <1>1, <1>3, EditEnds DEF UdpData
<1>4. ASSUME NEW i \in Slot, TcpData(i) PROVE conn'[x].r = conn[x].r
  <2>1. slots[i] \in Conn
    BY <1>4 DEF TcpData, BridgeType, TypeOK
  <2>2. PICK rest : ShutSlot(i, rest)
    BY <1>4 DEF TcpData
  <2>3. conn' = ShutWith(slots[i], rest # <<>>)
    BY <2>2 DEF ShutSlot, ShutWith
  <2> QED
    BY <1>1, <2>1, <2>3, ShutEnds
<1>5. CASE DealerDown
  BY <1>1, <1>5, DealerShutEnds DEF DealerDown
<1>6. CASE DealerUp
  BY <1>6 DEF DealerUp
<1> QED
  BY <1>2, <1>3, <1>4, <1>5, <1>6 DEF DealerNext

\* The ends the router has open are what OneWatchedConn says of them, so it
\* stays if they and what the router knows of them do.
LEMMA SameOpen ==
  ASSUME OneWatchedConn, UNCHANGED <<life, dst, rtr>>,
         \A x \in Conn : conn'[x].r = "open" <=> conn[x].r = "open"
  PROVE  OneWatchedConn'
BY DEF OneWatchedConn

LEMMA WatchedChk ==
  ASSUME BridgeType, OneWatchedConn, ChkCb, UNCHANGED proto
  PROVE  OneWatchedConn'
<1>1. conn \in Conns /\ dst \in Fd
  BY ConnTypes DEF BridgeType, TypeOK
<1>2. CASE UNCHANGED <<dst, rtr, last_reco, tries, conn, life>>
  BY <1>2, SameOpen
<1>3. ASSUME NEW c \in Conn, Unused(c), Reconnect(c) PROVE OneWatchedConn'
  <2>1. dst = None /\ ~ rtr.active /\ \A x \in Conn : conn[x].r # "open"
    BY <1>1, <1>3 DEF ChkCb, Reconnect, OneWatchedConn, Fd, Conn, None
  <2>2. CASE ConnectOK(c) /\ dst' = c
    <3>1. \A x \in Conn : conn'[x].r = "open" <=> x = c
      BY <1>1, <2>1, <2>2, ConnectEnds
    <3>2. rtr'.fd = c /\ rtr'.active /\ c # None /\ c # 0
      BY <1>3, <2>2 DEF Reconnect, Conn, None
    <3> QED
      BY <2>2, <3>1, <3>2 DEF OneWatchedConn
  <2>3. CASE dst' \in {None, 0} /\ UNCHANGED <<conn, life>>
    <3>1. dst' = 0 => rtr'.fd = 0 /\ rtr'.active
      BY <1>3 DEF Reconnect
    <3>2. dst' = None => rtr' = rtr
      BY <1>3 DEF Reconnect, None
    <3> QED
      BY <2>1, <2>3, <3>1, <3>2 DEF OneWatchedConn, None
  <2>4. CASE life' = "killed"
    BY <2>4 DEF OneWatchedConn
  <2> QED
    BY <1>3, <2>2, <2>3, <2>4 DEF Reconnect, RouterSocket
<1> QED
  BY <1>2, <1>3 DEF ChkCb

LEMMA WatchedRtr ==
  ASSUME BridgeType, OneWatchedConn, RtrCb, UNCHANGED proto
  PROVE  OneWatchedConn'
<1>1. conn \in Conns /\ rtr.fd \in Fd /\ life = "up" /\ UNCHANGED life
  BY ConnTypes DEF BridgeType, TypeOK, RtrCb
<1>2. CASE RtrGone
  <2>1. \A x \in Conn : conn'[x].r = "open" => conn[x].r = "open" /\ x # rtr.fd
    <3>1. CASE rtr.fd \in Conn
      <4>1. conn' = [conn EXCEPT ![rtr.fd].r = "closed"]
        BY <1>2, <3>1 DEF RtrGone, Shut
      <4>2. \A x \in Conn :
              [conn EXCEPT ![rtr.fd].r = "closed"][x].r = IF x = rtr.fd THEN "closed" ELSE conn[x].r
        BY <1>1, <3>1, EditEnds
      <4> QED
        BY <4>1, <4>2
    <3>2. CASE rtr.fd \notin Conn
      BY <1>2, <3>2 DEF RtrGone, Shut
    <3> QED
      BY <3>1, <3>2
  <2>2. dst' = None /\ rtr' = [fd |-> None, active |-> FALSE]
    BY <1>2 DEF RtrGone, Shut
  <2>3. \A x \in Conn : conn'[x].r # "open"
    BY <1>1, <2>1 DEF OneWatchedConn
  <2> QED
    BY <2>2, <2>3 DEF OneWatchedConn
<1>3. CASE UdpError
  <2>1. \A x \in Conn : conn'[x].r = conn[x].r
    BY <1>1, <1>3, EditEnds DEF UdpError
  <2> QED
    BY <1>1, <1>3, <2>1, SameOpen DEF UdpError
<1> QED
  BY <1>2, <1>3 DEF RtrCb

LEMMA ForwardEnds ==
  ASSUME conn \in Conns, NEW d \in Dgram, Forward(d), NEW x \in Conn
  PROVE  /\ conn'[x].d = conn[x].d
         /\ conn'[x].r = conn[x].r \/ conn'[x].r = "closed"
         /\ life' = life => conn'[x].r = conn[x].r \/ life = "killed"
<1>1. CASE dst \notin Conn
  BY <1>1 DEF Forward
<1>2. CASE dst \in Conn
  <2>1. /\ SendOn(dst, Bytes(d))[x].r = conn[x].r /\ SendOn(dst, Bytes(d))[x].d = conn[x].d
        /\ \A n \in 0 .. MAX_RETR, all \in BOOLEAN :
             SendOn(dst, Sent(d, n, all))[x].r = conn[x].r
             /\ SendOn(dst, Sent(d, n, all))[x].d = conn[x].d
    BY <1>2, SendEnds, BytesType, SentType
  <2>2. [conn EXCEPT ![dst].err = FALSE][x].r = conn[x].r
        /\ [conn EXCEPT ![dst].err = FALSE][x].d = conn[x].d
    BY <1>2, EditEnds
  <2>3. RouterGone[x].d = conn[x].d /\ RouterGone[x].r \in {conn[x].r, "closed"}
    BY GoneEnds
  <2> QED
    BY <1>2, <2>1, <2>2, <2>3 DEF Forward
<1> QED
  BY <1>1, <1>2

LEMMA WatchedRouter ==
  ASSUME BridgeType, OneWatchedConn, RouterNext, UNCHANGED proto
  PROVE  OneWatchedConn'
<1>1. conn \in Conns
  BY ConnTypes
<1>2. CASE Arrive \/ Tick \/ (\E sig \in {{}, {"sig"}} : Poll(sig))
  BY <1>2, SameOpen DEF Arrive, Tick, Poll
<1>3. CASE SubCb
  <2>1. Head(subq) \in Dgram
    BY <1>3, HeadTailProperties DEF SubCb, BridgeType, TypeOK, SubWaits
  <2>2. CASE life' # "up"
    BY <2>2 DEF OneWatchedConn
  <2>3. CASE life' = "up"
    BY <1>1, <1>3, <2>1, <2>3, ForwardEnds, SameOpen DEF SubCb
  <2> QED
    BY <2>2, <2>3
<1>4. CASE Down
  BY <1>4 DEF Down, OneWatchedConn
<1> QED
  BY <1>2, <1>3, <1>4, WatchedChk, WatchedRtr DEF RouterNext, Loop

LEMMA WatchedOutside ==
  ASSUME BridgeType, OneWatchedConn, Outside
  PROVE  OneWatchedConn'
<1>1. conn \in Conns /\ UNCHANGED <<life, dst, rtr>>
  BY ConnTypes DEF Outside, rvars
<1>2. ASSUME NEW x \in Conn PROVE conn'[x].r = "open" <=> conn[x].r = "open"
  <2>1. CASE LinkLose
    BY <1>1, <2>1, EditEnds DEF LinkLose
  <2>2. ASSUME NEW c \in Conn, OtherConnect(c) PROVE conn'[x].r = "open" <=> conn[x].r = "open"
    <3> DEFINE f == [conn EXCEPT ![c].r = "other"]
    <3>1. f \in Conns
      BY <1>1, EditType
    <3>2. f[x].r = IF x = c THEN "other" ELSE conn[x].r
      BY <1>1, EditEnds
    <3>3. [f EXCEPT ![c].d = "queued"][x].r = f[x].r
      <4> HIDE DEF f
      <4> QED
        BY <3>1, EditEnds
    <3>4. conn[c].r = "none"
      BY <2>2 DEF OtherConnect, Unused
    <3>5. conn' = [f EXCEPT ![c].d = "queued"]
      BY <2>2 DEF OtherConnect
    <3> HIDE DEF f
    <3> QED
      BY <3>2, <3>3, <3>4, <3>5
  <2>3. ASSUME NEW c \in Conn, OtherClose(c) PROVE conn'[x].r = "open" <=> conn[x].r = "open"
    BY <1>1, <2>3, EditEnds DEF OtherClose
  <2> QED
    BY <2>1, <2>2, <2>3 DEF Outside
<1> QED
  BY <1>1, <1>2, SameOpen

LEMMA WatchedInit == Init => OneWatchedConn
BY DEF Init, LinkInit, NoConn, RouterInit, OneWatchedConn

LEMMA WatchedNext == BridgeType /\ OneWatchedConn /\ [Next]_vars => OneWatchedConn'
<1> SUFFICES ASSUME BridgeType, OneWatchedConn, [Next]_vars PROVE OneWatchedConn'
  OBVIOUS
<1>1. CASE UNCHANGED vars
  BY <1>1 DEF vars, rvars, OneWatchedConn
<1>2. CASE RouterNext /\ UNCHANGED proto
  BY <1>2, WatchedRouter
<1>3. CASE DealerNext /\ UNCHANGED rvars /\ UNCHANGED proto
  BY <1>3, DealerKeepsR, SameOpen DEF rvars
<1>4. CASE Outside
  BY <1>4, WatchedOutside
<1> QED
  BY <1>1, <1>2, <1>3, <1>4 DEF Next, Outside

\* There is a connection to forward to if and only if its end is watched, and
\* it is the only one the router has open, over every loss and reconnect.
THEOREM OneWatchedConnCorrect == Spec => []OneWatchedConn
<1>1. Init => BridgeType /\ OneWatchedConn
  BY TypeInit, WatchedInit
<1>2. BridgeType /\ OneWatchedConn /\ [Next]_vars => (BridgeType /\ OneWatchedConn)'
  BY TypeNext, WatchedNext
<1> QED
  BY <1>1, <1>2, PTL DEF Spec

-----------------------------------------------------------------------------
(* The dealer's slots *)

AcceptedMade == \A c \in Conn : conn[c].r = "none" => conn[c].d = "none"
OpenHeld == \A c \in Conn : conn[c].d = "open" => \E i \in Slot : slots[i] = c
HeldOpen == \A i \in Slot : slots[i] # None => conn[slots[i]].d = "open"
HeldOnce == \A i, j \in Slot : slots[i] = slots[j] /\ i # j => slots[i] = None

HoldInv == AcceptedMade /\ OpenHeld /\ HeldOpen /\ HeldOnce

LEMMA HoldEnough == BridgeType /\ HoldInv => SlotsHoldOpen
<1> SUFFICES ASSUME BridgeType, HoldInv PROVE SlotsHoldOpen
  OBVIOUS
<1>1. slots \in [Slot -> Conn \cup {None}] /\ None \notin Conn
  BY DEF BridgeType, TypeOK, None, Conn
<1>2. {c \in Conn : conn[c].d = "open"} = {slots[i] : i \in Slot} \ {None}
  BY <1>1 DEF HoldInv, OpenHeld, HeldOpen
<1> QED
  BY <1>2 DEF HoldInv, HeldOnce, SlotsHoldOpen

\* A step that opens or closes no end of the dealer's keeps the slots right.
LEMMA SameHeld ==
  ASSUME BridgeType, HoldInv, UNCHANGED slots,
         \A x \in Conn : /\ conn'[x].d = "open" <=> conn[x].d = "open"
                         /\ conn'[x].r = "none" => conn'[x].d = "none"
  PROVE  HoldInv'
<1>1. slots \in [Slot -> Conn \cup {None}]
  BY DEF BridgeType, TypeOK
<1>2. AcceptedMade'
  BY DEF AcceptedMade
<1>3. OpenHeld' /\ HeldOpen' /\ HeldOnce'
  BY <1>1 DEF HoldInv, OpenHeld, HeldOpen, HeldOnce
<1> QED
  BY <1>2, <1>3 DEF HoldInv

LEMMA HeldRouter ==
  ASSUME BridgeType, HoldInv, RouterNext, UNCHANGED <<proto, slots>>
  PROVE  HoldInv'
<1>1. conn \in Conns /\ \A x \in Conn : conn[x].r = "none" => conn[x].d = "none"
  BY ConnTypes DEF HoldInv, AcceptedMade
<1> SUFFICES ASSUME NEW x \in Conn
             PROVE  /\ conn'[x].d = "open" <=> conn[x].d = "open"
                    /\ conn'[x].r = "none" => conn'[x].d = "none"
  BY SameHeld
<1>2. CASE UNCHANGED conn
  BY <1>1, <1>2
<1>3. ASSUME NEW c \in Conn, Reconnect(c)
      PROVE  /\ conn'[x].d = "open" <=> conn[x].d = "open"
             /\ conn'[x].r = "none" => conn'[x].d = "none"
  <2>1. CASE ConnectOK(c)
    <3>1. conn[c].r = "none" /\ conn[c].d = "none"
      BY <1>1, <2>1 DEF ConnectOK, Unused
    <3>2. /\ conn'[x].r = IF x = c THEN "open" ELSE conn[x].r
          /\ conn'[x].d = conn[x].d \/ (x = c /\ conn'[x].d = "queued")
      BY <1>1, <2>1, ConnectEnds
    <3> QED
      BY <1>1, <3>1, <3>2
  <2>2. CASE conn' = RouterGone
    BY <1>1, <2>2, GoneEnds
  <2> QED
    BY <1>2, <1>3, <2>1, <2>2 DEF Reconnect, RouterSocket
<1>4. CASE RtrCb
  <2>1. CASE rtr.fd \in Conn
    <3>1. /\ [conn EXCEPT ![rtr.fd].r = "closed"][x].d = conn[x].d
          /\ [conn EXCEPT ![rtr.fd].r = "closed"][x].r = IF x = rtr.fd THEN "closed" ELSE conn[x].r
          /\ [conn EXCEPT ![rtr.fd].err = FALSE][x].d = conn[x].d
          /\ [conn EXCEPT ![rtr.fd].err = FALSE][x].r = conn[x].r
      BY <1>1, <2>1, EditEnds, SMTT(30)
    <3>2. \/ conn' = [conn EXCEPT ![rtr.fd].r = "closed"]
          \/ conn' = [conn EXCEPT ![rtr.fd].err = FALSE]
      BY <1>4, <2>1 DEF RtrCb, RtrGone, Shut, UdpError
    <3>3. /\ conn'[x].d = conn[x].d
          /\ conn'[x].r = conn[x].r \/ conn'[x].r = "closed"
      BY <3>1, <3>2
    <3> QED
      BY <1>1, <3>3
  <2>2. CASE rtr.fd \notin Conn
    BY <1>2, <1>4, <2>2 DEF RtrCb, RtrGone, Shut, UdpError
  <2> QED
    BY <2>1, <2>2
<1>5. CASE SubCb
  <2>1. Head(subq) \in Dgram
    BY <1>5, HeadTailProperties DEF SubCb, BridgeType, TypeOK, SubWaits
  <2> QED
    BY <1>1, <1>5, <2>1, ForwardEnds DEF SubCb
<1>6. CASE Down
  BY <1>1, <1>6, GoneEnds DEF Down
<1> QED
  BY <1>2, <1>3, <1>4, <1>5, <1>6 DEF RouterNext, Loop, ChkCb, Arrive, Tick, Poll

LEMMA HeldOutside ==
  ASSUME BridgeType, HoldInv, Outside
  PROVE  HoldInv'
<1>1. conn \in Conns /\ \A x \in Conn : conn[x].r = "none" => conn[x].d = "none"
  BY ConnTypes DEF HoldInv, AcceptedMade
<1>2. UNCHANGED slots
  BY DEF Outside, dvars
<1> SUFFICES ASSUME NEW x \in Conn
             PROVE  /\ conn'[x].d = "open" <=> conn[x].d = "open"
                    /\ conn'[x].r = "none" => conn'[x].d = "none"
  BY <1>2, SameHeld
<1>3. CASE LinkLose
  BY <1>1, <1>3, EditEnds DEF LinkLose
<1>4. ASSUME NEW c \in Conn, OtherConnect(c)
      PROVE  /\ conn'[x].d = "open" <=> conn[x].d = "open"
             /\ conn'[x].r = "none" => conn'[x].d = "none"
  <2> DEFINE f == [conn EXCEPT ![c].r = "other"]
  <2>1. f \in Conns
    BY <1>1, EditType
  <2>2. f[x].r = (IF x = c THEN "other" ELSE conn[x].r) /\ f[x].d = conn[x].d
    BY <1>1, EditMine
  <2>3. /\ [f EXCEPT ![c].d = "queued"][x].r = f[x].r
        /\ [f EXCEPT ![c].d = "queued"][x].d = IF x = c THEN "queued" ELSE f[x].d
    <3> HIDE DEF f
    <3> QED
      BY <2>1, EditEnds
  <2>4. conn[c].r = "none" /\ conn[c].d = "none" /\ conn' = [f EXCEPT ![c].d = "queued"]
    BY <1>1, <1>4 DEF OtherConnect, Unused
  <2> HIDE DEF f
  <2> QED
    BY <1>1, <2>2, <2>3, <2>4
<1>5. ASSUME NEW c \in Conn, OtherClose(c)
      PROVE  /\ conn'[x].d = "open" <=> conn[x].d = "open"
             /\ conn'[x].r = "none" => conn'[x].d = "none"
  <2>1. /\ conn'[x].d = conn[x].d
        /\ conn'[x].r = IF x = c THEN "closed" ELSE conn[x].r
    BY <1>1, <1>5, EditEnds, SMTT(30) DEF OtherClose
  <2> QED
    BY <1>1, <2>1
<1> QED
  BY <1>3, <1>4, <1>5 DEF Outside

LEMMA HeldTcpCb ==
  ASSUME BridgeType, HoldInv, TcpCb, UNCHANGED proto
  PROVE  HoldInv'
<1>1. /\ conn \in Conns /\ slots \in [Slot -> Conn \cup {None}] /\ next \in Slot
      /\ None \notin Conn
  BY ConnTypes DEF BridgeType, TypeOK, Conn, None
<1>2. PICK c \in Conn :
        /\ conn[c].d = "queued"
        /\ \/ /\ conn' = [Evicted EXCEPT ![c].d = "open"]
              /\ slots' = [slots EXCEPT ![next] = c]
           \/ /\ conn' \in {Evicted, [Evicted EXCEPT ![c].d = "closed", ![c].err = TRUE]}
              /\ slots' = [slots EXCEPT ![next] = None]
  BY DEF TcpCb
\* what was in the slot is closed, and not the one accepted
<1>3. /\ Evicted \in Conns
      /\ \A x \in Conn : Evicted[x].d = IF x = slots[next] THEN "closed" ELSE conn[x].d
  <2>1. CASE slots[next] = None
    BY <1>1, <2>1 DEF Evicted
  <2>2. CASE slots[next] # None
    <3>1. slots[next] \in Conn /\ Evicted = DealerShut(slots[next])
      BY <1>1, <2>2 DEF Evicted
    <3>2. Evicted \in Conns
      BY <1>1, <3>1, ShutType
    <3> QED
      BY <1>1, <3>1, <3>2, DealerShutEnds
  <2> QED
    BY <2>1, <2>2
<1>4. \A i \in Slot : slots[i] # c
  BY <1>1, <1>2 DEF HoldInv, HeldOpen
<1>5. /\ \A x \in Conn : [Evicted EXCEPT ![c].d = "open"][x].d
                           = IF x = c THEN "open" ELSE Evicted[x].d
      /\ \A x \in Conn : [Evicted EXCEPT ![c].d = "closed", ![c].err = TRUE][x].d
                           = IF x = c THEN "closed" ELSE Evicted[x].d
  <2> DEFINE e == Evicted
             f == [e EXCEPT ![c].d = "closed"]
  <2>1. e \in Conns
    BY <1>3
  <2> HIDE DEF e
  <2>2. \A x \in Conn : /\ [e EXCEPT ![c].d = "open"][x].d = IF x = c THEN "open" ELSE e[x].d
                        /\ f[x].d = IF x = c THEN "closed" ELSE e[x].d
    BY <2>1, EditEnds
  <2>t. f \in Conns
    BY <2>1, EditType
  <2>3. \A x \in Conn : [f EXCEPT ![c].err = TRUE][x].d = f[x].d
    <3> HIDE DEF f
    <3> QED
      BY <2>t, EditEnds
  <2> QED
    BY <2>2, <2>3 DEF e
<1>6. AcceptedMade'
  <2>1. \A x \in Conn : conn'[x].r = conn[x].r
    BY DealerKeepsR DEF DealerNext
  <2>2. \A x \in Conn : conn[x].r = "none" => x # c /\ x # slots[next]
    BY <1>1, <1>2 DEF HoldInv, AcceptedMade, HeldOpen
  <2>3. \A x \in Conn : x # c /\ x # slots[next] => conn'[x].d = conn[x].d
    BY <1>2, <1>3, <1>5
  <2> QED
    BY <2>1, <2>2, <2>3 DEF HoldInv, AcceptedMade
<1>7. CASE conn' = [Evicted EXCEPT ![c].d = "open"] /\ slots' = [slots EXCEPT ![next] = c]
  <2>1. \A x \in Conn : conn'[x].d = IF x = c THEN "open"
                                     ELSE IF x = slots[next] THEN "closed" ELSE conn[x].d
    BY <1>3, <1>5, <1>7
  <2>2. \A i \in Slot : slots'[i] = IF i = next THEN c ELSE slots[i]
    BY <1>1, <1>7
  <2>3. OpenHeld' /\ HeldOpen' /\ HeldOnce'
    BY <1>1, <1>2, <1>4, <2>1, <2>2 DEF HoldInv, OpenHeld, HeldOpen, HeldOnce
  <2> QED
    BY <1>6, <2>3 DEF HoldInv
<1>8. CASE /\ conn' \in {Evicted, [Evicted EXCEPT ![c].d = "closed", ![c].err = TRUE]}
           /\ slots' = [slots EXCEPT ![next] = None]
  <2>1. \A x \in Conn \ {c} : conn'[x].d = IF x = slots[next] THEN "closed" ELSE conn[x].d
    BY <1>3, <1>5, <1>8
  <2>2. conn'[c].d # "open"
    <3>1. c # slots[next] /\ c \in Conn
      BY <1>1, <1>4
    <3>2. Evicted[c].d = "queued"
      BY <1>2, <1>3, <3>1
    <3>3. [Evicted EXCEPT ![c].d = "closed", ![c].err = TRUE][c].d = "closed"
      BY <1>5, <3>1
    <3>4. CASE conn' = Evicted
      BY <3>2, <3>4
    <3>5. CASE conn' = [Evicted EXCEPT ![c].d = "closed", ![c].err = TRUE]
      BY <3>3, <3>5
    <3> QED
      BY <1>8, <3>4, <3>5
  <2>3. \A i \in Slot : slots'[i] = IF i = next THEN None ELSE slots[i]
    BY <1>1, <1>8
  <2>4. OpenHeld' /\ HeldOpen' /\ HeldOnce'
    BY <1>1, <1>4, <2>1, <2>2, <2>3 DEF HoldInv, OpenHeld, HeldOpen, HeldOnce
  <2> QED
    BY <1>6, <2>4 DEF HoldInv
<1> QED
  BY <1>2, <1>7, <1>8

LEMMA HeldTcpData ==
  ASSUME BridgeType, HoldInv, NEW k \in Slot, TcpData(k), UNCHANGED proto
  PROVE  HoldInv'
<1>1. /\ conn \in Conns /\ slots \in [Slot -> Conn \cup {None}] /\ slots[k] \in Conn
      /\ None \notin Conn
  BY ConnTypes DEF BridgeType, TypeOK, TcpData, Conn, None
<1>2. PICK rest : ShutSlot(k, rest)
  BY DEF TcpData
<1>3. conn' = ShutWith(slots[k], rest # <<>>)
  BY <1>2 DEF ShutSlot, ShutWith
<1>4. \A x \in Conn : /\ conn'[x].r = conn[x].r
                      /\ conn'[x].d = IF x = slots[k] THEN "closed" ELSE conn[x].d
  BY <1>1, <1>3, ShutEnds
<1>5. \A i \in Slot : slots'[i] = IF i = k THEN None ELSE slots[i]
  BY <1>1, <1>2 DEF ShutSlot
<1>6. AcceptedMade'
  BY <1>1, <1>4 DEF HoldInv, AcceptedMade, HeldOpen
<1>7. OpenHeld' /\ HeldOpen' /\ HeldOnce'
  BY <1>1, <1>4, <1>5 DEF HoldInv, OpenHeld, HeldOpen, HeldOnce
<1> QED
  BY <1>6, <1>7 DEF HoldInv

LEMMA HeldDealer ==
  ASSUME BridgeType, HoldInv, DealerNext, UNCHANGED proto
  PROVE  HoldInv'
<1>1. conn \in Conns /\ \A x \in Conn : conn'[x].r = conn[x].r
  BY ConnTypes, DealerKeepsR
<1>2. CASE UdpData
  <2>1. \A x \in Conn : conn'[x].d = conn[x].d
    BY <1>1, <1>2, EditEnds DEF UdpData
  <2> QED
    BY <1>1, <1>2, <2>1, SameHeld DEF UdpData, HoldInv, AcceptedMade
<1>3. CASE DealerDown
  <2>1. \A x \in Conn : conn'[x].d = IF conn[x].d \in {"queued", "open"} THEN "closed"
                                     ELSE conn[x].d
    BY <1>1, <1>3, DealerShutEnds DEF DealerDown
  <2>2. \A i \in Slot : slots'[i] = None
    BY <1>3 DEF DealerDown
  <2> QED
    BY <1>1, <2>1, <2>2 DEF HoldInv, AcceptedMade, OpenHeld, HeldOpen, HeldOnce
<1>4. CASE DealerUp
  BY <1>4, SameHeld DEF DealerUp, dvars, HoldInv, AcceptedMade
<1> QED
  BY <1>2, <1>3, <1>4, HeldTcpCb, HeldTcpData DEF DealerNext

LEMMA HeldInit == Init => HoldInv
BY DEF Init, LinkInit, NoConn, DealerInit, HoldInv, AcceptedMade, OpenHeld, HeldOpen, HeldOnce

LEMMA HeldNext == BridgeType /\ HoldInv /\ [Next]_vars => HoldInv'
<1> SUFFICES ASSUME BridgeType, HoldInv, [Next]_vars PROVE HoldInv'
  OBVIOUS
<1>1. CASE UNCHANGED vars
  BY <1>1 DEF vars, dvars, HoldInv, AcceptedMade, OpenHeld, HeldOpen, HeldOnce, Slot
<1>2. CASE RouterNext /\ UNCHANGED <<proto, slots>>
  BY <1>2, HeldRouter
<1>3. CASE DealerNext /\ UNCHANGED proto
  BY <1>3, HeldDealer
<1>4. CASE Outside
  BY <1>4, HeldOutside
<1> QED
  BY <1>1, <1>2, <1>3, <1>4 DEF Next, Outside, dvars

\* The ring of slots loses no connection the dealer has accepted and holds none
\* twice, whatever was evicted and whenever accept() failed.
THEOREM SlotsHoldOpenCorrect == Spec => []SlotsHoldOpen
<1>1. Init => BridgeType /\ HoldInv
  BY TypeInit, HeldInit
<1>2. BridgeType /\ HoldInv /\ [Next]_vars => (BridgeType /\ HoldInv)'
  BY TypeNext, HeldNext
<1>3. BridgeType /\ HoldInv => SlotsHoldOpen
  BY HoldEnough
<1> QED
  BY <1>1, <1>2, <1>3, PTL DEF Spec

-----------------------------------------------------------------------------
(* Datagrams over UDP *)

Whole == {Bytes(d) : d \in Dgram}

\* Only whole datagrams are on their way, and only such are published.
WholeInv ==
  proto = "udp" =>
    /\ \A c \in Conn : conn[c].stream \in Seq(Whole)
    /\ ~ spliced => published \in Seq(Whole)

LEMMA WholeEnough == BridgeType /\ WholeInv => AsIsOverUDP
<1> SUFFICES ASSUME BridgeType, WholeInv, proto = "udp", ~ spliced,
                    NEW k \in DOMAIN published
             PROVE  \E d \in Dgram : published[k] = Bytes(d)
  BY DEF AsIsOverUDP, AsIs
<1>1. published \in Seq(Whole)
  BY DEF WholeInv
<1>2. published[k] \in Whole
  BY <1>1, ElementOfSeq, LenProperties
<1> QED
  BY <1>2 DEF Whole

LEMMA EditStreams ==
  ASSUME NEW f \in Conns, NEW c \in Conn, NEW x \in Conn, NEW v
  PROVE  /\ [f EXCEPT ![c].err = v][x].stream = f[x].stream
         /\ [f EXCEPT ![c].r = v][x].stream = f[x].stream
         /\ [f EXCEPT ![c].d = v][x].stream = f[x].stream
         /\ [f EXCEPT ![c].stream = v][x].stream = IF x = c THEN v ELSE f[x].stream
<1>1. f[c] \in ConnState /\ f \in [Conn -> ConnState]
  BY DEF Conns
<1>2. /\ [f[c] EXCEPT !.err = v].stream = f[c].stream
      /\ [f[c] EXCEPT !.r = v].stream = f[c].stream
      /\ [f[c] EXCEPT !.d = v].stream = f[c].stream
      /\ [f[c] EXCEPT !.stream = v].stream = v
  BY <1>1 DEF ConnState
<1>3. \A w : [f EXCEPT ![c] = w][x] = IF x = c THEN w ELSE f[x]
  BY <1>1
<1> QED
  BY <1>2, <1>3

LEMMA PutStream ==
  ASSUME NEW f \in Conns, NEW c \in Conn, NEW v
  PROVE  \A x \in Conn : [f EXCEPT ![c].stream = v][x].stream = IF x = c THEN v ELSE f[x].stream
<1> SUFFICES ASSUME NEW x \in Conn
             PROVE  [f EXCEPT ![c].stream = v][x].stream = IF x = c THEN v ELSE f[x].stream
  OBVIOUS
<1> QED
  BY EditStreams

LEMMA SetStream ==
  ASSUME NEW f \in Conns, NEW c \in Conn, NEW x \in Conn, NEW S, NEW v \in S, f[x].stream \in S
  PROVE  [f EXCEPT ![c].stream = v][x].stream \in S
<1>1. [f EXCEPT ![c].stream = v][x].stream = IF x = c THEN v ELSE f[x].stream
  BY EditStreams
<1> QED
  BY <1>1

LEMMA SendWhole ==
  ASSUME conn \in Conns, proto = "udp", NEW c \in Conn, NEW d \in Dgram, NEW x \in Conn,
         \A y \in Conn : conn[y].stream \in Seq(Whole)
  PROVE  SendOn(c, Bytes(d))[x].stream \in Seq(Whole)
<1> DEFINE f == [conn EXCEPT ![c].stream = Append(@, Bytes(d))]
<1>1. Append(conn[c].stream, Bytes(d)) \in Seq(Whole)
  BY AppendProperties DEF Whole
<1>2. f[x].stream \in Seq(Whole)
  <2> DEFINE v == Append(conn[c].stream, Bytes(d))
  <2>1. v \in Seq(Whole)
    BY <1>1
  <2> HIDE DEF v
  <2>3. [conn EXCEPT ![c].stream = v][x].stream \in Seq(Whole)
    BY <2>1, SetStream
  <2> QED
    BY <2>3 DEF v
<1>3. f \in Conns
  <2>1. conn[c].stream \in Seq(Seq(Byte))
    BY EditType DEF Stream
  <2>2. Append(conn[c].stream, Bytes(d)) \in Stream
    BY <2>1, BytesType, AppendProperties DEF Stream
  <2> QED
    BY <2>2, EditType
<1>4. [f EXCEPT ![c].err = FALSE][x].stream = f[x].stream
  <2> HIDE DEF f
  <2> QED
    BY <1>3, EditStreams
<1>5. [conn EXCEPT ![c].err = TRUE][x].stream = conn[x].stream
  BY EditStreams
<1> QED
  BY <1>2, <1>4, <1>5 DEF SendOn

LEMMA GoneStreams ==
  ASSUME conn \in Conns, NEW x \in Conn
  PROVE  RouterGone[x].stream = conn[x].stream
<1>1. conn[x] \in ConnState
  BY DEF Conns
<1>2. [conn[x] EXCEPT !.r = "closed"].stream = conn[x].stream
  BY <1>1 DEF ConnState
<1> QED
  BY <1>2 DEF RouterGone

\* Whatever becomes of the connections and of the two programs, only a read
\* of the dealer's and the loss of a datagram take one off, as one.
LEMMA WholeRouter ==
  ASSUME BridgeType, WholeInv, proto = "udp", RouterNext, NEW x \in Conn
  PROVE  conn'[x].stream \in Seq(Whole)
<1>1. conn \in Conns /\ \A y \in Conn : conn[y].stream \in Seq(Whole)
  BY ConnTypes DEF WholeInv
<1>2. CASE UNCHANGED conn
  BY <1>1, <1>2
<1>3. CASE conn' = RouterGone
  BY <1>1, <1>3, GoneStreams
<1>4. ASSUME NEW c \in Conn, conn' = [conn EXCEPT ![c].r = "open"] 
      PROVE  conn'[x].stream \in Seq(Whole)
  BY <1>1, <1>4, EditStreams
<1>5. CASE RtrCb
  <2>1. rtr.fd \in Conn => [conn EXCEPT ![rtr.fd].err = FALSE][x].stream = conn[x].stream
    BY <1>1, EditStreams
  <2>2. UdpError
    BY <1>5 DEF RtrCb
  <2>3. conn' = IF rtr.fd \in Conn THEN [conn EXCEPT ![rtr.fd].err = FALSE] ELSE conn
    BY <2>2 DEF UdpError
  <2> QED
    BY <1>1, <2>1, <2>3
<1>6. CASE SubCb
  <2>1. Head(subq) \in Dgram
    BY <1>6, HeadTailProperties DEF SubCb, BridgeType, TypeOK, SubWaits
  <2>2. CASE dst \in Conn
    <3>1. SendOn(dst, Bytes(Head(subq)))[x].stream \in Seq(Whole)
      BY <1>1, <2>1, <2>2, SendWhole
    <3>2. [conn EXCEPT ![dst].err = FALSE][x].stream = conn[x].stream
      BY <1>1, <2>2, EditStreams
    <3> QED
      BY <1>1, <1>6, <2>2, <3>1, <3>2 DEF SubCb, Forward
  <2>3. CASE dst \notin Conn
    BY <1>2, <1>6, <2>3 DEF SubCb, Forward
  <2> QED
    BY <2>2, <2>3
<1> QED
  BY <1>2, <1>3, <1>4, <1>5, <1>6
  DEF RouterNext, Loop, ChkCb, Reconnect, RouterSocket, ConnectOK, Arrive, Tick, Poll, Down

LEMMA TakenWhole ==
  ASSUME conn \in Conns, NEW c \in Conn, NEW i \in DOMAIN conn[c].stream, NEW x \in Conn,
         \A y \in Conn : conn[y].stream \in Seq(Whole)
  PROVE  /\ [conn EXCEPT ![c].stream = RemoveAt(@, i)][x].stream \in Seq(Whole)
         /\ conn[c].stream[i] \in Whole
<1>1. RemoveAt(conn[c].stream, i) \in Seq(Whole)
  BY RemoveAtType
<1>2. conn[c].stream[i] \in Whole
  BY ElementOfSeq, LenProperties
<1> DEFINE v == RemoveAt(conn[c].stream, i)
<1>3. v \in Seq(Whole)
  BY <1>1
<1>4. [conn EXCEPT ![c].stream = v][x].stream \in Seq(Whole)
  <2> HIDE DEF v
  <2> QED
    BY <1>3, SetStream
<1> QED
  BY <1>2, <1>4

LEMMA WholeDealer ==
  ASSUME BridgeType, WholeInv, proto = "udp", DealerNext, UNCHANGED <<proto, spliced>>
  PROVE  WholeInv'
<1>1. conn \in Conns /\ \A y \in Conn : conn[y].stream \in Seq(Whole)
  BY ConnTypes DEF WholeInv
<1>2. CASE UdpData
  <2>1. PICK c \in Conn : \E k \in DOMAIN conn[c].stream :
          Publish(conn[c].stream[k]) /\ conn' = [conn EXCEPT ![c].stream = RemoveAt(@, k)]
    BY <1>2 DEF UdpData
  <2>2. PICK k \in DOMAIN conn[c].stream :
          Publish(conn[c].stream[k]) /\ conn' = [conn EXCEPT ![c].stream = RemoveAt(@, k)]
    BY <2>1
  <2>3. conn[c].stream[k] \in Whole /\ \A x \in Conn : conn'[x].stream \in Seq(Whole)
    BY <1>1, <2>2, TakenWhole
  <2>4. ~ spliced => published' \in Seq(Whole)
    <3> SUFFICES ASSUME ~ spliced PROVE published' \in Seq(Whole)
      OBVIOUS
    <3>1. published \in Seq(Whole)
      BY DEF WholeInv
    <3>2. Append(published, conn[c].stream[k]) \in Seq(Whole)
      BY <2>3, <3>1, AppendProperties
    <3> QED
      BY <2>2, <3>1, <3>2 DEF Publish, SendChunk
  <2> QED
    BY <2>3, <2>4 DEF WholeInv
<1>3. CASE DealerDown
  <2>1. \A x \in Conn : DealerShut(x)[x].stream = <<>>
    BY <1>1 DEF DealerShut, Conns, ConnState
  <2>2. \A x \in Conn : conn'[x].stream \in Seq(Whole)
    BY <1>1, <1>3, <2>1, EmptySeq DEF DealerDown
  <2> QED
    BY <1>3, <2>2 DEF DealerDown, WholeInv
<1>4. CASE DealerUp
  BY <1>4 DEF DealerUp, dvars, WholeInv
<1> QED
  BY <1>2, <1>3, <1>4 DEF DealerNext, TcpCb, TcpData

LEMMA WholeOutside ==
  ASSUME BridgeType, WholeInv, proto = "udp", Outside
  PROVE  WholeInv'
<1>1. conn \in Conns /\ \A y \in Conn : conn[y].stream \in Seq(Whole)
  BY ConnTypes DEF WholeInv
<1>2. ASSUME NEW x \in Conn PROVE conn'[x].stream \in Seq(Whole)
  <2>1. CASE LinkLose
    BY <1>1, <2>1, TakenWhole DEF LinkLose
  <2>2. ASSUME NEW c \in Conn, OtherClose(c) PROVE conn'[x].stream \in Seq(Whole)
    BY <1>1, <2>2, EditStreams DEF OtherClose
  <2> QED
    BY <2>1, <2>2 DEF Outside, OtherConnect
<1> QED
  BY <1>2 DEF Outside, dvars, WholeInv

LEMMA WholeInit == Init => WholeInv
<1>1. <<>> \in Seq(Whole)
  BY EmptySeq
<1>2. NoConn.stream = <<>>
  BY DEF NoConn
<1>3. Init => \A c \in Conn : conn[c] = NoConn
  BY DEF Init, LinkInit
<1>4. Init => published = <<>>
  BY DEF Init, DealerInit
<1> QED
  BY <1>1, <1>2, <1>3, <1>4, Zenon DEF WholeInv

LEMMA WholeNext == BridgeType /\ WholeInv /\ [Next]_vars => WholeInv'
<1> SUFFICES ASSUME BridgeType, WholeInv, [Next]_vars, proto = "udp" PROVE WholeInv'
  BY DEF WholeInv, Next, vars
<1>1. CASE UNCHANGED vars
  BY <1>1 DEF vars, dvars, WholeInv
<1>2. CASE RouterNext /\ UNCHANGED <<dvars, proto, spliced>>
  BY <1>2, WholeRouter DEF WholeInv, dvars
<1>3. CASE DealerNext /\ UNCHANGED <<proto, spliced>>
  BY <1>3, WholeDealer
<1>4. CASE Outside
  BY <1>4, WholeOutside
<1> QED
  BY <1>1, <1>2, <1>3, <1>4 DEF Next, Outside

\* Over UDP, a dealer that does not splice publishes the very datagrams that
\* were forwarded, none cut and none joined, whatever is lost, refused or
\* ended.
THEOREM AsIsOverUDPCorrect == Spec => []AsIsOverUDP
<1>1. Init => BridgeType /\ WholeInv
  BY TypeInit, WholeInit
<1>2. BridgeType /\ WholeInv /\ [Next]_vars => (BridgeType /\ WholeInv)'
  BY TypeNext, WholeNext
<1>3. BridgeType /\ WholeInv => AsIsOverUDP
  BY WholeEnough
<1> QED
  BY <1>1, <1>2, <1>3, PTL DEF Spec

-----------------------------------------------------------------------------
(* Pieces that are there once *)

PiecesOf(s) == {s[i] : i \in DOMAIN s}
Once(s) == \A i, j \in DOMAIN s : s[i] = s[j] => i = j
Apart(P, Q) == P \cap Q = {}

\* Likewise of a sequence of sequences
AllOf(ss) == UNION {PiecesOf(ss[k]) : k \in DOMAIN ss}
AllOnce(ss) ==
  \A k, l \in DOMAIN ss : \A i \in DOMAIN ss[k], j \in DOMAIN ss[l] :
    ss[k][i] = ss[l][j] => k = l /\ i = j

\* The two parts of a sequence cut behind place k, and an element less
LEMMA CutParts ==
  ASSUME NEW S, NEW s \in Seq(S), NEW k \in 0 .. Len(s)
  PROVE  /\ SubSeq(s, 1, k) \in Seq(S) /\ SubSeq(s, k + 1, Len(s)) \in Seq(S)
         /\ Len(SubSeq(s, 1, k)) = k /\ Len(SubSeq(s, k + 1, Len(s))) = Len(s) - k
         /\ \A i \in 1 .. k : SubSeq(s, 1, k)[i] = s[i]
         /\ \A i \in 1 .. (Len(s) - k) : SubSeq(s, k + 1, Len(s))[i] = s[k + i]
<1>1. Len(s) \in Nat /\ \A i \in 1 .. Len(s) : s[i] \in S
  BY LenProperties, ElementOfSeq
<1>2. /\ SubSeq(s, 1, k) \in Seq(S) /\ Len(SubSeq(s, 1, k)) = k
      /\ \A i \in 1 .. k : SubSeq(s, 1, k)[i] = s[i]
  <2>1. \A i \in 1 .. k : s[i] \in S
    BY <1>1
  <2>2. /\ SubSeq(s, 1, k) \in Seq(S)
        /\ Len(SubSeq(s, 1, k)) = IF 1 <= k THEN k - 1 + 1 ELSE 0
        /\ \A i \in 1 .. (k - 1 + 1) : SubSeq(s, 1, k)[i] = s[1 + i - 1]
    BY <1>1, <2>1, SubSeqProperties
  <2>3. k - 1 + 1 = k /\ \A i \in 1 .. k : 1 + i - 1 = i
    BY <1>1
  <2> QED
    BY <1>1, <2>2, <2>3
<1>3. /\ SubSeq(s, k + 1, Len(s)) \in Seq(S) /\ Len(SubSeq(s, k + 1, Len(s))) = Len(s) - k
      /\ \A i \in 1 .. (Len(s) - k) : SubSeq(s, k + 1, Len(s))[i] = s[k + i]
  <2> DEFINE m == k + 1
             n == Len(s)
  <2>1. m \in Int /\ n \in Int /\ \A i \in m .. n : s[i] \in S
    BY <1>1
  <2>2. /\ SubSeq(s, m, n) \in Seq(S)
        /\ Len(SubSeq(s, m, n)) = IF m <= n THEN n - m + 1 ELSE 0
        /\ \A i \in 1 .. (n - m + 1) : SubSeq(s, m, n)[i] = s[m + i - 1]
    BY <2>1, SubSeqProperties
  <2>3. n - m + 1 = Len(s) - k /\ \A i \in 1 .. (Len(s) - k) : m + i - 1 = k + i
    BY <1>1
  <2>4. (IF m <= n THEN n - m + 1 ELSE 0) = Len(s) - k
    BY <1>1
  <2> HIDE DEF m, n
  <2>5. /\ SubSeq(s, m, n) \in Seq(S) /\ Len(SubSeq(s, m, n)) = Len(s) - k
        /\ \A i \in 1 .. (Len(s) - k) : SubSeq(s, m, n)[i] = s[k + i]
    BY <2>2, <2>3, <2>4
  <2> QED
    BY <2>5 DEF m, n
<1> QED
  BY <1>2, <1>3

\* Both put together again, and what two give without the second
LEMMA CutJoins ==
  ASSUME NEW S, NEW s \in Seq(S), NEW k \in 0 .. Len(s)
  PROVE  /\ SubSeq(s, 1, k) \in Seq(S) /\ SubSeq(s, k + 1, Len(s)) \in Seq(S)
         /\ SubSeq(s, 1, k) \o SubSeq(s, k + 1, Len(s)) = s
<1> DEFINE a == SubSeq(s, 1, k)
           b == SubSeq(s, k + 1, Len(s))
           w == a \o b
<1>1. /\ a \in Seq(S) /\ b \in Seq(S) /\ Len(a) = k /\ Len(b) = Len(s) - k
      /\ \A i \in 1 .. k : a[i] = s[i]
      /\ \A i \in 1 .. (Len(s) - k) : b[i] = s[k + i]
  BY CutParts, SMTT(30)
<1> HIDE DEF a, b
<1>2. /\ w \in Seq(S) /\ Len(w) = Len(a) + Len(b)
      /\ \A i \in 1 .. (Len(a) + Len(b)) : w[i] = IF i <= Len(a) THEN a[i] ELSE b[i - Len(a)]
  BY <1>1, ConcatProperties
<1> HIDE DEF w
<1>3. Len(s) \in Nat /\ k \in Nat /\ k <= Len(s)
  BY LenProperties
<1>4. Len(w) = Len(s)
  BY <1>1, <1>2, <1>3
<1>5. ASSUME NEW i \in 1 .. Len(w) PROVE w[i] = s[i]
  <2>1. CASE i <= k
    <3>1. w[i] = a[i] /\ i \in 1 .. k
      BY <1>1, <1>2, <1>3, <2>1
    <3> QED
      BY <1>1, <3>1
  <2>2. CASE ~ i <= k
    <3>1. w[i] = b[i - k] /\ i - k \in 1 .. (Len(s) - k) /\ k + (i - k) = i
      BY <1>1, <1>2, <1>3, <2>2
    <3> QED
      BY <1>1, <3>1
  <2> QED
    BY <2>1, <2>2
<1>6. w = s
  BY <1>2, <1>4, <1>5, SeqEqual
<1> QED
  BY <1>1, <1>6 DEF w, a, b

LEMMA FrontOfJoin ==
  ASSUME NEW S, NEW s \in Seq(S), NEW t \in Seq(S)
  PROVE  SubSeq(s \o t, 1, Len(s \o t) - Len(t)) = s
<1> DEFINE w == s \o t
           a == SubSeq(w, 1, Len(s))
<1>1. /\ w \in Seq(S) /\ Len(w) = Len(s) + Len(t)
      /\ \A i \in 1 .. (Len(s) + Len(t)) : w[i] = IF i <= Len(s) THEN s[i] ELSE t[i - Len(s)]
  BY ConcatProperties
<1>2. Len(s) \in Nat /\ Len(t) \in Nat
  BY LenProperties
<1> HIDE DEF w
<1>3. Len(s) \in 0 .. Len(w) /\ Len(w) - Len(t) = Len(s)
  BY <1>1, <1>2
<1>4. /\ a \in Seq(S) /\ Len(a) = Len(s)
      /\ \A i \in 1 .. Len(s) : a[i] = w[i]
  BY <1>1, <1>3, CutParts
<1> HIDE DEF a
<1>5. \A i \in 1 .. Len(a) : a[i] = s[i]
  BY <1>1, <1>2, <1>4
<1>6. a = s
  BY <1>4, <1>5, SeqEqual
<1> QED
  BY <1>3, <1>6 DEF a, w

LEMMA TakenOut ==
  ASSUME NEW S, NEW s \in Seq(S), NEW k \in DOMAIN s
  PROVE  /\ RemoveAt(s, k) \in Seq(S) /\ Len(RemoveAt(s, k)) = Len(s) - 1
         /\ \A i \in 1 .. (Len(s) - 1) :
              RemoveAt(s, k)[i] = IF i < k THEN s[i] ELSE s[i + 1]
<1>1. Len(s) \in Nat /\ k \in 1 .. Len(s) /\ k - 1 \in 0 .. Len(s) /\ k \in 0 .. Len(s)
  BY LenProperties
<1> DEFINE a == SubSeq(s, 1, k - 1)
           b == SubSeq(s, k + 1, Len(s))
<1>2. /\ a \in Seq(S) /\ Len(a) = k - 1 /\ \A i \in 1 .. (k - 1) : a[i] = s[i]
  <2> DEFINE m == k - 1
  <2>1. m \in 0 .. Len(s)
    BY <1>1
  <2> HIDE DEF m
  <2>2. /\ SubSeq(s, 1, m) \in Seq(S) /\ Len(SubSeq(s, 1, m)) = m
        /\ \A i \in 1 .. m : SubSeq(s, 1, m)[i] = s[i]
    BY <2>1, CutParts
  <2> QED
    BY <2>2 DEF m
<1>3. /\ b \in Seq(S) /\ Len(b) = Len(s) - k /\ \A i \in 1 .. (Len(s) - k) : b[i] = s[k + i]
  <2>1. k \in 0 .. Len(s)
    BY <1>1
  <2> QED
    BY <2>1, CutParts
<1>4. RemoveAt(s, k) = a \o b
  BY DEF RemoveAt
<1> HIDE DEF a, b
<1>5. /\ a \o b \in Seq(S) /\ Len(a \o b) = Len(a) + Len(b)
      /\ \A i \in 1 .. (Len(a) + Len(b)) :
           (a \o b)[i] = IF i <= Len(a) THEN a[i] ELSE b[i - Len(a)]
  <2>1. a \in Seq(S) /\ b \in Seq(S)
    BY <1>2, <1>3
  <2> QED
    BY <2>1, ConcatProperties
<1>6. Len(a) + Len(b) = Len(s) - 1
  BY <1>1, <1>2, <1>3
<1>7. ASSUME NEW i \in 1 .. (Len(s) - 1)
      PROVE  (a \o b)[i] = IF i < k THEN s[i] ELSE s[i + 1]
  <2>1. CASE i < k
    <3>1. i \in 1 .. (k - 1) /\ i <= Len(a) /\ i \in 1 .. (Len(a) + Len(b))
      BY <1>1, <1>2, <1>6, <2>1
    <3>2. (a \o b)[i] = IF i <= Len(a) THEN a[i] ELSE b[i - Len(a)]
      BY <1>5, <3>1
    <3>3. a[i] = s[i]
      BY <1>2, <3>1
    <3> QED
      BY <2>1, <3>1, <3>2, <3>3, SMTT(30)
  <2>2. CASE ~ i < k
    <3>0. /\ Len(s) \in Nat /\ k \in Nat /\ i \in Nat
          /\ k <= i /\ i <= Len(s) - 1 /\ Len(a) = k - 1
      BY <1>1, <1>2, <2>2
    <3>1. i - Len(a) \in 1 .. (Len(s) - k) /\ ~ i <= Len(a) /\ k + (i - Len(a)) = i + 1
      BY ONLY <3>0
    <3>2. i \in 1 .. (Len(a) + Len(b))
      BY <1>6
    <3>3. b[i - Len(a)] = s[i + 1]
      BY <1>3, <3>1
    <3> QED
      BY <1>5, <2>2, <3>1, <3>2, <3>3
  <2> QED
    BY <2>1, <2>2
<1> QED
  BY <1>4, <1>5, <1>6, <1>7

\* A sequence of pieces that are there once, cut: the parts have none in common.
LEMMA CutOnce ==
  ASSUME NEW S, NEW s \in Seq(S), Once(s), NEW k \in 0 .. Len(s)
  PROVE  /\ Once(SubSeq(s, 1, k)) /\ Once(SubSeq(s, k + 1, Len(s)))
         /\ PiecesOf(SubSeq(s, 1, k)) \subseteq PiecesOf(s)
         /\ PiecesOf(SubSeq(s, k + 1, Len(s))) \subseteq PiecesOf(s)
         /\ Apart(PiecesOf(SubSeq(s, 1, k)), PiecesOf(SubSeq(s, k + 1, Len(s))))
<1> DEFINE a == SubSeq(s, 1, k)
           b == SubSeq(s, k + 1, Len(s))
<1>1. /\ a \in Seq(S) /\ b \in Seq(S) /\ Len(a) = k /\ Len(b) = Len(s) - k
      /\ \A i \in 1 .. k : a[i] = s[i]
      /\ \A i \in 1 .. (Len(s) - k) : b[i] = s[k + i]
  BY CutParts
<1> HIDE DEF a, b
<1>2. /\ DOMAIN a = 1 .. k /\ DOMAIN b = 1 .. (Len(s) - k) /\ DOMAIN s = 1 .. Len(s)
      /\ Len(s) \in Nat
  BY <1>1, LenProperties
<1>3. \A i \in DOMAIN a : i \in DOMAIN s /\ a[i] = s[i]
  BY <1>1, <1>2
<1>4. \A i \in DOMAIN b : k + i \in DOMAIN s /\ b[i] = s[k + i]
  BY <1>1, <1>2
<1>5. Once(a) /\ PiecesOf(a) \subseteq PiecesOf(s)
  BY <1>3 DEF Once, PiecesOf
<1>6. Once(b)
  <2>1. ASSUME NEW i \in DOMAIN b, NEW j \in DOMAIN b, b[i] = b[j] PROVE i = j
    <3>1. k + i = k + j
      BY <1>4, <2>1 DEF Once
    <3> QED
      BY <1>2, <3>1
  <2> QED
    BY <2>1 DEF Once
<1>7. PiecesOf(b) \subseteq PiecesOf(s)
  BY <1>4 DEF PiecesOf
<1>8. Apart(PiecesOf(a), PiecesOf(b))
  <2>1. ASSUME NEW i \in DOMAIN a, NEW j \in DOMAIN b, a[i] = b[j] PROVE FALSE
    <3>1. i = k + j
      BY <1>3, <1>4, <2>1 DEF Once
    <3> QED
      BY <1>2, <3>1
  <2> QED
    BY <2>1 DEF Apart, PiecesOf
<1> QED
  BY <1>5, <1>6, <1>7, <1>8 DEF a, b

\* Two sequences with no piece in common, joined
LEMMA JoinOnce ==
  ASSUME NEW S, NEW s \in Seq(S), NEW v \in Seq(S), Once(s), Once(v),
         Apart(PiecesOf(s), PiecesOf(v))
  PROVE  Once(s \o v) /\ PiecesOf(s \o v) \subseteq PiecesOf(s) \cup PiecesOf(v)
<1> DEFINE w == s \o v
<1>1. /\ w \in Seq(S) /\ Len(w) = Len(s) + Len(v)
      /\ \A i \in 1 .. (Len(s) + Len(v)) : w[i] = IF i <= Len(s) THEN s[i] ELSE v[i - Len(s)]
  BY ConcatProperties
<1> HIDE DEF w
<1>2. /\ DOMAIN s = 1 .. Len(s) /\ DOMAIN v = 1 .. Len(v) /\ DOMAIN w = 1 .. (Len(s) + Len(v))
      /\ Len(s) \in Nat /\ Len(v) \in Nat
  BY <1>1, LenProperties
<1>3. \A i \in DOMAIN w : \/ i \in DOMAIN s /\ w[i] = s[i]
                          \/ i - Len(s) \in DOMAIN v /\ w[i] = v[i - Len(s)]
  BY <1>1, <1>2
<1>4. PiecesOf(w) \subseteq PiecesOf(s) \cup PiecesOf(v)
  BY <1>3 DEF PiecesOf
<1>5. ASSUME NEW i \in DOMAIN w, NEW j \in DOMAIN w, w[i] = w[j] PROVE i = j
  <2>1. CASE i <= Len(s) /\ j <= Len(s)
    BY <1>1, <1>2, <1>5, <2>1 DEF Once
  <2>2. CASE i > Len(s) /\ j > Len(s)
    <3>1. /\ i - Len(s) \in DOMAIN v /\ j - Len(s) \in DOMAIN v
          /\ w[i] = v[i - Len(s)] /\ w[j] = v[j - Len(s)]
      BY <1>1, <1>2, <2>2
    <3>2. i - Len(s) = j - Len(s)
      BY <1>5, <3>1 DEF Once
    <3> QED
      BY <1>2, <3>2
  <2>3. \A x \in DOMAIN w, y \in DOMAIN w :
          x <= Len(s) /\ y > Len(s) => w[x] \in PiecesOf(s) /\ w[y] \in PiecesOf(v)
    <3>1. ASSUME NEW x \in DOMAIN w, NEW y \in DOMAIN w, x <= Len(s), y > Len(s)
          PROVE  w[x] \in PiecesOf(s) /\ w[y] \in PiecesOf(v)
      <4>1. x \in DOMAIN s /\ w[x] = s[x] /\ y - Len(s) \in DOMAIN v /\ w[y] = v[y - Len(s)]
        BY <1>1, <1>2, <3>1
      <4> QED
        BY <4>1 DEF PiecesOf
    <3> QED
      BY <3>1
  <2>4. \A x \in DOMAIN w, y \in DOMAIN w : x <= Len(s) /\ y > Len(s) => w[x] # w[y]
    BY <2>3 DEF Apart
  <2> QED
    BY <1>2, <1>5, <2>1, <2>2, <2>4
<1> QED
  BY <1>4, <1>5 DEF Once, w

\* A chunk more, none of whose pieces was there
LEMMA AppendAllOnce ==
  ASSUME NEW S, NEW ss \in Seq(Seq(S)), NEW v \in Seq(S), AllOnce(ss), Once(v),
         Apart(AllOf(ss), PiecesOf(v))
  PROVE  AllOnce(Append(ss, v)) /\ AllOf(Append(ss, v)) = AllOf(ss) \cup PiecesOf(v)
<1> DEFINE w == Append(ss, v)
<1>1. /\ DOMAIN w = 1 .. (Len(ss) + 1) /\ DOMAIN ss = 1 .. Len(ss) /\ Len(ss) \in Nat
      /\ \A k \in 1 .. Len(ss) : w[k] = ss[k]
      /\ w[Len(ss) + 1] = v
  <2>1. /\ w \in Seq(Seq(S)) /\ Len(w) = Len(ss) + 1 /\ w[Len(ss) + 1] = v
        /\ \A k \in 1 .. Len(ss) : w[k] = ss[k]
    BY AppendProperties
  <2> HIDE DEF w
  <2> QED
    BY <2>1, LenProperties
<1> HIDE DEF w
<1>2. \A k \in DOMAIN w : (k \in DOMAIN ss /\ w[k] = ss[k]) \/ (k = Len(ss) + 1 /\ w[k] = v)
  BY <1>1
<1>3. \A k \in DOMAIN ss : k \in DOMAIN w /\ w[k] = ss[k] /\ k # Len(ss) + 1
  BY <1>1
<1>4. Len(ss) + 1 \in DOMAIN w
  BY <1>1
<1>5. AllOf(w) = AllOf(ss) \cup PiecesOf(v)
  <2>1. AllOf(w) \subseteq AllOf(ss) \cup PiecesOf(v)
    BY <1>2 DEF AllOf
  <2>2. AllOf(ss) \subseteq AllOf(w)
    BY <1>3 DEF AllOf
  <2>3. PiecesOf(v) \subseteq AllOf(w)
    BY <1>1, <1>4 DEF AllOf
  <2> QED
    BY <2>1, <2>2, <2>3
<1>6. ASSUME NEW k \in DOMAIN w, NEW l \in DOMAIN w, NEW i \in DOMAIN w[k], NEW j \in DOMAIN w[l],
             w[k][i] = w[l][j]
      PROVE  k = l /\ i = j
  <2>1. CASE k \in DOMAIN ss /\ l \in DOMAIN ss
    BY <1>3, <1>6, <2>1 DEF AllOnce
  <2>2. CASE k = Len(ss) + 1 /\ l = Len(ss) + 1
    BY <1>1, <1>6, <2>2 DEF Once
  <2>3. \A x \in DOMAIN ss : \A y \in DOMAIN ss[x], z \in DOMAIN v : ss[x][y] # v[z]
    <3>1. ASSUME NEW x \in DOMAIN ss, NEW y \in DOMAIN ss[x], NEW z \in DOMAIN v
          PROVE  ss[x][y] # v[z]
      <4>1. ss[x][y] \in AllOf(ss)
        BY DEF AllOf, PiecesOf
      <4>2. v[z] \in PiecesOf(v)
        BY DEF PiecesOf
      <4> QED
        BY <4>1, <4>2 DEF Apart
    <3> QED
      BY <3>1
  <2>4. CASE k \in DOMAIN ss /\ l = Len(ss) + 1
    BY <1>1, <1>3, <1>6, <2>3, <2>4
  <2>5. CASE k = Len(ss) + 1 /\ l \in DOMAIN ss
    BY <1>1, <1>3, <1>6, <2>3, <2>5
  <2> QED
    BY <1>2, <2>1, <2>2, <2>4, <2>5
<1> QED
  BY <1>5, <1>6 DEF AllOnce, w

\* A chunk less: what was in it is not in the others.
LEMMA RemoveAllOnce ==
  ASSUME NEW S, NEW ss \in Seq(Seq(S)), NEW k \in DOMAIN ss, AllOnce(ss)
  PROVE  /\ AllOnce(RemoveAt(ss, k)) /\ AllOf(RemoveAt(ss, k)) \subseteq AllOf(ss)
         /\ Apart(AllOf(RemoveAt(ss, k)), PiecesOf(ss[k]))
         /\ Once(ss[k]) /\ PiecesOf(ss[k]) \subseteq AllOf(ss)
<1> DEFINE w == RemoveAt(ss, k)
           at(n) == IF n < k THEN n ELSE n + 1
<1>1. /\ w \in Seq(Seq(S)) /\ Len(w) = Len(ss) - 1
      /\ \A n \in 1 .. (Len(ss) - 1) : w[n] = IF n < k THEN ss[n] ELSE ss[n + 1]
  BY TakenOut
<1> HIDE DEF w
<1>2. /\ DOMAIN w = 1 .. (Len(ss) - 1) /\ DOMAIN ss = 1 .. Len(ss) /\ Len(ss) \in Nat
      /\ k \in 1 .. Len(ss)
  BY <1>1, LenProperties
<1>3. \A n \in DOMAIN w : at(n) \in DOMAIN ss /\ w[n] = ss[at(n)] /\ at(n) # k
  <2>1. ASSUME NEW n \in DOMAIN w PROVE at(n) \in DOMAIN ss /\ at(n) # k
    BY <1>2, SMTT(30)
  <2>2. ASSUME NEW n \in DOMAIN w PROVE w[n] = ss[at(n)]
    BY <1>1, <1>2
  <2> QED
    BY <2>1, <2>2
<1>4. \A m, n \in DOMAIN w : at(m) = at(n) => m = n
  BY <1>2, SMTT(30)
<1> HIDE DEF at
<1>5. AllOnce(w)
  BY <1>3, <1>4 DEF AllOnce
<1>6. AllOf(w) \subseteq AllOf(ss)
  BY <1>3 DEF AllOf
<1>7. Apart(AllOf(w), PiecesOf(ss[k]))
  <2>1. \A n \in DOMAIN w : \A i \in DOMAIN w[n], j \in DOMAIN ss[k] : w[n][i] # ss[k][j]
    BY <1>3 DEF AllOnce
  <2>2. ASSUME NEW p, p \in AllOf(w), p \in PiecesOf(ss[k]) PROVE FALSE
    BY <2>1, <2>2 DEF AllOf, PiecesOf
  <2> QED
    BY <2>2 DEF Apart
<1>8. Once(ss[k]) /\ PiecesOf(ss[k]) \subseteq AllOf(ss)
  BY DEF AllOnce, Once, AllOf
<1> QED
  BY <1>5, <1>6, <1>7, <1>8 DEF w
-----------------------------------------------------------------------------
(* Nothing twice *)

\* The pieces on their way on a connection, each there once, and those that
\* were published or wait in the pipe
Carried(s) == IF proto = "tcp" THEN PiecesOf(s) ELSE AllOf(s)
CarriedOnce(s) == IF proto = "tcp" THEN Once(s) ELSE AllOnce(s)
Out == AllOf(published) \cup PiecesOf(pipe)
OutOnce == AllOnce(published) /\ Once(pipe) /\ Apart(AllOf(published), PiecesOf(pipe))

\* The pieces of the first n datagrams, with what only a stream can tear
Known(n) == {b \in Byte : b[1] <= n /\ (b[3] = 0 \/ (proto = "tcp" /\ b[2] = 1))}

\* The router reads the datagrams by their numbers.
NumInv ==
  /\ \A i \in DOMAIN taken : taken[i] = i
  /\ \A i \in DOMAIN subq : subq[i] = Len(taken) + i

\* A piece of the first n datagrams, and no other, is in one place.
Sole(f, out, n) ==
  /\ out \subseteq Known(n)
  /\ \A c \in Conn : CarriedOnce(f[c].stream) /\ Carried(f[c].stream) \subseteq Known(n)
  /\ \A c \in Conn : Apart(Carried(f[c].stream), out)
  /\ \A b, c \in Conn : b # c => Apart(Carried(f[b].stream), Carried(f[c].stream))

SoleInv == NumInv /\ OutOnce /\ Sole(conn, Out, Len(taken))

\* What a step may do: on connection c pieces are put, and pieces that were there
\* are taken out of it; others may be lost anywhere.
Shift(f, g, out, after, c, more, moved) ==
  /\ \A x \in Conn \ {c} : /\ CarriedOnce(g[x].stream)
                           /\ Carried(g[x].stream) \subseteq Carried(f[x].stream)
  /\ CarriedOnce(g[c].stream) /\ Carried(g[c].stream) \subseteq Carried(f[c].stream) \cup more
  /\ after \subseteq out \cup moved
  /\ moved \subseteq Carried(f[c].stream) /\ Apart(moved, Carried(g[c].stream))

\* It leaves each piece in one place if those that are put are new.
LEMMA SoleStep ==
  ASSUME NEW f, NEW g, NEW out, NEW after, NEW n \in Nat, NEW m \in Nat, n <= m,
         NEW c \in Conn, NEW more, NEW moved,
         Sole(f, out, n), Shift(f, g, out, after, c, more, moved),
         more \subseteq Known(m), Apart(more, Known(n))
  PROVE  Sole(g, after, m)
<1> DEFINE F(x) == Carried(f[x].stream)
           G(x) == Carried(g[x].stream)
           K == Known(n)
           L == Known(m)
<1>1. K \subseteq L
  BY DEF Known, Byte, Dgram
<1>2. /\ out \subseteq K
      /\ \A x \in Conn : F(x) \subseteq K /\ F(x) \cap out = {}
      /\ \A x, y \in Conn : x # y => F(x) \cap F(y) = {}
  BY DEF Sole, Apart
<1>3. /\ \A x \in Conn \ {c} : G(x) \subseteq F(x)
      /\ G(c) \subseteq F(c) \cup more
      /\ after \subseteq out \cup moved /\ moved \subseteq F(c) /\ moved \cap G(c) = {}
      /\ more \subseteq L /\ more \cap K = {}
  BY DEF Shift, Apart
<1>4. \A x \in Conn : CarriedOnce(g[x].stream)
  BY DEF Shift
<1> HIDE DEF F, G, K, L
<1>5. after \subseteq L
  BY <1>1, <1>2, <1>3
<1>6. ASSUME NEW x \in Conn PROVE G(x) \subseteq L /\ G(x) \cap after = {}
  <2>1. CASE x = c
    BY <1>1, <1>2, <1>3, <2>1
  <2>2. CASE x # c
    BY <1>1, <1>2, <1>3, <2>2
  <2> QED
    BY <2>1, <2>2
<1>7. ASSUME NEW x \in Conn, NEW y \in Conn, x # y PROVE G(x) \cap G(y) = {}
  <2>1. CASE x = c
    BY <1>2, <1>3, <1>7, <2>1
  <2>2. CASE y = c
    BY <1>2, <1>3, <1>7, <2>2
  <2>3. CASE x # c /\ y # c
    BY <1>2, <1>3, <1>7, <2>3
  <2> QED
    BY <2>1, <2>2, <2>3
<1> QED
  BY <1>4, <1>5, <1>6, <1>7 DEF Sole, Apart, G, L

\* In particular if every stream holds less
LEMMA SoleLess ==
  ASSUME NEW f, NEW g, NEW out, NEW after, NEW n \in Nat, NEW m \in Nat, n <= m,
         Sole(f, out, n), after \subseteq out,
         \A x \in Conn : /\ CarriedOnce(g[x].stream)
                         /\ Carried(g[x].stream) \subseteq Carried(f[x].stream)
  PROVE  Sole(g, after, m)
<1>1. 1 \in Conn
  BY DEF Conn
<1>2. Shift(f, g, out, after, 1, {}, {})
  BY <1>1 DEF Shift, Apart
<1>3. {} \subseteq Known(m) /\ Apart({}, Known(n))
  BY DEF Apart
<1> QED
  BY <1>1, <1>2, <1>3, SoleStep

\* Nothing is on its way where there is nothing.
LEMMA NothingCarried == CarriedOnce(<<>>) /\ Carried(<<>>) = {}
BY DEF CarriedOnce, Carried, Once, AllOnce, PiecesOf, AllOf

\* if every stream is as it was or is gone,
LEMMA SoleSame ==
  ASSUME NEW f, NEW g, NEW out, NEW after, NEW n \in Nat, NEW m \in Nat, n <= m,
         Sole(f, out, n), after \subseteq out,
         \A x \in Conn : g[x].stream \in {f[x].stream, <<>>}
  PROVE  Sole(g, after, m)
<1>1. ASSUME NEW x \in Conn
      PROVE  /\ CarriedOnce(g[x].stream)
             /\ Carried(g[x].stream) \subseteq Carried(f[x].stream)
  <2>1. CASE g[x].stream = f[x].stream
    BY <2>1 DEF Sole
  <2>2. CASE g[x].stream = <<>>
    <3>1. CarriedOnce(g[x].stream) /\ Carried(g[x].stream) = {}
      BY <2>2, NothingCarried
    <3> QED
      BY <3>1
  <2> QED
    BY <2>1, <2>2
<1> QED
  BY <1>1, SoleLess

\* What is published, or stays in the pipe, of a chunk that has not been
\* published before, is there once.
LEMMA PublishOnce ==
  ASSUME BridgeType, OutOnce, NEW chunk \in Seq(Byte), Once(chunk), Apart(Out, PiecesOf(chunk)),
         Publish(chunk)
  PROVE  OutOnce' /\ Out' \subseteq Out \cup PiecesOf(chunk)
<1>1. /\ published \in Seq(Seq(Byte)) /\ pipe \in Seq(Byte)
      /\ AllOnce(published) /\ Once(pipe) /\ Apart(AllOf(published), PiecesOf(pipe))
      /\ Apart(AllOf(published), PiecesOf(chunk)) /\ Apart(PiecesOf(pipe), PiecesOf(chunk))
  BY DEF BridgeType, TypeOK, OutOnce, Out, Apart
<1>2. CASE SendChunk(chunk)
  <2>1. AllOnce(Append(published, chunk))
        /\ AllOf(Append(published, chunk)) = AllOf(published) \cup PiecesOf(chunk)
    BY <1>1, AppendAllOnce
  <2>2. pipe' = pipe
    BY <1>2 DEF SendChunk
  <2>3. CASE published' = published
    BY <1>1, <2>2, <2>3 DEF OutOnce, Out
  <2>4. CASE published' = Append(published, chunk)
    <3>1. AllOnce(published') /\ AllOf(published') = AllOf(published) \cup PiecesOf(chunk)
      BY <2>1, <2>4
    <3>2. Once(pipe') /\ PiecesOf(pipe') = PiecesOf(pipe)
      BY <1>1, <2>2
    <3>3. Apart(AllOf(published'), PiecesOf(pipe'))
      BY <1>1, <3>1, <3>2 DEF Apart
    <3> QED
      BY <3>1, <3>2, <3>3 DEF OutOnce, Out
  <2> QED
    BY <1>2, <2>3, <2>4 DEF SendChunk
<1>3. CASE SpliceChunk(chunk)
  <2> DEFINE bytes == pipe \o chunk
  <2>1. PICK k \in 0 .. Len(chunk) :
          /\ published' = IF k = 0 THEN published ELSE Append(published, SubSeq(bytes, 1, k))
          /\ pipe' = SubSeq(bytes, k + 1, Len(bytes))
    BY <1>3 DEF SpliceChunk, InPipe
  <2>2. /\ bytes \in Seq(Byte) /\ k \in 0 .. Len(bytes)
    BY <1>1, <2>1, ConcatProperties, LenProperties
  <2>3. Once(bytes) /\ PiecesOf(bytes) \subseteq PiecesOf(pipe) \cup PiecesOf(chunk)
    BY <1>1, JoinOnce
  <2> HIDE DEF bytes
  <2> DEFINE a == SubSeq(bytes, 1, k)
             b == SubSeq(bytes, k + 1, Len(bytes))
  <2>4. /\ Once(a) /\ Once(b) /\ Apart(PiecesOf(a), PiecesOf(b))
        /\ PiecesOf(a) \subseteq PiecesOf(bytes) /\ PiecesOf(b) \subseteq PiecesOf(bytes)
    BY <2>2, <2>3, CutOnce
  <2>5. a \in Seq(Byte)
    BY <2>2, CutParts
  <2>6. published' = (IF k = 0 THEN published ELSE Append(published, a)) /\ pipe' = b
    BY <2>1
  <2> HIDE DEF a, b
  <2>7. Apart(AllOf(published), PiecesOf(a)) /\ Apart(AllOf(published), PiecesOf(b))
    BY <1>1, <2>3, <2>4 DEF Apart
  <2>8. AllOnce(Append(published, a))
        /\ AllOf(Append(published, a)) = AllOf(published) \cup PiecesOf(a)
    BY <1>1, <2>4, <2>5, <2>7, AppendAllOnce
  <2>9. Once(pipe') /\ PiecesOf(pipe') = PiecesOf(b)
    BY <2>4, <2>6
  <2>10. AllOnce(published') /\ AllOf(published') \subseteq AllOf(published) \cup PiecesOf(a)
    <3>1. CASE k = 0
      BY <1>1, <2>6, <3>1
    <3>2. CASE k # 0
      BY <2>6, <2>8, <3>2
    <3> QED
      BY <3>1, <3>2
  <2>11. Apart(AllOf(published'), PiecesOf(pipe'))
    BY <2>4, <2>7, <2>9, <2>10 DEF Apart
  <2>12. Out' \subseteq Out \cup PiecesOf(chunk)
    BY <2>3, <2>4, <2>9, <2>10 DEF Out
  <2> QED
    BY <2>9, <2>10, <2>11, <2>12 DEF OutOnce
<1> QED
  BY <1>2, <1>3 DEF Publish

\* The pieces of the next datagram, sent whole
LEMMA BytesNew ==
  ASSUME NEW n \in Nat, n + 1 \in Dgram
  PROVE  /\ Once(Bytes(n + 1)) /\ PiecesOf(Bytes(n + 1)) \subseteq Known(n + 1)
         /\ Apart(PiecesOf(Bytes(n + 1)), Known(n))
         /\ \A b \in PiecesOf(Bytes(n + 1)) : b[3] = 0
<1> DEFINE d == n + 1
           s == Bytes(d)
           a == <<d, 1, 0>>
           b == <<d, 2, 0>>
<1>1. DOMAIN s = {1, 2} /\ s[1] = a /\ s[2] = b
  BY DEF Bytes
<1>2. a \in Byte /\ b \in Byte
  BY DEF Byte
<1>3. a[1] = d /\ b[1] = d /\ a # b /\ a[3] = 0 /\ b[3] = 0
  OBVIOUS
<1>4. d \in Nat /\ ~ d <= n
  OBVIOUS
<1> HIDE DEF s, d, a, b
<1>5. PiecesOf(s) = {a, b} /\ Once(s)
  BY <1>1, <1>3 DEF PiecesOf, Once
<1>6. a \in Known(d) /\ b \in Known(d)
  BY <1>2, <1>3, <1>4 DEF Known
<1>7. a \notin Known(n) /\ b \notin Known(n)
  BY <1>3, <1>4 DEF Known
<1>8. /\ Once(s) /\ PiecesOf(s) \subseteq Known(d) /\ Apart(PiecesOf(s), Known(n))
      /\ \A x \in PiecesOf(s) : x[3] = 0
  BY <1>3, <1>5, <1>6, <1>7 DEF Apart
<1> QED
  BY <1>8 DEF s, d

\* What send()s that take a part of it put into a stream
LEMMA TornNew ==
  ASSUME proto = "tcp", NEW n \in Nat, n + 1 \in Dgram, NEW k \in 0 .. MAX_RETR
  PROVE  LET s == [i \in 1 .. k |-> <<n + 1, 1, i>>]
         IN  /\ s \in Seq(Byte) /\ Once(s) /\ PiecesOf(s) \subseteq Known(n + 1)
             /\ Apart(PiecesOf(s), Known(n))
             /\ \A b \in PiecesOf(s) : b[3] # 0
<1> DEFINE d == n + 1
           e(i) == <<d, 1, i>>
           s == [i \in 1 .. k |-> e(i)]
<1>1. d \in Dgram /\ d \in Nat /\ ~ d <= n /\ k \in Nat
  OBVIOUS
<1> HIDE DEF d
<1>2. \A i \in 1 .. k : e(i) \in Byte
  BY <1>1 DEF Byte
<1>3. s \in Seq(Byte)
  BY <1>1, <1>2
<1>4. /\ \A i \in 1 .. k : e(i)[1] = d /\ e(i)[2] = 1 /\ e(i)[3] = i
      /\ DOMAIN s = 1 .. k /\ \A i \in 1 .. k : s[i] = e(i)
  OBVIOUS
<1> HIDE DEF e, s
<1>5. \A b \in PiecesOf(s) : \E i \in 1 .. k : b = e(i)
  BY <1>4 DEF PiecesOf
<1>6. Once(s)
  <2>1. \A i, j \in 1 .. k : e(i) = e(j) => i = j
    BY <1>4
  <2> QED
    BY <1>4, <2>1 DEF Once
<1>7. \A i \in 1 .. k : e(i) \in Known(d) /\ e(i) \notin Known(n) /\ e(i)[3] # 0
  <2> SUFFICES ASSUME NEW i \in 1 .. k
               PROVE  e(i) \in Known(d) /\ e(i) \notin Known(n) /\ e(i)[3] # 0
    OBVIOUS
  <2>1. e(i) \in Byte /\ e(i)[1] = d /\ e(i)[2] = 1 /\ e(i)[3] = i
    BY <1>2, <1>4
  <2> QED
    BY <1>1, <2>1 DEF Known
<1>8. /\ PiecesOf(s) \subseteq Known(d) /\ Apart(PiecesOf(s), Known(n))
      /\ \A b \in PiecesOf(s) : b[3] # 0
  BY <1>5, <1>7 DEF Apart
<1> QED
  BY <1>3, <1>6, <1>8 DEF s, e, d

LEMMA SentNew ==
  ASSUME proto = "tcp", NEW n \in Nat, n + 1 \in Dgram,
         NEW k \in 0 .. MAX_RETR, NEW all \in BOOLEAN
  PROVE  /\ Once(Sent(n + 1, k, all)) /\ PiecesOf(Sent(n + 1, k, all)) \subseteq Known(n + 1)
         /\ Apart(PiecesOf(Sent(n + 1, k, all)), Known(n))
<1> DEFINE d == n + 1
           s == [i \in 1 .. k |-> <<d, 1, i>>]
           t == IF all THEN Bytes(d) ELSE <<>>
<1>1. /\ s \in Seq(Byte) /\ Once(s) /\ PiecesOf(s) \subseteq Known(d)
      /\ Apart(PiecesOf(s), Known(n)) /\ \A b \in PiecesOf(s) : b[3] # 0
  BY TornNew
<1>2. /\ t \in Seq(Byte) /\ Once(t) /\ PiecesOf(t) \subseteq Known(d)
      /\ Apart(PiecesOf(t), Known(n)) /\ \A b \in PiecesOf(t) : b[3] = 0
  <2>1. CASE all
    BY <2>1, BytesType, BytesNew
  <2>2. CASE ~ all
    <3>1. t = <<>>
      BY <2>2
    <3>2. PiecesOf(<<>>) = {} /\ Once(<<>>)
      BY DEF PiecesOf, Once
    <3> HIDE DEF t, d
    <3> QED
      BY <3>1, <3>2, EmptySeq DEF Apart
  <2> QED
    BY <2>1, <2>2
<1>3. Sent(d, k, all) = s \o t
  BY DEF Sent
<1> HIDE DEF s, t, d
<1>4. Apart(PiecesOf(s), PiecesOf(t))
  BY <1>1, <1>2 DEF Apart
<1>5. Once(s \o t) /\ PiecesOf(s \o t) \subseteq PiecesOf(s) \cup PiecesOf(t)
  BY <1>1, <1>2, <1>4, JoinOnce
<1>6. /\ Once(Sent(d, k, all)) /\ PiecesOf(Sent(d, k, all)) \subseteq Known(d)
      /\ Apart(PiecesOf(Sent(d, k, all)), Known(n))
  BY <1>1, <1>2, <1>3, <1>5 DEF Apart
<1> QED
  BY <1>6 DEF d

\* Sending touches what is on its way on that connection, and adds to it.
LEMMA SendStreams ==
  ASSUME conn \in Conns, NEW c \in Conn, NEW bytes \in Seq(Byte)
  PROVE  /\ \A x \in Conn \ {c} : SendOn(c, bytes)[x].stream = conn[x].stream
         /\ \/ SendOn(c, bytes)[c].stream = conn[c].stream
            \/ proto = "tcp" /\ SendOn(c, bytes)[c].stream = conn[c].stream \o bytes
            \/ proto # "tcp" /\ SendOn(c, bytes)[c].stream = Append(conn[c].stream, bytes)
<1>1. \A x \in Conn : [conn EXCEPT ![c].err = TRUE][x].stream = conn[x].stream
  BY EditStreams
<1>2. CASE proto = "tcp"
  <2>1. PICK w : w = conn[c].stream \o bytes
    OBVIOUS
  <2>2. SendOn(c, bytes) \in {[conn EXCEPT ![c].err = TRUE], [conn EXCEPT ![c].stream = w]}
    BY <1>2, <2>1 DEF SendOn
  <2>3. \A x \in Conn : [conn EXCEPT ![c].stream = w][x].stream
                          = IF x = c THEN w ELSE conn[x].stream
    BY PutStream DEF Conns, ConnState
  <2>4. CASE SendOn(c, bytes) = [conn EXCEPT ![c].err = TRUE]
    BY <1>1, <2>4
  <2>5. CASE SendOn(c, bytes) = [conn EXCEPT ![c].stream = w]
    <3>1. \A x \in Conn : SendOn(c, bytes)[x].stream = IF x = c THEN w ELSE conn[x].stream
      BY <2>3, <2>5
    <3> QED
      BY <1>2, <2>1, <3>1
  <2> QED
    BY <2>2, <2>4, <2>5
<1>3. CASE proto # "tcp"
  <2>1. PICK w : w = Append(conn[c].stream, bytes)
    OBVIOUS
  <2> DEFINE f == [conn EXCEPT ![c].stream = w]
  <2>2. SendOn(c, bytes) \in {[conn EXCEPT ![c].err = TRUE], [f EXCEPT ![c].err = FALSE]}
    BY <1>3, <2>1 DEF SendOn
  <2>3. w \in Stream
    <3>1. conn[c].stream \in Seq(Seq(Byte))
      BY <1>3, EditType DEF Stream
    <3> QED
      BY <1>3, <2>1, <3>1, AppendProperties DEF Stream
  <2>4. f \in Conns /\ \A x \in Conn : f[x].stream = IF x = c THEN w ELSE conn[x].stream
    <3>1. f \in Conns
      BY <2>3, EditType
    <3>2. \A x \in Conn : f[x].stream = IF x = c THEN w ELSE conn[x].stream
      BY PutStream DEF Conns, ConnState
    <3> QED
      BY <3>1, <3>2
  <2> HIDE DEF f
  <2>5. \A x \in Conn : [f EXCEPT ![c].err = FALSE][x].stream = f[x].stream
    BY <2>4, EditStreams
  <2>6. CASE SendOn(c, bytes) = [conn EXCEPT ![c].err = TRUE]
    BY <1>1, <2>6
  <2>7. CASE SendOn(c, bytes) = [f EXCEPT ![c].err = FALSE]
    <3>1. \A x \in Conn : SendOn(c, bytes)[x].stream = IF x = c THEN w ELSE conn[x].stream
      BY <2>4, <2>5, <2>7
    <3> QED
      BY <1>3, <2>1, <3>1
  <2> QED
    BY <2>2, <2>6, <2>7
<1> QED
  BY <1>2, <1>3

\* More on a connection, as bytes or as a datagram
LEMMA CarryMore ==
  ASSUME NEW s \in Stream, NEW v \in Seq(Byte), CarriedOnce(s), Once(v),
         Apart(Carried(s), PiecesOf(v)), NEW w,
         \/ w = s \/ (proto = "tcp" /\ w = s \o v) \/ (proto # "tcp" /\ w = Append(s, v))
  PROVE  CarriedOnce(w) /\ Carried(w) \subseteq Carried(s) \cup PiecesOf(v)
<1>1. CASE w = s
  BY <1>1
<1>2. CASE proto = "tcp" /\ w = s \o v
  <2>1. s \in Seq(Byte) /\ Once(s) /\ Apart(PiecesOf(s), PiecesOf(v))
    BY <1>2 DEF Stream, Carried, CarriedOnce
  <2> QED
    BY <1>2, <2>1, JoinOnce DEF Carried, CarriedOnce
<1>3. CASE proto # "tcp" /\ w = Append(s, v)
  <2>1. s \in Seq(Seq(Byte)) /\ AllOnce(s) /\ Apart(AllOf(s), PiecesOf(v))
    BY <1>3 DEF Stream, Carried, CarriedOnce
  <2>2. AllOnce(w) /\ AllOf(w) = AllOf(s) \cup PiecesOf(v)
    BY <1>3, <2>1, AppendAllOnce
  <2> QED
    BY <1>3, <2>2 DEF Carried, CarriedOnce
<1> QED
  BY <1>1, <1>2, <1>3, Zenon

\* Forwarding the next datagram puts its pieces on their way once, or not at all.
LEMMA SoleForward ==
  ASSUME conn \in Conns, NEW n \in Nat, n + 1 \in Dgram, NEW out, Sole(conn, out, n),
         NEW c \in Conn, NEW v \in Seq(Byte), Once(v), PiecesOf(v) \subseteq Known(n + 1),
         Apart(PiecesOf(v), Known(n))
  PROVE  Sole(SendOn(c, v), out, n + 1)
<1> DEFINE d == n + 1
           s == conn[c].stream
           g == SendOn(c, v)
<1>1. d \in Dgram /\ n <= d /\ d \in Nat /\ s \in Stream
  <2>1. d \in Dgram /\ n <= d /\ d \in Nat
    OBVIOUS
  <2>2. s \in Stream
    BY EditType
  <2> QED
    BY <2>1, <2>2
<1>2. /\ Once(v) /\ PiecesOf(v) \subseteq Known(d) /\ Apart(PiecesOf(v), Known(n))
  OBVIOUS
<1>3. Carried(s) \subseteq Known(n) /\ CarriedOnce(s)
  BY DEF Sole
<1>4. Apart(Carried(s), PiecesOf(v))
  BY <1>2, <1>3 DEF Apart
<1>5. /\ \A x \in Conn \ {c} : g[x].stream = conn[x].stream
      /\ \/ g[c].stream = s
         \/ proto = "tcp" /\ g[c].stream = s \o v
         \/ proto # "tcp" /\ g[c].stream = Append(s, v)
  BY <1>1, SendStreams
<1> DEFINE w == g[c].stream
<1> HIDE DEF d, g
<1>6. CarriedOnce(w) /\ Carried(w) \subseteq Carried(s) \cup PiecesOf(v)
  <2>1. s \in Stream /\ (w = s \/ (proto = "tcp" /\ w = s \o v)
                               \/ (proto # "tcp" /\ w = Append(s, v)))
    BY <1>1, <1>5
  <2> HIDE DEF w, s
  <2> QED
    BY <1>1, <1>2, <1>3, <1>4, <2>1, CarryMore
<1>7. \A x \in Conn \ {c} : /\ CarriedOnce(g[x].stream)
                            /\ Carried(g[x].stream) \subseteq Carried(conn[x].stream)
  BY <1>5 DEF Sole
<1>8. Shift(conn, g, out, out, c, PiecesOf(v), {})
  BY <1>6, <1>7 DEF Shift, Apart
<1>9. Sole(g, out, d)
  BY <1>1, <1>2, <1>8, SoleStep
<1> QED
  BY <1>9 DEF g, d

\* What is on its way on a connection whose end the dealer closes is dropped,
\* on the others it stays.
LEMMA ShutStreams ==
  ASSUME conn \in Conns, NEW c \in Conn, NEW e, NEW x \in Conn
  PROVE  ShutWith(c, e)[x].stream = IF x = c THEN <<>> ELSE conn[x].stream
<1> DEFINE f == [conn EXCEPT ![c].d = "closed"]
           g == [f EXCEPT ![c].stream = <<>>]
           h == [g EXCEPT ![c].err = @ \/ e]
<1>1. f \in Conns /\ f[x].stream = conn[x].stream
  <2>1. f \in Conns
    BY EditType
  <2>2. f[x].stream = conn[x].stream
    BY EditStreams
  <2> QED
    BY <2>1, <2>2
<1>2. g \in Conns /\ g[x].stream = IF x = c THEN <<>> ELSE f[x].stream
  <2> HIDE DEF f
  <2>1. g \in Conns
    BY <1>1, NoBytesType, EditType
  <2>2. g[x].stream = IF x = c THEN <<>> ELSE f[x].stream
    <3> DEFINE v == <<>>
    <3> HIDE DEF v
    <3>1. [f EXCEPT ![c].stream = v][x].stream = IF x = c THEN v ELSE f[x].stream
      BY <1>1, EditStreams
    <3> QED
      BY <3>1 DEF v
  <2> QED
    BY <2>1, <2>2
<1>3. h[x].stream = g[x].stream
  <2> HIDE DEF g
  <2> QED
    BY <1>2, EditStreams
<1>4. ShutWith(c, e) = h
  BY DEF ShutWith
<1> HIDE DEF f, g, h
<1> QED
  BY <1>1, <1>2, <1>3, <1>4

LEMMA DealerShutStreams ==
  ASSUME conn \in Conns, NEW c \in Conn, NEW x \in Conn
  PROVE  DealerShut(c)[x].stream = IF x = c THEN <<>> ELSE conn[x].stream
<1>1. DealerShut(c) = ShutWith(c, conn[c].stream # <<>>)
  BY DEF DealerShut, ShutWith
<1> QED
  BY <1>1, ShutStreams

\* Only forwarding touches what is on its way, of all the router does.
LEMMA RouterStreams ==
  ASSUME BridgeType, RouterNext, ~ SubCb, NEW x \in Conn
  PROVE  conn'[x].stream = conn[x].stream
<1>1. conn \in Conns
  BY ConnTypes
<1>2. CASE UNCHANGED conn
  BY <1>2
<1>3. CASE conn' = RouterGone
  BY <1>1, <1>3, GoneStreams
<1>4. ASSUME NEW c \in Conn, conn' = [conn EXCEPT ![c].r = "open"]
      PROVE  conn'[x].stream = conn[x].stream
  BY <1>1, <1>4, EditStreams
<1>5. ASSUME NEW c \in Conn, conn' = [conn EXCEPT ![c].r = "open", ![c].d = "queued"]
      PROVE  conn'[x].stream = conn[x].stream
  <2> DEFINE f == [conn EXCEPT ![c].r = "open"]
  <2>1. f \in Conns
    BY <1>1, EditType
  <2>a. f[x].stream = conn[x].stream
    BY <1>1, EditStreams
  <2>2. conn' = [f EXCEPT ![c].d = "queued"]
    BY <1>5
  <2> HIDE DEF f
  <2> QED
    BY <2>1, <2>a, <2>2, EditStreams
<1>6. CASE RtrCb
  <2>1. \/ UNCHANGED conn
        \/ rtr.fd \in Conn /\ conn' \in {[conn EXCEPT ![rtr.fd].r = "closed"],
                                         [conn EXCEPT ![rtr.fd].err = FALSE]}
    BY <1>6 DEF RtrCb, RtrGone, Shut, UdpError
  <2>2. rtr.fd \in Conn => /\ [conn EXCEPT ![rtr.fd].r = "closed"][x].stream = conn[x].stream
                           /\ [conn EXCEPT ![rtr.fd].err = FALSE][x].stream = conn[x].stream
    BY <1>1, EditStreams
  <2> QED
    BY <2>1, <2>2
<1>7. CASE ChkCb
  BY <1>2, <1>3, <1>4, <1>5, <1>7 DEF ChkCb, Reconnect, RouterSocket, ConnectOK
<1> QED
  BY <1>2, <1>3, <1>6, <1>7 DEF RouterNext, Loop, Arrive, Tick, Poll, Down

\* Datagrams are read by their numbers.
LEMMA NumRouter == ASSUME BridgeType, NumInv, RouterNext PROVE NumInv'
<1> USE DEF BridgeType, TypeOK, SubWaits
<1>1. CASE UNCHANGED <<taken, subq>>
  BY <1>1 DEF NumInv
<1>2. CASE Arrive
  <2> DEFINE d == Len(subq) + Len(taken) + 1
  <2>1. subq' = Append(subq, d) /\ taken' = taken /\ d \in Dgram
    BY <1>2 DEF Arrive
  <2>2. Len(subq) \in Nat /\ Len(taken) \in Nat /\ d = Len(taken) + (Len(subq) + 1)
    BY LenProperties
  <2>3. /\ DOMAIN subq' = 1 .. (Len(subq) + 1) /\ subq'[Len(subq) + 1] = d
        /\ \A i \in 1 .. Len(subq) : subq'[i] = subq[i]
    <3> HIDE DEF d
    <3>1. Append(subq, d) \in Seq(Dgram) /\ Len(Append(subq, d)) = Len(subq) + 1
      BY <2>1, AppendProperties
    <3>2. DOMAIN subq' = 1 .. Len(subq')
      BY <2>1, <3>1, LenProperties
    <3>3. /\ \A i \in 1 .. Len(subq) : Append(subq, d)[i] = subq[i]
          /\ Append(subq, d)[Len(subq) + 1] = d
      BY <2>1, AppendProperties
    <3> QED
      BY <2>1, <3>1, <3>2, <3>3
  <2>4. \A i \in 1 .. Len(subq) : subq[i] = Len(taken) + i
    BY LenProperties DEF NumInv
  <2> HIDE DEF d
  <2>5. ASSUME NEW i \in DOMAIN subq' PROVE subq'[i] = Len(taken) + i
    <3>1. CASE i = Len(subq) + 1
      BY <2>2, <2>3, <3>1
    <3>2. CASE i # Len(subq) + 1
      <4>1. i \in 1 .. Len(subq)
        BY <2>2, <2>3, <3>2
      <4> QED
        BY <2>3, <2>4, <4>1
    <3> QED
      BY <3>1, <3>2
  <2> QED
    BY <2>1, <2>5 DEF NumInv
<1>3. CASE SubCb
  <2> DEFINE d == Head(subq)
  <2>1. subq # <<>> /\ taken' = Append(taken, d) /\ subq' = Tail(subq)
    BY <1>3 DEF SubCb
  <2>2. /\ d = subq[1] /\ d \in Dgram /\ Tail(subq) \in Seq(Dgram)
        /\ Len(Tail(subq)) = Len(subq) - 1
        /\ \A i \in 1 .. Len(Tail(subq)) : Tail(subq)[i] = subq[i + 1]
    BY <2>1, HeadTailProperties
  <2>3. /\ Len(subq) \in Nat \ {0} /\ Len(taken) \in Nat
        /\ DOMAIN subq = 1 .. Len(subq) /\ DOMAIN taken = 1 .. Len(taken)
    BY <2>1, EmptySeq, LenProperties
  <2>4. d = Len(taken) + 1
    <3>1. \A i \in 1 .. Len(subq) : subq[i] = Len(taken) + i
      BY <2>3 DEF NumInv
    <3>2. 1 \in 1 .. Len(subq)
      BY <2>3
    <3> QED
      BY <2>2, <3>1, <3>2
  <2> HIDE DEF d
  <2>5. /\ Append(taken, d) \in Seq(Dgram) /\ Len(Append(taken, d)) = Len(taken) + 1
        /\ \A i \in 1 .. Len(taken) : Append(taken, d)[i] = taken[i]
        /\ Append(taken, d)[Len(taken) + 1] = d
    BY <2>2, AppendProperties
  <2> DEFINE t == Append(taken, d)
             q == Tail(subq)
  <2>6. DOMAIN t = 1 .. (Len(taken) + 1) /\ DOMAIN q = 1 .. (Len(subq) - 1)
    <3> HIDE DEF t, q
    <3> QED
      BY <2>2, <2>5, LenProperties DEF t, q
  <2>7. \A i \in DOMAIN t : t[i] = i
    <3> HIDE DEF t
    <3>1. /\ \A i \in 1 .. Len(taken) : t[i] = taken[i]
          /\ t[Len(taken) + 1] = Len(taken) + 1
      BY <2>4, <2>5 DEF t
    <3>2. \A i \in 1 .. Len(taken) : taken[i] = i
      BY <2>3 DEF NumInv
    <3>3. \A i \in DOMAIN t : i \in 1 .. Len(taken) \/ i = Len(taken) + 1
      <4> HIDE DEF BridgeType, TypeOK, SubWaits
      <4> QED
        BY <2>3, <2>6
    <3> QED
      BY <3>1, <3>2, <3>3
  <2>8. \A i \in DOMAIN q : q[i] = Len(t) + i
    <3> HIDE DEF q
    <3>1. \A i \in DOMAIN q : q[i] = subq[i + 1] /\ i + 1 \in DOMAIN subq
      BY <2>2, <2>3, <2>6 DEF q
    <3>2. \A i \in DOMAIN q : q[i] = Len(taken) + (i + 1)
      BY <3>1 DEF NumInv
    <3>3. \A i \in DOMAIN q : i \in Int
      BY <2>6
    <3> QED
      BY <2>3, <2>5, <3>2, <3>3
  <2> QED
    BY <2>1, <2>7, <2>8 DEF NumInv
<1> QED
  BY <1>1, <1>2, <1>3
  DEF RouterNext, Loop, ChkCb, Reconnect, RtrCb, Tick, Poll, Down

\* Each action keeps every piece in one place: the router's,
LEMMA SoleRouter ==
  ASSUME BridgeType, SoleInv, RouterNext, UNCHANGED <<proto, spliced, dvars>>
  PROVE  SoleInv'
<1> DEFINE n == Len(taken)
<1>1. NumInv'
  BY NumRouter DEF SoleInv
<1>2. conn \in Conns /\ n \in Nat /\ Sole(conn, Out, n)
  BY ConnTypes, LenProperties DEF BridgeType, TypeOK, SoleInv
<1>3. OutOnce' /\ Out' = Out
  BY DEF SoleInv, OutOnce, Out, dvars
<1>4. CASE ~ SubCb
  <2>1. taken' = taken
    BY <1>4 DEF RouterNext, Loop, Arrive, Tick, Poll, ChkCb, RtrCb, Down
  <2>2. \A x \in Conn : conn'[x].stream \in {conn[x].stream, <<>>}
    BY <1>4, RouterStreams
  <2>3. n <= n /\ Out \subseteq Out
    BY <1>2
  <2> HIDE DEF n
  <2>4. Sole(conn', Out, n)
    BY <1>2, <2>2, <2>3, SoleSame
  <2>5. (Sole(conn, Out, Len(taken)))'
    BY <1>3, <2>1, <2>4 DEF n, Sole, Carried, CarriedOnce, Known
  <2> QED
    BY <1>1, <1>3, <2>5 DEF SoleInv
<1>5. CASE SubCb
  <2> DEFINE d == Head(subq)
  <2>1. subq # <<>> /\ subq \in Seq(Dgram)
    BY <1>5 DEF SubCb, BridgeType, TypeOK, SubWaits
  <2>2. d \in Dgram /\ d = subq[1] /\ 1 \in DOMAIN subq
    BY <2>1, HeadTailProperties, EmptySeq, LenProperties
  <2>3. d = n + 1
    BY <2>2 DEF SoleInv, NumInv
  <2>4. Forward(d) /\ taken' = Append(taken, d)
    BY <1>5 DEF SubCb
  <2>5. Len(taken') = n + 1
    <3> HIDE DEF d
    <3> QED
      BY <2>2, <2>4, AppendProperties DEF BridgeType, TypeOK
  <2>6. /\ n <= n + 1 /\ n + 1 \in Nat /\ Out \subseteq Out
    BY <1>2
  <2> HIDE DEF d, n
  <2>7. Sole(conn', Out, n + 1)
    <3>1. CASE conn' = conn
      <4>1. \A x \in Conn : conn'[x].stream \in {conn[x].stream, <<>>}
        BY <3>1
      <4> QED
        BY <1>2, <2>6, <4>1, SoleSame
    <3>2. CASE conn' = RouterGone
      <4>1. \A x \in Conn : conn'[x].stream \in {conn[x].stream, <<>>}
        BY <1>2, <3>2, GoneStreams
      <4> QED
        BY <1>2, <2>6, <4>1, SoleSame
    <3>3. CASE dst \in Conn /\ conn' = [conn EXCEPT ![dst].err = FALSE]
      <4>1. \A x \in Conn : conn'[x].stream \in {conn[x].stream, <<>>}
        BY <1>2, <3>3, EditStreams
      <4> QED
        BY <1>2, <2>6, <4>1, SoleSame
    <3>4. CASE dst \in Conn /\ conn' = SendOn(dst, Bytes(d))
      <4>1. /\ Bytes(d) \in Seq(Byte) /\ Once(Bytes(d)) /\ PiecesOf(Bytes(d)) \subseteq Known(n + 1)
            /\ Apart(PiecesOf(Bytes(d)), Known(n))
        BY <1>2, <2>2, <2>3, BytesType, BytesNew
      <4> DEFINE v == Bytes(d)
      <4> HIDE DEF v
      <4>2. Sole(SendOn(dst, v), Out, n + 1)
        BY <1>2, <2>2, <2>3, <3>4, <4>1, SoleForward DEF v
      <4> QED
        BY <3>4, <4>2 DEF v
    <3>5. ASSUME NEW k \in 0 .. MAX_RETR, NEW all \in BOOLEAN, proto = "tcp", dst \in Conn,
                 conn' = SendOn(dst, Sent(d, k, all))
          PROVE  Sole(conn', Out, n + 1)
      <4> DEFINE v == Sent(d, k, all)
      <4>1. v \in Seq(Byte) /\ Once(v) /\ PiecesOf(v) \subseteq Known(n + 1)
            /\ Apart(PiecesOf(v), Known(n))
        BY <1>2, <2>2, <2>3, <3>5, SentType, SentNew
      <4> HIDE DEF v
      <4>2. Sole(SendOn(dst, v), Out, n + 1)
        BY <1>2, <2>2, <2>3, <3>5, <4>1, SoleForward
      <4> QED
        BY <3>5, <4>2 DEF v
    <3> QED
      BY <2>4, <3>1, <3>2, <3>3, <3>4, <3>5 DEF Forward
  <2>8. (Sole(conn, Out, Len(taken)))'
    BY <1>3, <2>5, <2>7 DEF Sole, Carried, CarriedOnce, Known
  <2> QED
    BY <1>1, <1>3, <2>8 DEF SoleInv
<1> QED
  BY <1>4, <1>5

\* After a step that is none of the router's
LEMMA SoleRest ==
  ASSUME SoleInv, UNCHANGED <<proto, rvars>>, OutOnce', Sole(conn', Out', Len(taken))
  PROVE  SoleInv'
<1>1. NumInv' /\ taken' = taken
  BY DEF SoleInv, NumInv, rvars
<1>2. (Sole(conn, Out, Len(taken)))'
  BY <1>1 DEF Sole, Carried, CarriedOnce, Known
<1> QED
  BY <1>1, <1>2 DEF SoleInv

\* the dealer's accept() and what it evicts,
LEMMA SoleTcpCb ==
  ASSUME BridgeType, SoleInv, TcpCb, UNCHANGED <<proto, rvars>>
  PROVE  SoleInv'
<1>1. /\ conn \in Conns /\ slots \in [Slot -> Conn \cup {None}] /\ next \in Slot
      /\ Len(taken) \in Nat
  BY ConnTypes, LenProperties DEF BridgeType, TypeOK
<1>2. Evicted \in Conns /\ \A x \in Conn : Evicted[x].stream \in {conn[x].stream, <<>>}
  <2>1. CASE slots[next] = None
    BY <1>1, <2>1 DEF Evicted
  <2>2. CASE slots[next] # None
    <3>1. slots[next] \in Conn /\ Evicted = DealerShut(slots[next])
      BY <1>1, <2>2 DEF Evicted
    <3>2. Evicted \in Conns
      BY <1>1, <3>1, ShutType
    <3>3. \A x \in Conn : Evicted[x].stream \in {conn[x].stream, <<>>}
      BY <1>1, <3>1, DealerShutStreams
    <3> QED
      BY <3>2, <3>3
  <2> QED
    BY <2>1, <2>2
<1> DEFINE e == Evicted
<1>3. PICK c \in Conn :
        conn' \in {e, [e EXCEPT ![c].d = "open"], [e EXCEPT ![c].d = "closed", ![c].err = TRUE]}
  BY DEF TcpCb
<1>4. e \in Conns /\ \A x \in Conn : e[x].stream \in {conn[x].stream, <<>>}
  BY <1>2
<1> HIDE DEF e
<1> DEFINE f == [e EXCEPT ![c].d = "closed"]
<1>5. f \in Conns
  BY <1>4, EditType
<1>6. \A x \in Conn : /\ [e EXCEPT ![c].d = "open"][x].stream = e[x].stream
                      /\ f[x].stream = e[x].stream
  BY <1>4, EditStreams
<1>7. \A x \in Conn : [f EXCEPT ![c].err = TRUE][x].stream = e[x].stream
  <2> HIDE DEF f
  <2> QED
    BY <1>5, <1>6, EditStreams
<1>8. \A x \in Conn : conn'[x].stream = e[x].stream
  <2>1. conn' \in {e, [e EXCEPT ![c].d = "open"], [f EXCEPT ![c].err = TRUE]}
    BY <1>3
  <2> HIDE DEF f
  <2> QED
    BY <1>6, <1>7, <2>1
<1>9. \A x \in Conn : conn'[x].stream \in {conn[x].stream, <<>>}
  BY <1>4, <1>8
<1>10. OutOnce' /\ Out' = Out
  BY DEF TcpCb, SoleInv, OutOnce, Out
<1>11. Sole(conn', Out', Len(taken))
  <2>1. Sole(conn, Out, Len(taken)) /\ Len(taken) <= Len(taken) /\ Out' \subseteq Out
    BY <1>1, <1>10 DEF SoleInv
  <2> QED
    BY <1>1, <1>9, <2>1, SoleSame
<1> QED
  BY <1>10, <1>11, SoleRest

\* The dealer reads a chunk off a connection and publishes what it can of it.
LEMMA SoleRead ==
  ASSUME BridgeType, SoleInv, UNCHANGED <<proto, rvars>>, NEW c \in Conn,
         NEW chunk \in Seq(Byte), Publish(chunk), Once(chunk),
         PiecesOf(chunk) \subseteq Carried(conn[c].stream),
         CarriedOnce(conn'[c].stream),
         Carried(conn'[c].stream) \subseteq Carried(conn[c].stream),
         Apart(PiecesOf(chunk), Carried(conn'[c].stream)),
         \A x \in Conn \ {c} : conn'[x].stream = conn[x].stream
  PROVE  SoleInv'
<1>1. Sole(conn, Out, Len(taken)) /\ OutOnce /\ Len(taken) \in Nat /\ Len(taken) <= Len(taken)
  BY LenProperties DEF SoleInv, BridgeType, TypeOK
<1>2. Apart(Out, PiecesOf(chunk))
  BY <1>1 DEF Sole, Apart
<1>3. OutOnce' /\ Out' \subseteq Out \cup PiecesOf(chunk)
  BY <1>1, <1>2, PublishOnce
<1>4. \A x \in Conn \ {c} : /\ CarriedOnce(conn'[x].stream)
                            /\ Carried(conn'[x].stream) \subseteq Carried(conn[x].stream)
  BY <1>1 DEF Sole
<1>5. Shift(conn, conn', Out, Out', c, {}, PiecesOf(chunk))
  BY <1>3, <1>4 DEF Shift
<1>6. {} \subseteq Known(Len(taken)) /\ Apart({}, Known(Len(taken)))
  BY DEF Apart
<1>7. Sole(conn', Out', Len(taken))
  BY <1>1, <1>5, <1>6, SoleStep
<1> QED
  BY <1>3, <1>7, SoleRest

\* its reads,
LEMMA SoleUdpData ==
  ASSUME BridgeType, SoleInv, UdpData, UNCHANGED <<proto, rvars>>
  PROVE  SoleInv'
<1>1. PICK c \in Conn : \E k \in DOMAIN conn[c].stream :
        Publish(conn[c].stream[k]) /\ conn' = [conn EXCEPT ![c].stream = RemoveAt(@, k)]
  BY DEF UdpData
<1>2. PICK k \in DOMAIN conn[c].stream :
        Publish(conn[c].stream[k]) /\ conn' = [conn EXCEPT ![c].stream = RemoveAt(@, k)]
  BY <1>1
<1> DEFINE s == conn[c].stream
           w == RemoveAt(s, k)
           d == s[k]
<1>3. conn \in Conns /\ proto = "udp"
  BY ConnTypes DEF UdpData
<1>4. s \in Seq(Seq(Byte))
  BY <1>3, EditType DEF Stream
<1>5. AllOnce(s) /\ AllOf(s) = Carried(s)
  BY <1>3 DEF SoleInv, Sole, CarriedOnce, Carried
<1>6. d \in Seq(Byte)
  BY <1>4, ElementOfSeq, LenProperties
<1>7. /\ AllOnce(w) /\ AllOf(w) \subseteq AllOf(s) /\ Apart(AllOf(w), PiecesOf(d))
      /\ Once(d) /\ PiecesOf(d) \subseteq AllOf(s)
  <2> HIDE DEF s
  <2> QED
    BY <1>2, <1>4, <1>5, RemoveAllOnce DEF s
<1>8. /\ \A x \in Conn \ {c} : conn'[x].stream = conn[x].stream
      /\ conn'[c].stream = w
  <2>1. conn' = [conn EXCEPT ![c].stream = w]
    BY <1>2
  <2> HIDE DEF w
  <2> QED
    BY <1>3, <2>1, EditStreams
<1>9. Publish(d)
  BY <1>2
<1> HIDE DEF s, w, d
<1>10. CarriedOnce(w) /\ Carried(w) = AllOf(w)
  BY <1>3, <1>7 DEF CarriedOnce, Carried
<1>11. /\ PiecesOf(d) \subseteq Carried(s) /\ Carried(w) \subseteq Carried(s)
       /\ Apart(PiecesOf(d), Carried(w))
  BY <1>5, <1>7, <1>10 DEF Apart
<1>12. /\ PiecesOf(d) \subseteq Carried(conn[c].stream)
       /\ CarriedOnce(conn'[c].stream)
       /\ Carried(conn'[c].stream) \subseteq Carried(conn[c].stream)
       /\ Apart(PiecesOf(d), Carried(conn'[c].stream))
  BY <1>8, <1>10, <1>11 DEF s
<1> QED
  BY <1>6, <1>7, <1>8, <1>9, <1>12, SoleRead

LEMMA SoleTcpData ==
  ASSUME BridgeType, SoleInv, NEW i \in Slot, TcpData(i), UNCHANGED <<proto, rvars>>
  PROVE  SoleInv'
<1> DEFINE c == slots[i]
           s == conn[c].stream
<1>1. conn \in Conns /\ c \in Conn /\ proto = "tcp"
  BY ConnTypes DEF TcpData, BridgeType, TypeOK
<1>2. s \in Seq(Byte)
  BY <1>1, EditType DEF Stream
<1>3. Once(s) /\ PiecesOf(s) = Carried(s)
  BY <1>1 DEF SoleInv, Sole, CarriedOnce, Carried
<1>4. ASSUME NEW rest, ShutSlot(i, rest)
      PROVE  \A x \in Conn : conn'[x].stream = IF x = c THEN <<>> ELSE conn[x].stream
  <2>1. conn' = ShutWith(c, rest # <<>>)
    BY <1>4 DEF ShutSlot, ShutWith
  <2> HIDE DEF c
  <2> QED
    BY <1>1, <2>1, ShutStreams
<1>5. CASE \E n \in 1 .. Len(s) :
             Publish(SubSeq(s, 1, n)) /\ ShutSlot(i, SubSeq(s, n + 1, Len(s)))
  <2>1. PICK n \in 1 .. Len(s) :
          Publish(SubSeq(s, 1, n)) /\ ShutSlot(i, SubSeq(s, n + 1, Len(s)))
    BY <1>5
  <2> DEFINE chunk == SubSeq(s, 1, n)
  <2>2. n \in 0 .. Len(s)
    BY <2>1
  <2>3. chunk \in Seq(Byte) /\ Once(chunk) /\ PiecesOf(chunk) \subseteq PiecesOf(s)
    <3> HIDE DEF s
    <3> QED
      BY <1>2, <1>3, <2>2, CutParts, CutOnce
  <2>4. \A x \in Conn : conn'[x].stream = IF x = c THEN <<>> ELSE conn[x].stream
    BY <1>4, <2>1
  <2>5. Publish(chunk)
    BY <2>1
  <2> HIDE DEF chunk
  <2>6. conn'[c].stream = <<>> /\ \A x \in Conn \ {c} : conn'[x].stream = conn[x].stream
    BY <1>1, <2>4
  <2>7. CarriedOnce(conn'[c].stream) /\ Carried(conn'[c].stream) = {}
    BY <2>6, NothingCarried
  <2>8. /\ PiecesOf(chunk) \subseteq Carried(conn[c].stream)
        /\ Carried(conn'[c].stream) \subseteq Carried(conn[c].stream)
        /\ Apart(PiecesOf(chunk), Carried(conn'[c].stream))
    BY <1>3, <2>3, <2>7 DEF Apart
  <2> HIDE DEF c
  <2> QED
    BY <1>1, <2>3, <2>5, <2>6, <2>7, <2>8, SoleRead
<1>6. CASE UNCHANGED <<pipe, piped, published>> /\ ShutSlot(i, <<>>)
  <2>1. \A x \in Conn : conn'[x].stream \in {conn[x].stream, <<>>}
    BY <1>4, <1>6
  <2>2. OutOnce' /\ Out' = Out
    BY <1>6 DEF SoleInv, OutOnce, Out
  <2>3. Sole(conn, Out, Len(taken)) /\ Len(taken) <= Len(taken) /\ Out' \subseteq Out
        /\ Len(taken) \in Nat
    BY <2>2, LenProperties DEF SoleInv, BridgeType, TypeOK
  <2>4. Sole(conn', Out', Len(taken))
    BY <2>1, <2>3, SoleSame
  <2> QED
    BY <2>2, <2>4, SoleRest
<1> QED
  BY <1>5, <1>6 DEF TcpData

\* its end and start,
LEMMA SoleDealer ==
  ASSUME BridgeType, SoleInv, DealerNext, UNCHANGED <<proto, rvars>>
  PROVE  SoleInv'
<1>1. /\ conn \in Conns /\ Sole(conn, Out, Len(taken)) /\ Len(taken) \in Nat
      /\ Len(taken) <= Len(taken)
  BY ConnTypes, LenProperties DEF SoleInv, BridgeType, TypeOK
<1>2. CASE DealerDown
  <2>1. published' = published /\ pipe' = <<>>
    BY <1>2 DEF DealerDown
  <2>2. PiecesOf(pipe') = {} /\ Once(pipe')
    BY <2>1 DEF PiecesOf, Once
  <2>3. OutOnce' /\ Out' \subseteq Out
    BY <2>1, <2>2 DEF SoleInv, OutOnce, Out, Apart
  <2>4. \A x \in Conn : DealerShut(x)[x].stream = <<>>
    BY <1>1, DealerShutStreams
  <2>5. \A x \in Conn : conn'[x].stream \in {conn[x].stream, <<>>}
    BY <1>2, <2>4 DEF DealerDown
  <2>6. Sole(conn', Out', Len(taken))
    BY <1>1, <2>3, <2>5, SoleSame
  <2> QED
    BY <2>3, <2>6, SoleRest
<1>3. CASE DealerUp
  <2>1. OutOnce' /\ Out' = Out /\ conn' = conn
    BY <1>3 DEF DealerUp, dvars, SoleInv, OutOnce, Out
  <2> QED
    BY <1>1, <2>1, SoleRest
<1> QED
  BY <1>2, <1>3, SoleTcpCb, SoleUdpData, SoleTcpData DEF DealerNext

\* the network's losses and another router's connections.
LEMMA SoleOutside ==
  ASSUME BridgeType, SoleInv, Outside
  PROVE  SoleInv'
<1>1. /\ conn \in Conns /\ Sole(conn, Out, Len(taken)) /\ Len(taken) \in Nat
      /\ Len(taken) <= Len(taken)
  BY ConnTypes, LenProperties DEF SoleInv, BridgeType, TypeOK
<1>2. OutOnce' /\ Out' = Out /\ UNCHANGED <<proto, rvars>>
  BY DEF Outside, dvars, SoleInv, OutOnce, Out
<1>3. CASE LinkLose
  <2>1. PICK c \in Conn : \E k \in DOMAIN conn[c].stream :
          conn' = [conn EXCEPT ![c].stream = RemoveAt(@, k)]
    BY <1>3 DEF LinkLose
  <2>2. PICK k \in DOMAIN conn[c].stream : conn' = [conn EXCEPT ![c].stream = RemoveAt(@, k)]
    BY <2>1
  <2> DEFINE s == conn[c].stream
             w == RemoveAt(s, k)
  <2>3. proto # "tcp" /\ s \in Seq(Seq(Byte))
    BY <1>1, <1>3, EditType DEF LinkLose, Stream
  <2>4. AllOnce(s) /\ AllOf(s) = Carried(s)
    BY <1>1, <2>3 DEF Sole, CarriedOnce, Carried
  <2>5. AllOnce(w) /\ AllOf(w) \subseteq AllOf(s)
    <3> HIDE DEF s
    <3> QED
      BY <2>2, <2>3, <2>4, RemoveAllOnce DEF s
  <2>6. CarriedOnce(w) /\ Carried(w) \subseteq Carried(s)
    BY <2>3, <2>4, <2>5 DEF CarriedOnce, Carried
  <2>7. /\ \A x \in Conn \ {c} : conn'[x].stream = conn[x].stream
        /\ conn'[c].stream = w
    <3>1. conn' = [conn EXCEPT ![c].stream = w]
      BY <2>2
    <3>2. conn \in Conns
      BY <1>1
    <3> HIDE DEF w
    <3>3. \A x \in Conn : [conn EXCEPT ![c].stream = w][x].stream
                           = IF x = c THEN w ELSE conn[x].stream
      BY <3>2, EditStreams
    <3> QED
      BY <3>1, <3>3
  <2>8. \A x \in Conn : /\ CarriedOnce(conn'[x].stream)
                        /\ Carried(conn'[x].stream) \subseteq Carried(conn[x].stream)
    <3> HIDE DEF w, s
    <3>1. /\ CarriedOnce(conn'[c].stream)
          /\ Carried(conn'[c].stream) \subseteq Carried(conn[c].stream)
      BY <2>6, <2>7 DEF s
    <3>2. \A x \in Conn \ {c} : CarriedOnce(conn'[x].stream)
      BY <1>1, <2>7 DEF Sole
    <3>3. \A x \in Conn \ {c} : Carried(conn'[x].stream) = Carried(conn[x].stream)
      BY <2>7
    <3> QED
      BY <3>1, <3>2, <3>3
  <2>9. Sole(conn', Out', Len(taken))
    <3>1. Out' \subseteq Out
      BY <1>2
    <3> QED
      BY <1>1, <2>8, <3>1, SoleLess
  <2> QED
    BY <1>2, <2>9, SoleRest
<1>4. ASSUME NEW c \in Conn, OtherConnect(c) \/ OtherClose(c) PROVE SoleInv'
  <2> DEFINE f == [conn EXCEPT ![c].r = "other"]
  <2>1. f \in Conns
    BY <1>1, EditType
  <2>2. \A x \in Conn : /\ f[x].stream = conn[x].stream
                        /\ [conn EXCEPT ![c].r = "closed"][x].stream = conn[x].stream
    BY <1>1, EditStreams
  <2>3. \A x \in Conn : [f EXCEPT ![c].d = "queued"][x].stream = f[x].stream
    <3> HIDE DEF f
    <3> QED
      BY <2>1, EditStreams
  <2>4. conn' \in {[f EXCEPT ![c].d = "queued"], [conn EXCEPT ![c].r = "closed"]}
    BY <1>4 DEF OtherConnect, OtherClose
  <2> HIDE DEF f
  <2>5. \A x \in Conn : conn'[x].stream \in {conn[x].stream, <<>>}
    BY <2>2, <2>3, <2>4
  <2>6. Sole(conn', Out', Len(taken))
    <3>1. Out' \subseteq Out
      BY <1>2
    <3> QED
      BY <1>1, <2>5, <3>1, SoleSame
  <2> QED
    BY <1>2, <2>6, SoleRest
<1> QED
  BY <1>3, <1>4 DEF Outside

LEMMA SoleInit == Init => SoleInv
<1> SUFFICES ASSUME Init PROVE SoleInv
  OBVIOUS
<1>1. taken = <<>> /\ subq = <<>> /\ pipe = <<>> /\ published = <<>>
  BY DEF Init, RouterInit, DealerInit
<1>2. \A c \in Conn : conn[c].stream = <<>>
  BY DEF Init, LinkInit, NoConn
<1>3. NumInv
  BY <1>1 DEF NumInv
<1>4. Out = {} /\ OutOnce
  BY <1>1 DEF Out, OutOnce, AllOf, PiecesOf, AllOnce, Once, Apart
<1>5. \A c \in Conn : CarriedOnce(conn[c].stream) /\ Carried(conn[c].stream) = {}
  BY <1>2, NothingCarried
<1>6. Sole(conn, Out, Len(taken))
  BY <1>4, <1>5 DEF Sole, Apart
<1> QED
  BY <1>3, <1>4, <1>6 DEF SoleInv

LEMMA SoleNext == BridgeType /\ SoleInv /\ [Next]_vars => SoleInv'
<1> SUFFICES ASSUME BridgeType, SoleInv, [Next]_vars PROVE SoleInv'
  OBVIOUS
<1>1. CASE UNCHANGED vars
  <2>1. UNCHANGED <<proto, rvars>> /\ conn' = conn /\ OutOnce' /\ Out' = Out
    BY <1>1 DEF vars, dvars, SoleInv, OutOnce, Out
  <2>2. Sole(conn', Out', Len(taken))
    BY <2>1 DEF SoleInv
  <2> QED
    BY <2>1, <2>2, SoleRest
<1>2. CASE RouterNext /\ UNCHANGED <<dvars, proto, spliced>>
  BY <1>2, SoleRouter
<1>3. CASE DealerNext /\ UNCHANGED <<proto, rvars>>
  BY <1>3, SoleDealer
<1>4. CASE Outside
  BY <1>4, SoleOutside
<1> QED
  BY <1>1, <1>2, <1>3, <1>4 DEF Next, Outside

LEMMA SoleEnough == BridgeType /\ SoleInv => NoDoubles
<1> SUFFICES ASSUME BridgeType, SoleInv PROVE NoDoubles
  OBVIOUS
<1>1. published \in Seq(Seq(Byte)) /\ pipe \in Seq(Byte)
  BY DEF BridgeType, TypeOK
<1>2. AllOnce(Chunks) /\ AllOf(Chunks) = Out
  BY <1>1, AppendAllOnce DEF SoleInv, OutOnce, Chunks, Out
<1>3. Out \subseteq Known(Len(taken)) /\ Len(taken) \in Nat /\ DOMAIN taken = 1 .. Len(taken)
  BY LenProperties DEF SoleInv, Sole, BridgeType, TypeOK
<1>4. ASSUME NEW b \in Known(Len(taken)) PROVE \E n \in DOMAIN taken : b[1] = taken[n]
  <2>1. b[1] \in Dgram /\ b[1] <= Len(taken)
    BY DEF Known, Byte
  <2>2. b[1] \in 1 .. Len(taken)
    BY <1>3, <2>1 DEF Dgram
  <2> QED
    BY <1>3, <2>2 DEF SoleInv, NumInv
<1>5. \A k \in DOMAIN Chunks : \A i \in DOMAIN Chunks[k] :
        Chunks[k][i] \in Known(Len(taken))
  <2>1. \A k \in DOMAIN Chunks : \A i \in DOMAIN Chunks[k] : Chunks[k][i] \in AllOf(Chunks)
    BY DEF AllOf, PiecesOf
  <2> QED
    BY <1>2, <1>3, <2>1
\* Pieces of a datagram and half that differ are told apart by their last number.
<1>6. ASSUME NEW a \in Known(Len(taken)), NEW b \in Known(Len(taken)),
             a[1] = b[1], a[2] = b[2], a # b
      PROVE  proto = "tcp" /\ a[2] = 1 /\ a[3] # b[3]
  <2>1. a[3] # b[3]
    BY <1>6 DEF Known, Byte
  <2> QED
    BY <1>6, <2>1 DEF Known
<1>7. ASSUME NEW k \in DOMAIN Chunks, NEW l \in DOMAIN Chunks,
             NEW i \in DOMAIN Chunks[k], NEW j \in DOMAIN Chunks[l]
      PROVE  /\ \E n \in DOMAIN taken : Chunks[k][i][1] = taken[n]
             /\ Chunks[k][i][1] = Chunks[l][j][1] /\ Chunks[k][i][2] = Chunks[l][j][2] =>
                  \/ k = l /\ i = j
                  \/ proto = "tcp" /\ Chunks[k][i][2] = 1 /\ Chunks[k][i][3] # Chunks[l][j][3]
  <2>1. Chunks[k][i] \in Known(Len(taken)) /\ Chunks[l][j] \in Known(Len(taken))
    BY <1>5, <1>7
  <2>2. Chunks[k][i] = Chunks[l][j] => k = l /\ i = j
    BY <1>2, <1>7 DEF AllOnce
  <2> DEFINE a == Chunks[k][i]
             b == Chunks[l][j]
  <2>3. /\ a \in Known(Len(taken)) /\ b \in Known(Len(taken))
        /\ a = b => k = l /\ i = j
    BY <2>1, <2>2
  <2> HIDE DEF a, b
  <2>4. /\ \E n \in DOMAIN taken : a[1] = taken[n]
        /\ a[1] = b[1] /\ a[2] = b[2] =>
             \/ k = l /\ i = j
             \/ proto = "tcp" /\ a[2] = 1 /\ a[3] # b[3]
    BY <1>4, <1>6, <2>3
  <2> QED
    BY <2>4 DEF a, b
<1> QED
  BY <1>7, Zenon DEF NoDoubles

\* Whatever is retried, lost or started again, no piece of a datagram that one
\* send() took is published, or in the pipe, twice, and none that the router
\* did not read: every piece is on its way on one connection, or out, or lost.
THEOREM NoDoublesCorrect == Spec => []NoDoubles
<1>1. Init => BridgeType /\ SoleInv
  BY TypeInit, SoleInit
<1>2. BridgeType /\ SoleInv /\ [Next]_vars => (BridgeType /\ SoleInv)'
  BY TypeNext, SoleNext
<1>3. BridgeType /\ SoleInv => NoDoubles
  BY SoleEnough
<1> QED
  BY <1>1, <1>2, <1>3, PTL DEF Spec
-----------------------------------------------------------------------------
(* Nothing out of its place *)

\* A set of numbers has a least one.
LEMMA LeastNat ==
  ASSUME NEW T \in SUBSET Nat, T # {}
  PROVE  \E x \in T : \A y \in T : x <= y
<1> DEFINE R == {b \in Nat \X Nat : b[1] < b[2]}
<1>1. IsWellFoundedOn(R, Nat)
  BY NatLessThanWellFounded DEF OpToRel
<1>2. \A x, y \in Nat : <<y, x>> \in R <=> y < x
  OBVIOUS
<1> HIDE DEF R
<1>3. PICK x \in T : \A y \in T : ~ (<<y, x>> \in R)
  BY <1>1, WFMin
<1>4. ASSUME NEW y \in T PROVE x <= y
  <2>1. x \in Nat /\ y \in Nat /\ ~ (<<y, x>> \in R)
    BY <1>3
  <2>2. ~ (y < x)
    BY <1>2, <2>1
  <2> QED
    BY <2>1, <2>2
<1> QED
  BY <1>4

\* f[i] is what the first i sequences in ss give one behind the other, as
\* FlattenSeq() builds it.
Joins(ss, n, f) == f = [i \in 1 .. n |-> IF i = 1 THEN ss[i] ELSE f[i - 1] \o ss[i]]

LEMMA JoinsAt ==
  ASSUME NEW ss, NEW n \in Nat, NEW f, Joins(ss, n, f), NEW i \in 1 .. n
  PROVE  f[i] = IF i = 1 THEN ss[i] ELSE f[i - 1] \o ss[i]
<1> DEFINE e(j) == IF j = 1 THEN ss[j] ELSE f[j - 1] \o ss[j]
<1>1. f = [j \in 1 .. n |-> e(j)]
  BY DEF Joins
<1> HIDE DEF e
<1>2. [j \in 1 .. n |-> e(j)][i] = e(i)
  OBVIOUS
<1>3. f[i] = e(i)
  BY <1>1, <1>2
<1> QED
  BY <1>3 DEF e

\* There is one for every number of sequences,
LEMMA JoinsExist == ASSUME NEW ss, NEW n \in Nat PROVE \E f : Joins(ss, n, f)
<1> DEFINE T == {m \in Nat : ~ \E f : Joins(ss, m, f)}
<1>1. ASSUME T # {} PROVE FALSE
  <2>1. PICK m \in T : \A y \in T : m <= y
    BY <1>1, LeastNat
  <2>2. CASE m = 0
    <3>1. Joins(ss, 0, [i \in 1 .. 0 |-> 0])
      BY DEF Joins
    <3> QED
      BY <2>1, <2>2, <3>1
  <2>3. CASE m # 0
    <3>1. m \in Nat /\ m - 1 \in Nat /\ m - 1 \notin T
      BY <2>1, <2>3
    <3>2. PICK g : Joins(ss, m - 1, g)
      BY <3>1
    <3> DEFINE e(i) == IF i = m THEN (IF m = 1 THEN ss[m] ELSE g[m - 1] \o ss[m]) ELSE g[i]
               f == [i \in 1 .. m |-> e(i)]
               h(i) == IF i = 1 THEN ss[i] ELSE f[i - 1] \o ss[i]
    <3>3. ASSUME NEW i \in 1 .. m PROVE e(i) = h(i)
      <4>1. CASE i = m
        <5>1. m # 1 => m - 1 \in 1 .. m /\ f[m - 1] = g[m - 1]
          BY <3>1
        <5> QED
          BY <4>1, <5>1
      <4>2. CASE i # m
        <5>1. i \in 1 .. (m - 1) /\ e(i) = g[i]
          BY <3>1, <4>2
        <5>2. g[i] = IF i = 1 THEN ss[i] ELSE g[i - 1] \o ss[i]
          BY <3>1, <3>2, <5>1, JoinsAt
        <5>3. i # 1 => f[i - 1] = g[i - 1]
          BY <3>1, <4>2
        <5> QED
          BY <5>1, <5>2, <5>3
      <4> QED
        BY <4>1, <4>2
    <3>4. f = [i \in 1 .. m |-> h(i)]
      <4> HIDE DEF e, h
      <4>1. f = [i \in 1 .. m |-> e(i)]
        OBVIOUS
      <4> HIDE DEF f
      <4> QED
        BY <3>3, <4>1
    <3>5. Joins(ss, m, f)
      <4> HIDE DEF e
      <4>1. f = [i \in 1 .. m |-> IF i = 1 THEN ss[i] ELSE f[i - 1] \o ss[i]]
        BY <3>4
      <4> HIDE DEF f
      <4> QED
        BY <4>1 DEF Joins
    <3> QED
      BY <2>1, <3>5
  <2> QED
    BY <2>2, <2>3
<1> QED
  BY <1>1

\* what it gives depends on no sequence behind,
Same(n, f, g) == \A i \in 1 .. n : f[i] = g[i]

LEMMA JoinsSame ==
  ASSUME NEW ss, NEW tt, NEW m \in Nat, NEW n \in Nat, n <= m, NEW f, NEW g,
         Joins(ss, n, f), Joins(tt, m, g), Same(n, ss, tt)
  PROVE  Same(n, f, g)
<1> SUFFICES \A i \in 1 .. n : f[i] = g[i]
  BY DEF Same
<1>0. \A i \in 1 .. n : ss[i] = tt[i]
  BY DEF Same
<1> DEFINE T == {i \in 1 .. n : f[i] # g[i]}
<1>1. ASSUME T # {} PROVE FALSE
  <2>0. T \in SUBSET Nat /\ T # {}
    BY <1>1
  <2>1. PICK x \in T : \A y \in T : x <= y
    <3> HIDE DEF T
    <3> QED
      BY <2>0, LeastNat
  <2>2. x \in 1 .. n /\ x \in 1 .. m /\ ss[x] = tt[x] /\ f[x] # g[x]
    BY <1>0, <2>1
  <2>3. /\ f[x] = IF x = 1 THEN ss[x] ELSE f[x - 1] \o ss[x]
        /\ g[x] = IF x = 1 THEN tt[x] ELSE g[x - 1] \o tt[x]
    BY <2>2, JoinsAt
  <2>4. x # 1 => f[x - 1] = g[x - 1]
    <3>1. x # 1 => x - 1 \in 1 .. n /\ x - 1 \notin T
      BY <2>1, <2>2
    <3> QED
      BY <3>1
  <2> QED
    BY <2>2, <2>3, <2>4
<1> QED
  BY <1>1

\* and it is a sequence of what they are sequences of.
LEMMA JoinsType ==
  ASSUME NEW S, NEW ss \in Seq(Seq(S)), NEW n \in Nat, n <= Len(ss), NEW f, Joins(ss, n, f)
  PROVE  \A i \in 1 .. n : f[i] \in Seq(S)
<1> DEFINE T == {i \in 1 .. n : f[i] \notin Seq(S)}
<1>1. ASSUME T # {} PROVE FALSE
  <2>0. T \in SUBSET Nat /\ T # {}
    BY <1>1
  <2>1. PICK x \in T : \A y \in T : x <= y
    <3> HIDE DEF T
    <3> QED
      BY <2>0, LeastNat
  <2>2. x \in 1 .. n /\ f[x] \notin Seq(S)
    BY <2>1
  <2>3. ss[x] \in Seq(S)
    BY <2>2, ElementOfSeq, LenProperties
  <2>4. f[x] = IF x = 1 THEN ss[x] ELSE f[x - 1] \o ss[x]
    BY <2>2, JoinsAt
  <2>5. x # 1 => f[x - 1] \in Seq(S)
    <3>1. x # 1 => x - 1 \in 1 .. n /\ x - 1 \notin T
      BY <2>1, <2>2
    <3> QED
      BY <3>1
  <2> QED
    BY <2>2, <2>3, <2>4, <2>5, ConcatProperties
<1> QED
  BY <1>1

LEMMA FlattenJoins ==
  ASSUME NEW S, NEW ss \in Seq(Seq(S)), ss # <<>>
  PROVE  \E f : Joins(ss, Len(ss), f) /\ FlattenSeq(ss) = f[Len(ss)]
<1> DEFINE n == Len(ss)
           f == CHOOSE g : Joins(ss, n, g)
<1>1. n \in Nat /\ n # 0
  BY EmptySeq, LenProperties
<1>2. Joins(ss, n, f)
  BY <1>1, JoinsExist
<1>3. FlattenSeq(ss) = f[n]
  BY <1>1 DEF FlattenSeq, Joins
<1> QED
  BY <1>2, <1>3

\* A sequence more comes behind what the others give.
LEMMA FlattenAppend ==
  ASSUME NEW S, NEW ss \in Seq(Seq(S)), NEW s \in Seq(S)
  PROVE  FlattenSeq(ss) \in Seq(S) /\ FlattenSeq(Append(ss, s)) = FlattenSeq(ss) \o s
<1> DEFINE n == Len(ss)
           m == Len(Append(ss, s))
           tt == Append(ss, s)
<1>1. /\ n \in Nat /\ tt \in Seq(Seq(S)) /\ m = n + 1 /\ m = Len(tt)
      /\ \A i \in 1 .. n : tt[i] = ss[i]
      /\ tt[m] = s
  <2>1. Len(ss) \in Nat
    BY LenProperties
  <2>2. /\ tt \in Seq(Seq(S)) /\ Len(tt) = Len(ss) + 1
        /\ \A i \in 1 .. Len(ss) : tt[i] = ss[i]
        /\ tt[Len(ss) + 1] = s
    BY AppendProperties
  <2> HIDE DEF tt
  <2> QED
    BY <2>1, <2>2 DEF tt
<1> HIDE DEF tt, m, n
<1>2. tt # <<>>
  BY <1>1, EmptySeq
<1>3. PICK g : Joins(tt, m, g) /\ FlattenSeq(tt) = g[m]
  BY <1>1, <1>2, FlattenJoins
<1>4. g[m] = IF m = 1 THEN s ELSE g[n] \o s
  <2>1. m \in Nat /\ m \in 1 .. m /\ m - 1 = n
    BY <1>1
  <2>2. g[m] = IF m = 1 THEN tt[m] ELSE g[m - 1] \o tt[m]
    BY <1>3, <2>1, JoinsAt
  <2> QED
    BY <1>1, <2>1, <2>2
<1>5. CASE ss = <<>>
  <2>1. n = 0 /\ m = 1 /\ FlattenSeq(ss) = <<>>
    BY <1>1, <1>5, EmptySeq DEF FlattenSeq, n
  <2> QED
    BY <1>3, <1>4, <2>1, EmptySeq, ConcatEmptySeq DEF tt
<1>6. CASE ss # <<>>
  <2>1. PICK f : Joins(ss, n, f) /\ FlattenSeq(ss) = f[n]
    BY <1>6, FlattenJoins DEF n
  <2>2. n \in Nat /\ n \in 1 .. n /\ n <= m /\ m \in Nat /\ m # 1 /\ n <= Len(ss)
    BY <1>1, <1>6, EmptySeq DEF n
  <2>3. \A i \in 1 .. n : f[i] = g[i]
    <3>1. Same(n, ss, tt)
      BY <1>1 DEF Same
    <3>2. Joins(ss, n, f) /\ Joins(tt, m, g)
      BY <1>3, <2>1
    <3>3. Same(n, f, g)
      BY <2>2, <3>1, <3>2, JoinsSame
    <3> QED
      BY <3>3 DEF Same
  <2>4. \A i \in 1 .. n : f[i] \in Seq(S)
    BY <2>1, <2>2, JoinsType
  <2> QED
    BY <1>3, <1>4, <2>1, <2>2, <2>3, <2>4 DEF tt
<1> QED
  BY <1>5, <1>6

\* What was published and what is in the pipe are, one behind the other, what
\* was put into the pipe.
PipeInv == spliced => FlattenSeq(published) \o pipe = piped

\* Three sequences behind each other: it does not matter which two are joined first.
Assoc(s, t, u) == (s \o t) \o u = s \o (t \o u)

LEMMA JoinAssoc ==
  ASSUME NEW S, NEW s \in Seq(S), NEW t \in Seq(S), NEW u \in Seq(S)
  PROVE  Assoc(s, t, u)
BY SMTT(30) DEF Assoc

\* tt and b are what is published and what is left once k of the bytes in q have
\* been moved.
Moved(ss, q, k, tt, b) ==
  /\ tt = IF k = 0 THEN ss ELSE Append(ss, SubSeq(q, 1, k))
  /\ b = SubSeq(q, k + 1, Len(q))

\* Both give the same bytes in the same order.
NothingLost(ss, q, tt, b) == FlattenSeq(tt) \o b = FlattenSeq(ss) \o q

LEMMA SpliceJoins ==
  ASSUME NEW S, NEW ss \in Seq(Seq(S)), NEW q \in Seq(S), NEW k \in 0 .. Len(q),
         NEW tt, NEW b, Moved(ss, q, k, tt, b)
  PROVE  NothingLost(ss, q, tt, b)
<1> SUFFICES FlattenSeq(tt) \o b = FlattenSeq(ss) \o q
  BY DEF NothingLost
<1> DEFINE a == SubSeq(q, 1, k)
           out == FlattenSeq(ss)
<1>1. tt = (IF k = 0 THEN ss ELSE Append(ss, a)) /\ b = SubSeq(q, k + 1, Len(q))
  BY DEF Moved
<1>2. a \in Seq(S) /\ b \in Seq(S) /\ a \o b = q
  BY <1>1, CutJoins
<1>3. Len(a) = k
  BY CutParts
<1> HIDE DEF a
<1>4. out \in Seq(S) /\ FlattenSeq(Append(ss, a)) = out \o a
  BY <1>2, FlattenAppend
<1> HIDE DEF out
<1>5. FlattenSeq(tt) = out \o a
  <2>1. CASE k = 0
    <3>1. a = <<>>
      BY <1>2, <1>3, <2>1, EmptySeq
    <3>2. out \o <<>> = out
      BY <1>4, ConcatEmptySeq
    <3>3. tt = ss
      BY <1>1, <2>1
    <3> QED
      BY <3>1, <3>2, <3>3 DEF out
  <2>2. CASE k # 0
    <3>1. tt = Append(ss, a)
      BY <1>1, <2>2
    <3> QED
      BY <1>4, <3>1
  <2> QED
    BY <2>1, <2>2
<1>6. Assoc(out, a, b)
  BY <1>2, <1>4, JoinAssoc
<1>7. (out \o a) \o b = out \o (a \o b)
  BY <1>6 DEF Assoc
<1> QED
  BY <1>2, <1>5, <1>7 DEF out

\* A chunk more goes in behind, and what the second splice() moves comes out in
\* front.
LEMMA SpliceOrder ==
  ASSUME BridgeType, PipeInv, spliced, UNCHANGED spliced, NEW chunk \in Seq(Byte),
         SpliceChunk(chunk)
  PROVE  PipeInv'
<1> DEFINE q == pipe \o chunk
           out == FlattenSeq(published)
<1>1. published \in Seq(Seq(Byte)) /\ pipe \in Seq(Byte)
  BY DEF BridgeType, TypeOK
<1>2. q \in Seq(Byte) /\ Len(q) = Len(pipe) + Len(chunk)
  BY <1>1, ConcatProperties
<1>3. out \in Seq(Byte)
  BY <1>1, EmptySeq, FlattenAppend
<1>4. PICK k \in 0 .. Len(chunk) : Moved(published, q, k, published', pipe')
  BY DEF SpliceChunk, InPipe, Moved
<1>5. piped' = (out \o pipe) \o chunk
  BY DEF SpliceChunk, PipeInv
<1>6. Assoc(out, pipe, chunk)
  <2> HIDE DEF q, out
  <2> QED
    BY <1>1, <1>3, JoinAssoc
<1>7. (out \o pipe) \o chunk = out \o q
  <2> HIDE DEF out
  <2> QED
    BY <1>6 DEF Assoc
<1> HIDE DEF q
<1>8. k \in 0 .. Len(q)
  <2>1. Len(pipe) \in Nat /\ Len(chunk) \in Nat
    BY <1>1, LenProperties
  <2> QED
    BY <1>2, <2>1
<1>9. NothingLost(published, q, published', pipe')
  BY <1>1, <1>2, <1>4, <1>8, SpliceJoins
<1>10. FlattenSeq(published') \o pipe' = out \o q
  BY <1>9 DEF NothingLost
<1> QED
  BY <1>5, <1>7, <1>10 DEF PipeInv

LEMMA PipeInit == Init => PipeInv
<1> SUFFICES ASSUME Init PROVE PipeInv
  OBVIOUS
<1>1. pipe = <<>> /\ piped = <<>> /\ published = <<>>
  BY DEF Init, DealerInit
<1>2. FlattenSeq(<<>>) = <<>> /\ <<>> \o <<>> = <<>>
  BY EmptySeq, ConcatEmptySeq DEF FlattenSeq
<1> QED
  BY <1>1, <1>2 DEF PipeInv

\* The dealer's end
LEMMA PipeDown ==
  ASSUME BridgeType, PipeInv, spliced, DealerDown, UNCHANGED spliced
  PROVE  PipeInv'
<1> DEFINE out == FlattenSeq(published)
<1>1. published \in Seq(Seq(Byte)) /\ pipe \in Seq(Byte)
  BY DEF BridgeType, TypeOK
<1>2. out \in Seq(Byte)
  BY <1>1, EmptySeq, FlattenAppend
<1>3. piped = out \o pipe /\ piped' = SubSeq(piped, 1, Len(piped) - Len(pipe))
      /\ published' = published /\ pipe' = <<>>
  BY DEF DealerDown, PipeInv
<1> HIDE DEF out
<1>4. SubSeq(out \o pipe, 1, Len(out \o pipe) - Len(pipe)) = out
  BY <1>1, <1>2, FrontOfJoin
<1>5. out \o <<>> = out
  BY <1>2, ConcatEmptySeq
<1> QED
  BY <1>3, <1>4, <1>5 DEF PipeInv, out

LEMMA PipeNext == BridgeType /\ PipeInv /\ [Next]_vars => PipeInv'
<1> SUFFICES ASSUME BridgeType, PipeInv, [Next]_vars, spliced, UNCHANGED spliced PROVE PipeInv'
  BY DEF PipeInv, Next, vars
<1>1. CASE UNCHANGED <<published, pipe, piped>>
  BY <1>1 DEF PipeInv
<1>2. CASE UdpData
  <2>1. PICK c \in Conn : \E k \in DOMAIN conn[c].stream : Publish(conn[c].stream[k])
    BY <1>2 DEF UdpData
  <2>2. PICK k \in DOMAIN conn[c].stream : Publish(conn[c].stream[k])
    BY <2>1
  <2>3. conn[c].stream[k] \in Seq(Byte)
    BY <1>2, <2>2, ConnTypes, TakeOutType DEF UdpData
  <2> QED
    BY <2>2, <2>3, SpliceOrder DEF Publish
<1>3. ASSUME NEW i \in Slot, TcpData(i) PROVE PipeInv'
  <2> DEFINE s == conn[slots[i]].stream
  <2>1. s \in Seq(Byte)
    <3>1. conn \in Conns /\ slots[i] \in Conn /\ proto = "tcp"
      BY <1>3, ConnTypes DEF TcpData, BridgeType, TypeOK
    <3> QED
      BY <3>1, EditType DEF Stream
  <2>2. ASSUME NEW n \in 1 .. Len(s), Publish(SubSeq(s, 1, n)) PROVE PipeInv'
    <3>1. SubSeq(s, 1, n) \in Seq(Byte)
      BY <2>1, PieceType
    <3> QED
      BY <2>2, <3>1, SpliceOrder DEF Publish
  <2> QED
    BY <1>1, <1>3, <2>2 DEF TcpData
<1>4. CASE DealerDown
  BY <1>4, PipeDown
<1> QED
  BY <1>1, <1>2, <1>3, <1>4 DEF Next, DealerNext, TcpCb, DealerUp, dvars, vars

LEMMA PipeEnough == BridgeType /\ PipeInv => PipeInOrder
<1> SUFFICES ASSUME BridgeType, PipeInv, spliced PROVE FlattenSeq(Chunks) = piped
  BY DEF PipeInOrder
<1>1. published \in Seq(Seq(Byte)) /\ pipe \in Seq(Byte)
  BY DEF BridgeType, TypeOK
<1> QED
  BY <1>1, FlattenAppend DEF PipeInv, Chunks

\* A dealer that splices publishes, byte behind byte, what it has read: over UDP
\* and TCP, however little each splice() moves, none is lost, doubled or overtaken
\* but those that were in the pipe of a dealer that has ended.
THEOREM PipeInOrderCorrect == Spec => []PipeInOrder
<1>1. Init => BridgeType /\ PipeInv
  BY TypeInit, PipeInit
<1>2. BridgeType /\ PipeInv /\ [Next]_vars => (BridgeType /\ PipeInv)'
  BY TypeNext, PipeNext
<1>3. BridgeType /\ PipeInv => PipeInOrder
  BY PipeEnough
<1> QED
  BY <1>1, <1>2, <1>3, PTL DEF Spec
=============================================================================
