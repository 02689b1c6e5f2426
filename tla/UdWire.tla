------------------------------- MODULE UdWire -------------------------------
(***************************************************************************)
(* The wire format of unserding packets: a header (packet number, command) *)
(* and a payload made of TLV packs, each one a type octet, a length octet  *)
(* and the data.  A payload is looked at through the places where packs    *)
(* start: it is a function from byte offsets to cells, and a cell is       *)
(* either the head of a pack or some other byte.                           *)
(***************************************************************************)
EXTENDS Integers

CONSTANTS
  Sock,      \* the unserding sockets on the network
  Foreign,   \* a sender on the network that is not this library
  LenMod,    \* values of the length octet, 256 in the code
  Cap,       \* payload bytes of a packet, 1440 - 8 in the code
  PnoMod,    \* packet numbers on the wire, 65536 in the code
  PingLen    \* data length of a PING or PONG pack, 5 + length of host name

(***************************************************************************)
(* Every pack whose length fits the length octet fits an empty packet;     *)
(* 255 + 2 <= 1432 in the code.                                            *)
(***************************************************************************)
ASSUME WireAssumption ==
  /\ Foreign \notin Sock
  /\ LenMod \in Nat \ {0}
  /\ Cap \in Nat
  /\ LenMod + 1 <= Cap
  /\ PnoMod \in Nat \ {0}
  /\ PingLen \in 0 .. LenMod - 1

-----------------------------------------------------------------------------
(* Service numbers: a channel octet and a service octet. *)

Svc == 0 .. 65535
ChnCtrl == 255
UD_CHN(svc) == svc \div 256
UD_SVC(chn, s) == chn * 256 + s
PING == UD_SVC(ChnCtrl, 4)
PONG == UD_SVC(ChnCtrl, 5)

IsCtrl(svc) == UD_CHN(svc) = ChnCtrl

\* The services the application may use: 0xff00 - 0xffff are reserved.
UserSvc == {v \in Svc : ~ IsCtrl(v)}

-----------------------------------------------------------------------------
(* Packs.  src and seq are bookkeeping of the model: they say which        *)
(* message of which sender the data octets are (seq = 0: a control         *)
(* message).                                                               *)

Offs == 0 .. Cap - 1
Byte == 0 .. LenMod - 1

Cell == [tag : {"data", "other"}, len : Byte, src : Sock \cup {Foreign}, seq : Nat]
Blank == [tag |-> "other", len |-> 0, src |-> Foreign, seq |-> 0]
Buffer == [Offs -> Cell]
BlankBuffer == [o \in Offs |-> Blank]

DataCell(z, s, i) == [tag |-> "data", len |-> z, src |-> s, seq |-> i]

\* The conversion (uint8_t)dlen every packed message goes through.
WireLen(dlen) == dlen % LenMod

\* Bytes a pack of z data octets takes: type and length octet and the data.
PackSize(z) == z + 2

\* Write a pack at offset o: the bytes it covers no longer start packs.
PutPack(b, o, c) ==
  [p \in Offs |-> IF p = o THEN c
                  ELSE IF p > o /\ p < o + PackSize(c.len) THEN Blank
                  ELSE b[p]]

\* The first n bytes of b, laid over the buffer under.
Overlay(b, n, under) == [p \in Offs |-> IF p < n THEN b[p] ELSE under[p]]

\* nr is bookkeeping of the model: which of its sender's packets this is.
Datagram ==
  [src : Sock \cup {Foreign}, good : BOOLEAN, pno : 0 .. PnoMod - 1, nr : Nat,
   cmd : Svc, len : 0 .. Cap, buf : Buffer]

(***************************************************************************)
(* Reading packs one behind the other from the first n bytes of b never    *)
(* leaves the packet and never looks at a byte that is not a pack's head.  *)
(***************************************************************************)
Chained(b, n) ==
  \A o \in Offs : o < n /\ b[o].tag = "data" =>
    LET e == o + PackSize(b[o].len)
    IN  e = n \/ (e < n /\ b[e].tag = "data")

Framed(b, n) == Chained(b, n) /\ (n > 0 => b[0].tag = "data")
=============================================================================
