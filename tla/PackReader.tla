----------------------------- MODULE PackReader -----------------------------
(***************************************************************************)
(* What reading promises to a program that subscribes: ud_chck_msg() hands *)
(* out the packs of one datagram after the other, in their order and under *)
(* the datagram's service.  Lengths and buffers are gone: a packet that is *)
(* being read is its service and the packs nobody has looked at yet, a     *)
(* function from their places, of which only the order matters.            *)
(***************************************************************************)
EXTENDS Naturals, Sequences

VARIABLES
  inq,  \* datagrams the kernel keeps for the socket
  rd,   \* the packet being read, if one is held, and what is left of it
  tgt   \* the message handed out last, as <<service, pack>>, or <<>>

\* nrd = 0
Idle == [held |-> FALSE, svc |-> 0, packs |-> <<>>]

\* The first of some packs, and those behind it
First(packs) == CHOOSE o \in DOMAIN packs : \A p \in DOMAIN packs : o <= p
Behind(packs) == [o \in DOMAIN packs \ {First(packs)} |-> packs[o]]

\* ud_dscrd() on a datagram.  A packet that is not unserding's is refused, one
\* without payload leaves nothing to read.
Loaded(d) ==
  IF d.good /\ DOMAIN d.packs # {}
  THEN [held |-> TRUE, svc |-> d.svc, packs |-> d.packs]
  ELSE Idle

\* The packet a call looks at, and the datagrams it leaves to the kernel
Current == IF rd.held THEN rd ELSE Loaded(Head(inq))
Rest == IF rd.held THEN inq ELSE Tail(inq)

\* Whether there is anything a call could change
Pending == rd.held \/ inq # <<>>

\* Whether ud_chck_msg() looks at a pack, and whether it returns 0
Looks == Pending /\ DOMAIN Current.packs # {}
Pack(r) == r.packs[First(r.packs)]
Gives == Looks /\ Pack(Current).tag = "data"

\* The packet as if looking at a pack left it there (for mutation runs, like
\* every definition whose name starts with Bug)
BugSeen(r) == r
\* The packet once its first pack has been looked at: what is no data pack
\* ends it, and whatever comes behind.
Seen(r) == IF Pack(r).tag = "data" THEN [r EXCEPT !.packs = Behind(@)] ELSE Idle

\* ud_chck_msg() on the socket; what happens to inq beyond Rest is not its own
\* doing.  A packet read to its end takes a call to be forgotten.
ChckMsg ==
  /\ Pending
  /\ rd' = IF Looks THEN Seen(Current) ELSE Idle
  /\ tgt' = IF Gives THEN <<Current.svc, Pack(Current)>> ELSE tgt

\* ud_dscrd() by the application
Dscrd ==
  /\ Pending
  /\ rd' = IF rd.held THEN Idle ELSE Loaded(Head(inq))
  /\ UNCHANGED tgt

\* Datagrams keep their place in the queue, whatever comes behind.
Stays(queue) == Len(queue) <= Len(inq') /\ SubSeq(inq', 1, Len(queue)) = queue

ReaderInit == inq = <<>> /\ rd = Idle /\ tgt = <<>>

\* Reading takes datagrams off the head of the queue; the network does what it
\* wants with the rest.
ReaderNext ==
  \/ (ChckMsg \/ Dscrd) /\ Stays(Rest)
  \/ UNCHANGED <<rd, tgt>>

ReaderSpec == ReaderInit /\ [][ReaderNext]_<<inq, rd, tgt>>
=============================================================================
