--------------------------- MODULE UnserdingReads ---------------------------
(***************************************************************************)
(* The core implements PackReader: reading bytes at offsets of a buffer    *)
(* that is reused comes to reading packets pack by pack.                   *)
(***************************************************************************)
EXTENDS Unserding

\* The packs that start in b at k or behind and before n, by their offsets.  A
\* byte that starts none where one should be is a pack of its own, and the last.
Heads(b, k, n) ==
  IF k < n /\ b[k].tag # "data" THEN {k}
  ELSE {o \in Offs : k <= o /\ o < n /\ b[o].tag = "data"}

PacksFrom(b, k, n) == [o \in Heads(b, k, n) |-> b[o]]

PacketOf(d) == [good |-> d.good, svc |-> d.cmd, packs |-> PacksFrom(d.buf, 0, d.len)]

ReadOf(r) ==
  IF r.nrd = 0 THEN [held |-> FALSE, svc |-> 0, packs |-> <<>>]
  ELSE [held |-> TRUE, svc |-> r.cmd, packs |-> PacksFrom(r.buf, r.nck, r.nrd)]

\* The last of the messages d, as PackReader has it
LastOf(d) ==
  IF d = <<>> THEN <<>>
  ELSE LET m == d[Len(d)]
       IN  <<m.svc, [tag |-> "data", len |-> m.len, src |-> m.src, seq |-> m.seq]>>

Reading(t) ==
  INSTANCE PackReader WITH
    inq <- [i \in DOMAIN inq[t] |-> PacketOf(inq[t][i])],
    rd <- ReadOf(rcv[t]),
    tgt <- LastOf(delivered[t])

\* Every subscriber reads whole packets, each from its first pack to its last
\* and under its own service, whatever was in the buffer before it, whichever
\* calls are made in between and whatever the network puts into the queue.
ImplementsReader ==
  /\ \A t \in Subs : Reading(t)!ReaderInit
  /\ [][\A t \in Subs : Reading(t)!ReaderNext]_vars
=============================================================================
