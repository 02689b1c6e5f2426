------------------------------- MODULE PubSub -------------------------------
(***************************************************************************)
(* What the library promises to publishers and subscribers of an ordered   *)
(* but unreliable network: a subscriber sees, of every publisher, a        *)
(* subsequence of the messages the publisher packed, in their order, each  *)
(* at most once, and under the service and with the length it was packed   *)
(* with.  Nothing is delivered before the publisher's packet is flushed,   *)
(* and a flush takes everything that is pending.  There is no promise of   *)
(* delivery.  Control messages come in between; their seq is 0.            *)
(***************************************************************************)
EXTENDS Integers, Sequences

CONSTANTS Sock, Message, Control

VARIABLES
  accepted,   \* accepted[p]: the messages p packed, oldest first
  flushed,    \* flushed[p]: which of them left p, as indices
  delivered   \* delivered[t]: what t was handed, as [src, seq, msg] records

vars == <<accepted, flushed, delivered>>

Init ==
  /\ accepted = [p \in Sock |-> <<>>]
  /\ flushed = [p \in Sock |-> {}]
  /\ delivered = [t \in Sock |-> <<>>]

\* Everything p packed so far leaves.
FlushAll(p) == flushed' = [flushed EXCEPT ![p] = 1 .. Len(accepted[p])]

\* A message is taken; what was pending may have to leave to make room.
Accept(p, m) ==
  /\ accepted' = [accepted EXCEPT ![p] = Append(@, m)]
  /\ FlushAll(p) \/ UNCHANGED flushed
  /\ UNCHANGED delivered

Transmit(p) == FlushAll(p) /\ UNCHANGED <<accepted, delivered>>

\* t is handed the i-th message of p, later than any it had of p before.
Deliver(t, p, i) ==
  /\ i \in flushed[p]
  /\ \A k \in DOMAIN delivered[t] :
       delivered[t][k].src = p => delivered[t][k].seq < i
  /\ delivered' = [delivered EXCEPT ![t] =
       Append(@, [src |-> p, seq |-> i, msg |-> accepted[p][i]])]
  /\ UNCHANGED <<accepted, flushed>>

\* t is handed a control message of p.  If it is a PING t answers, and what t
\* has pending leaves before the answer.
Hear(t, p) ==
  /\ delivered' = [delivered EXCEPT ![t] =
       Append(@, [src |-> p, seq |-> 0, msg |-> Control])]
  /\ FlushAll(t) \/ UNCHANGED flushed
  /\ UNCHANGED accepted

Next ==
  \/ \E p \in Sock, m \in Message : Accept(p, m)
  \/ \E p \in Sock : Transmit(p)
  \/ \E t, p \in Sock : \E i \in flushed[p] : Deliver(t, p, i)
  \/ \E t, p \in Sock : Hear(t, p)

Spec == Init /\ [][Next]_vars
=============================================================================
