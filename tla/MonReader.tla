------------------------------ MODULE MonReader ------------------------------
(***************************************************************************)
(* unsermon from its modules to its lines: modules register decoders       *)
(* before the loop starts, while datagrams gather in the kernel; then the  *)
(* callback of a socket reads until nothing comes any more and prints a    *)
(* line for each message, by the decoder of its service.  A step of the    *)
(* callback is one call of ud_chck_msg(); datagrams arrive in between.     *)
(***************************************************************************)
EXTENDS MonDecmap, PackReader

CONSTANTS
  Ping,        \* UD_CTRL_SVC(UD_SVC_PING); the PONG is the one behind
  MonDecPing,  \* mon_dec_ping(), svc-pong's decoder
  Texts,       \* services unsermon itself has a text for
  Arriving,    \* services others send under
  Bodies,      \* payloads that arrive, as sequences of "data" and "other"
  QMax,        \* datagrams the kernel keeps for a socket nobody reads
  MaxDgrams    \* bound: datagrams that arrive

ASSUME MonReaderAssumption ==
  /\ {Ping, Ping + 1} \subseteq Svc /\ MonDecPing \in Decoder /\ Texts \subseteq Svc
  /\ Arriving \subseteq Svc
  /\ Bodies \subseteq Seq({"data", "other"})
  /\ QMax \in Nat \ {0} /\ MaxDgrams \in Nat

VARIABLES
  phase,  \* "ping" and "pong" (svc-pong registers), "argv", "loop", "done"
  busy,   \* whether the callback runs
  sent,   \* history: the datagrams the kernel took for the socket
  lines   \* history: the lines printed

vars == <<decmap, inq, rd, tgt, phase, busy, sent, lines>>

Init ==
  /\ DecmapInit /\ ReaderInit
  /\ phase = "ping" /\ busy = FALSE /\ sent = <<>> /\ lines = <<>>

-----------------------------------------------------------------------------
(* Loading.  The socket is a member of its group already. *)

\* A call of a module that main() goes through; what it changes is decmap.
Load(from, to) ==
  /\ phase = from /\ phase' = to
  /\ UNCHANGED <<inq, rd, tgt, busy, sent, lines>>

\* svc-pong's ud_mondec_init(): either page may not be there to be had.
RegPing == Load("ping", "pong") /\ (Reg(Ping, MonDecPing) \/ UNCHANGED decmap)
RegPong == Load("pong", "argv") /\ (Reg(Ping + 1, MonDecPing) \/ UNCHANGED decmap)

\* open_aux() that finds no module, or no ud_mondec_init() in it
OpenFails == Load("ping", "argv") /\ UNCHANGED decmap

\* The modules of the command line do what they want with the map.
LoadModule == Load("argv", "argv") /\ DecmapNext

EvLoop == Load("argv", "loop") /\ UNCHANGED decmap

-----------------------------------------------------------------------------
(* Reading *)

\* The datagram the kernel takes next; dgram and nr tell packs apart.
Datagram(good, svc, body) ==
  [good |-> good, svc |-> svc,
   packs |-> [k \in DOMAIN body |-> [tag |-> body[k], dgram |-> Len(sent) + 1, nr |-> k]]]

\* A datagram joins the queue, or finds it full.
Joins(queue, good, svc, body) ==
  IF Len(sent) < MaxDgrams /\ Len(queue) < QMax
  THEN /\ inq' = Append(queue, Datagram(good, svc, body))
       /\ sent' = Append(sent, Datagram(good, svc, body))
  ELSE inq' = queue /\ UNCHANGED sent

Arrive ==
  /\ phase # "done" /\ Len(sent) < MaxDgrams
  /\ \/ \E svc \in Arriving, body \in Bodies : Joins(inq, TRUE, svc, body)
     \/ Joins(inq, FALSE, Ping, <<"data">>)
  /\ UNCHANGED <<decmap, rd, tgt, phase, busy, lines>>

\* The socket is readable: mon_beef_cb() is called.
BeefCb ==
  /\ phase = "loop" /\ ~ busy /\ inq # <<>>
  /\ busy' = TRUE
  /\ UNCHANGED <<decmap, inq, rd, tgt, phase, sent, lines>>

\* ud_chck_msg(): a PING that is looked at is answered, and unsermon hears it.
Chck ==
  /\ ChckMsg
  /\ \/ inq' = Rest /\ UNCHANGED sent
     \/ Looks /\ Current.svc = Ping /\ Joins(Rest, TRUE, Ping + 1, <<"data">>)

\* The service as if it had been asked for before the call
BugAuxSvc == rd.svc
\* aux->svc
AuxSvc == Current.svc

\* The decoder that writes the message, or where the text comes from
By(svc) ==
  IF Mondec(svc) # Null THEN Mondec(svc) ELSE IF svc \in Texts THEN "text" ELSE "nothing"

\* A callback that ends with the message
BugGoesOn == FALSE
GoesOn == Gives

\* One round of the loop in mon_beef_cb()
Round ==
  /\ phase = "loop" /\ busy
  /\ \/ Chck
     \/ ~ Pending /\ UNCHANGED <<inq, rd, tgt, sent>>
  /\ lines' = IF Gives
              THEN Append(lines, [dgram |-> tgt'[2].dgram, nr |-> tgt'[2].nr, by |-> By(AuxSvc)])
              ELSE lines
  /\ busy' = GoesOn
  /\ UNCHANGED <<decmap, phase>>

\* A signal ends the loop once the callback is through.
Signal ==
  /\ phase = "loop" /\ ~ busy
  /\ phase' = "done"
  /\ UNCHANGED <<decmap, inq, rd, tgt, busy, sent, lines>>

-----------------------------------------------------------------------------

Next ==
  \/ RegPing \/ RegPong \/ OpenFails \/ LoadModule \/ EvLoop
  \/ Arrive \/ BeefCb \/ Round \/ Signal

Spec == Init /\ [][Next]_vars

\* unsermon gets to its loop, poll() returns while the kernel keeps datagrams,
\* and a callback goes on.
LiveSpec == Spec /\ WF_vars(EvLoop) /\ WF_vars(RegPing \/ RegPong) /\ WF_vars(BeefCb) /\ WF_vars(Round)

-----------------------------------------------------------------------------

\* The places of the messages in datagram n: those before the first pack that
\* is no data pack, if it is unserding's at all.
Messages(n) ==
  {k \in DOMAIN sent[n].packs :
     sent[n].good /\ \A j \in 1 .. k : sent[n].packs[j].tag = "data"}

\* The datagrams that have left the kernel's queue are the first of those sent.
Taken == Len(sent) - Len(inq)

\* The order of messages: that of the datagrams, and of places in one
Before(p, q) == p.dgram < q.dgram \/ (p.dgram = q.dgram /\ p.nr < q.nr)

\* The lines are the messages that arrived, in order, none twice and none left
\* out: what has left the queue and has no line yet is behind all that have,
\* and only while the callback goes on.  When it has returned there is a line
\* for every message of the datagrams it fetched: what stayed in the library's
\* buffer would wait for the next datagram, as libev watches the descriptor only.
PrintsWhatCame ==
  /\ \A l, m \in DOMAIN lines : l < m => Before(lines[l], lines[m])
  /\ \A l \in DOMAIN lines :
       lines[l].dgram \in 1 .. Taken /\ lines[l].nr \in Messages(lines[l].dgram)
  /\ \A n \in 1 .. Taken : \A k \in Messages(n) :
       \/ \E l \in DOMAIN lines : lines[l].dgram = n /\ lines[l].nr = k
       \/ busy /\ \A l \in DOMAIN lines : Before(lines[l], [dgram |-> n, nr |-> k])

\* Each is written by the decoder of the service it was sent under, and not of
\* another packet's that was read before.
RightDecoder == \A l \in DOMAIN lines : lines[l].by = By(sent[lines[l].dgram].svc)

\* A datagram the kernel took is printed in the end, unless unsermon is ended
\* first.
QueuedIsPrinted ==
  \A n \in 1 .. MaxDgrams :
    n <= Len(sent) ~>
      \/ phase = "done"
      \/ n <= Len(sent) /\ \A k \in Messages(n) :
           \E l \in DOMAIN lines : lines[l].dgram = n /\ lines[l].nr = k
=============================================================================
