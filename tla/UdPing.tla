-------------------------------- MODULE UdPing --------------------------------
(***************************************************************************)
(* ud-ping and the payload of PING and PONG (svc-pong): the tool sends     *)
(* PINGs on a timer, every socket of the group answers those it reads, the *)
(* tool's own too, and the tool prints the host name of each PONG.  It     *)
(* reads one message an event, while others PING the group as well, and    *)
(* publish on its port.                                                    *)
(*                                                                         *)
(* A host is the length of its name, which is all that packing and         *)
(* unpacking a name can get wrong.                                         *)
(***************************************************************************)
EXTENDS Integers, FiniteSets, PackReader

CONSTANTS
  Hosts,     \* hosts in the group, as the lengths of their names
  Self,      \* the host ud-ping runs on
  Count,     \* --count
  MaxQueue,  \* bound: datagrams waiting for the tool
  MaxOthers  \* bound: packets of others, their answers apart

ASSUME PingAssumption ==
  /\ Hosts \subseteq 1 .. 254  \* what gethostname() can give, cut to the buffer
  /\ Self \in Hosts
  /\ {Count, MaxQueue, MaxOthers} \subseteq Nat

VARIABLES
  cnt,      \* ctx->cnt
  loop,     \* "on", or what ended it, "count" or "signal"
  last,     \* callbacks that still run once it is ended
  sent,     \* PINGs sent so far
  refused,  \* PINGs that ud_pack_pong() could not send
  asked,    \* asked[h]: PINGs h has not seen or lost yet
  others,   \* packets of others so far
  read,     \* read[h]: PONGs of h the tool has read
  shown     \* shown[h]: lines printed for those, and how much of the name

lvars == <<loop, last>>
vars == <<cnt, lvars, sent, refused, asked, inq, rd, tgt, others, read, shown>>

MsgSize == 64                      \* sizeof(__msg)
HeadSize == 5                      \* pid and length
MAX_HNZ == MsgSize - 6
UInt == 2 ^ 16                     \* scaled down from 2^32, which is out of TLC's range

\* ud_pack_ping(): the length that goes on the wire for a name of length n
\* cut down to what a reader accepts (for mutation runs, like every definition
\* whose name starts with Bug)
BugWireLen(n) == IF n % 256 > MAX_HNZ THEN MAX_HNZ ELSE (n % 256) - 1
WireLen(n) == IF n % 256 > MAX_HNZ THEN MsgSize - HeadSize ELSE n % 256

Dlen(n) == HeadSize + WireLen(n)

\* ud_chck_ping() on a PING or PONG with a name of length n, with its bound
\* one too low
BugAccepts(n) == Dlen(n) <= MsgSize /\ WireLen(n) < MAX_HNZ
Accepts(n) == Dlen(n) <= MsgSize /\ WireLen(n) <= MAX_HNZ

PING == 65284                      \* UD_CTRL_SVC(UD_SVC_PING)
PONG == PING + 1
Data == 1                          \* a service somebody publishes under

Packet(svc, h, n) ==
  [good |-> TRUE, svc |-> svc, packs |-> [k \in 1 .. n |-> [tag |-> "data", from |-> h]]]
Ping(h) == Packet(PING, h, 1)
Pong(h) == Packet(PONG, h, 1)

Init ==
  /\ cnt = Count /\ loop = "on" /\ last = {} /\ sent = 0 /\ refused = 0
  /\ asked = [h \in Hosts |-> 0] /\ others = 0
  /\ ReaderInit
  /\ read = [h \in Hosts |-> 0]
  /\ shown = [h \in Hosts |-> [lines |-> 0, name |-> 0]]

Joined(queue, m) == IF Len(queue) < MaxQueue THEN Append(queue, m) ELSE queue

\* h pings the group: it is in the tool's queue, and the others' before long.
Pinged(h) ==
  /\ asked' = [g \in Hosts |-> IF g = Self THEN asked[g] ELSE asked[g] + 1]
  /\ inq' = Joined(inq, Ping(h))

-----------------------------------------------------------------------------
(* The loop.  ev_unloop() has it end with the iteration it is in, so those *)
(* callbacks run that the last poll() found something for.                 *)

Running == loop = "on"
Runs(cb) ==
  /\ Running \/ cb \in last
  /\ last' = last \ {cb}
  /\ UNCHANGED loop

\* ev_timer_stop() and ev_unloop()
Stop ==
  /\ loop' = "count"
  /\ last' \in IF Running THEN SUBSET {"sub"} ELSE {last \ {"ptm"}}
  /\ UNCHANGED <<sent, refused, asked, inq>>
\* ud_pack_pong(), whose result nobody looks at: what the kernel refuses to
\* send is gone.
SendPing ==
  /\ Runs("ptm")
  /\ \/ sent' = sent + 1 /\ Pinged(Self) /\ UNCHANGED refused
     \/ refused' = refused + 1 /\ UNCHANGED <<sent, asked, inq>>

\* ptm_cb() that counts down first
BugPtmCb ==
  /\ Running \/ "ptm" \in last
  /\ cnt' = (cnt - 1) % UInt
  /\ IF cnt' = 0 THEN Stop ELSE SendPing
  /\ UNCHANGED <<rd, tgt, others, read, shown>>
\* ptm_cb() that forgets to
BugNoCount ==
  /\ Running \/ "ptm" \in last
  /\ sent + refused < 3 * (Count + 1)
  /\ IF cnt = 0 THEN Stop ELSE SendPing
  /\ UNCHANGED <<cnt, rd, tgt, others, read, shown>>
\* ptm_cb(): if (!ctx->cnt--) stop; the count wraps below zero then
PtmCb ==
  /\ Running \/ "ptm" \in last
  /\ cnt' = (cnt - 1) % UInt
  /\ IF cnt = 0 THEN Stop ELSE SendPing
  /\ UNCHANGED <<rd, tgt, others, read, shown>>

\* The descriptor watched as if it were no more once something is buffered
BugReadable == inq # <<>> /\ ~ rd.held
Readable == inq # <<>>

\* sub_cb(): one call of ud_chck_ping(), one of ud_chck_msg() that is.  A PING
\* is answered while a pack of it is being looked at, and that PONG comes back
\* unless it is refused or lost; PONGs are printed.
SubCb ==
  /\ Readable /\ Runs("sub")
  /\ ChckMsg
  /\ inq' \in {Rest} \cup {Joined(Rest, Pong(Self)) : x \in {c \in {Current.svc} : Looks /\ c = PING}}
  /\ IF Gives /\ Current.svc = PONG
     THEN LET h == tgt'[2].from
          IN  /\ read' = [read EXCEPT ![h] = @ + 1]
              /\ shown' = IF ~ Accepts(h) THEN shown
                          ELSE [shown EXCEPT ![h] = [lines |-> @.lines + 1, name |-> WireLen(h)]]
     ELSE UNCHANGED <<read, shown>>
  /\ UNCHANGED <<cnt, sent, refused, asked, others>>

\* sigall_cb()
Signal ==
  /\ Running
  /\ loop' = "signal" /\ last' \in SUBSET {"sub", "ptm"}
  /\ UNCHANGED <<cnt, sent, refused, asked, inq, rd, tgt, others, read, shown>>

-----------------------------------------------------------------------------
(* The others *)

\* A host reads a PING and answers, or either is lost.
Answer(h) ==
  /\ asked[h] > 0
  /\ asked' = [asked EXCEPT ![h] = @ - 1]
  /\ inq' \in {inq, Joined(inq, Pong(h))}
  /\ UNCHANGED <<cnt, lvars, sent, refused, rd, tgt, others, read, shown>>

\* Somebody else pings, packs two messages into a packet of the same port, or
\* sends what is no packet at all.
Chatter ==
  /\ others < MaxOthers /\ others' = others + 1
  /\ \/ \E h \in Hosts \ {Self} : Pinged(h)
     \/ /\ \E d \in {Packet(Data, Self, 2), [Packet(Data, Self, 0) EXCEPT !.good = FALSE]} :
             inq' = Joined(inq, d)
        /\ UNCHANGED asked
  /\ UNCHANGED <<cnt, lvars, sent, refused, rd, tgt, read, shown>>

Next == PtmCb \/ SubCb \/ Signal \/ Chatter \/ \E h \in Hosts : Answer(h)

Spec == Init /\ [][Next]_vars

\* libev runs the callback as long as the kernel keeps a datagram.
LiveSpec == Spec /\ WF_vars(SubCb)

-----------------------------------------------------------------------------

\* ud-ping tries to send a PING as many times as --count says, no matter how
\* it counts down past zero, and fewer times only if a signal ends it; what it
\* could not send counts like what it sent and is not tried again, so "Send
\* exactly NATNUM echo requests" is true of a run without refusals only.
ExactCount ==
  /\ sent + refused <= Count
  /\ loop = "count" => sent + refused = Count

\* Every PONG ud-ping reads, its own too, is unpacked and printed: what
\* ud_pack_ping() makes of a name ud_chck_ping() takes apart again ("Unpack a
\* message assumed to be a svc_ping_s object FROM S into TGT").
AnswersShown == \A h \in Hosts : shown[h].lines = read[h]

\* What is printed is the whole name of the host that answered.
NamesWhole == \A h \in Hosts : shown[h].lines > 0 => shown[h].name = h

PongsKept(h) ==
  Cardinality({i \in DOMAIN inq : inq[i].svc = PONG /\ inq[i].packs[1].from = h})

\* A PONG the kernel keeps is printed unless the tool ends first, although it
\* reads one message an event, packets of others have several, and the end of
\* each takes an event more: what stays unread in the library's buffer never
\* holds up what is behind it.
PongsShown ==
  \A h \in Hosts : \A n \in 1 .. Count + MaxOthers :
    shown[h].lines + PongsKept(h) >= n ~> shown[h].lines >= n \/ ~ Running

\* ud-ping with --count ends, if libev runs the timer as long as it is active.
Stops == WF_vars(PtmCb) => <>~ Running
=============================================================================
