--------------------------- MODULE MonReader_proofs ---------------------------
(***************************************************************************)
(* The decoder map implements the registry of decoders, for every number   *)
(* of pages and every set of decoders, and unsermon has the right one      *)
(* write each line, for any datagrams and any modules.                     *)
(***************************************************************************)
EXTENDS MonReader, SequenceTheorems, TLAPS

-----------------------------------------------------------------------------
(* The decoder map *)

\* The page and the entry computed for a service exist.
LEMMA Places ==
  ASSUME ChnSize = 256, NEW svc \in Svc
  PROVE  /\ PageOf(svc) \in 0 .. (NPages - 1)
         /\ Entry(svc) \in 0 .. (2 * ChnSize - 1)
  BY DecmapAssumption, SMT DEF Svc, PageOf, UD_CHN, Entry

\* Two services have neither page nor entry in common, or they are one.
LEMMA OnePlace ==
  ASSUME ChnSize = 256, NEW s \in Svc, NEW t \in Svc,
         PageOf(s) = PageOf(t), Entry(s) = Entry(t)
  PROVE  s = t
  BY DecmapAssumption, SMT DEF Svc, PageOf, UD_CHN, Entry

\* A page is no Null.
LEMMA PageIsThere == ASSUME NEW page \in Page PROVE page # Null
  BY DecmapAssumption DEF DecmapAssumption, Page

\* The decoder map has a type: every page that is mapped is a full one.
THEOREM DecmapType ==
  ASSUME ChnSize = 256
  PROVE  DecmapSpec => []DecmapTypeOK
<1>1. DecmapInit => DecmapTypeOK
  BY DEF DecmapInit, DecmapTypeOK
<1>2. ASSUME DecmapTypeOK, [DecmapNext]_decmap
      PROVE  DecmapTypeOK'
  <2>1. ASSUME NEW svc \in Svc, Dereg(svc) PROVE DecmapTypeOK'
    <3>1. decmap[PageOf(svc)] \in Page
      BY <1>2, <2>1, Places DEF Dereg, DecmapTypeOK
    <3>2. [decmap[PageOf(svc)] EXCEPT ![Entry(svc)] = Null] \in Page
      BY <3>1, Places DEF Page
    <3> QED
      BY <1>2, <2>1, <3>2, Places DEF Dereg, DecmapTypeOK
  <2>2. ASSUME NEW svc \in Svc, NEW cb \in Decoder, Reg(svc, cb) PROVE DecmapTypeOK'
    <3>1. PageFor(svc) \in Page
      BY <1>2, Places DEF PageFor, EmptyPage, DecmapTypeOK, Page
    <3>2. [PageFor(svc) EXCEPT ![Entry(svc)] = cb] \in Page
      BY <3>1, Places DEF Page
    <3> QED BY <1>2, <2>2, <3>2, Places DEF Reg, DecmapTypeOK
  <2>3. CASE UNCHANGED decmap
    BY <1>2, <2>3 DEF DecmapTypeOK
  <2> QED BY <1>2, <2>1, <2>2, <2>3 DEF DecmapNext
<1> QED BY <1>1, <1>2, PTL DEF DecmapSpec

\* A step of the map changes what __mondec() says of one service only.
LEMMA DeregIsDereg ==
  ASSUME ChnSize = 256, DecmapTypeOK, NEW svc \in Svc, Dereg(svc)
  PROVE  Registry!Dereg(svc)
<1>1. decmap[PageOf(svc)] \in Page
  BY Places DEF Dereg, DecmapTypeOK
<1>2. ASSUME NEW s \in Svc
      PROVE  Mondec(s)' = IF s = svc THEN Null ELSE Mondec(s)
  <2>1. decmap'[PageOf(svc)] = [decmap[PageOf(svc)] EXCEPT ![Entry(svc)] = Null]
    BY Places DEF Dereg, DecmapTypeOK
  <2>2. decmap'[PageOf(svc)] # Null
    BY <1>1, <2>1, Places, PageIsThere DEF Page
  <2>3. CASE PageOf(s) = PageOf(svc)
    BY <1>1, <2>1, <2>2, <2>3, Places, OnePlace DEF Mondec, Dereg, Page
  <2>4. CASE PageOf(s) # PageOf(svc)
    BY <2>4, Places DEF Mondec, Dereg, DecmapTypeOK
  <2> QED BY <2>3, <2>4
<1>3. Mondec(svc) # Null
  BY DEF Dereg, Mondec
<1> QED BY <1>2, <1>3 DEF Registry!Dereg

\* Registering likewise, a page mapped on the way being an empty one.
LEMMA RegIsReg ==
  ASSUME ChnSize = 256, DecmapTypeOK, NEW svc \in Svc, NEW cb \in Decoder, Reg(svc, cb)
  PROVE  Registry!Reg(svc, cb)
<1>1. PageFor(svc) \in Page
  BY Places DEF PageFor, EmptyPage, DecmapTypeOK, Page
<1>2. decmap'[PageOf(svc)] = [PageFor(svc) EXCEPT ![Entry(svc)] = cb]
  BY Places DEF Reg, DecmapTypeOK
<1>3. decmap'[PageOf(svc)] # Null
  BY <1>1, <1>2, Places, PageIsThere DEF Page
<1>4. ASSUME NEW s \in Svc
      PROVE  Mondec(s)' = IF s = svc THEN cb ELSE Mondec(s)
  <2>1. CASE PageOf(s) = PageOf(svc)
    <3>1. CASE s = svc
      BY <1>1, <1>2, <1>3, <3>1, Places DEF Mondec, Page
    <3>2. CASE s # svc
      <4>1. Mondec(s)' = PageFor(svc)[Entry(s)]
        BY <1>1, <1>2, <1>3, <2>1, <3>2, Places, OnePlace, ZenonT(30) DEF Mondec, Page
      <4>2. Mondec(s) = PageFor(svc)[Entry(s)]
        BY <2>1, Places DEF Mondec, PageFor, EmptyPage
      <4> QED BY <3>2, <4>1, <4>2
    <3> QED BY <3>1, <3>2
  <2>2. CASE PageOf(s) # PageOf(svc)
    BY <2>2, Places DEF Mondec, Reg, DecmapTypeOK
  <2> QED BY <2>1, <2>2
<1> QED BY <1>4 DEF Registry!Reg

\* The map of unsermon, 256 services to a channel, implements the registry:
\* a service has the decoder registered for it last.
THEOREM DecmapImplements ==
  ASSUME ChnSize = 256
  PROVE  DecmapSpec => ImplementsRegistry
<1>1. DecmapInit => Registry!Init
  BY Places DEF DecmapInit, Registry!Init, Mondec
<1>2. ASSUME DecmapTypeOK, [DecmapNext]_decmap
      PROVE  [Registry!Next]_([s \in Svc |-> Mondec(s)])
  <2>1. ASSUME NEW svc \in Svc, Dereg(svc) PROVE Registry!Next
    BY <1>2, <2>1, DeregIsDereg DEF Registry!Next
  <2>2. ASSUME NEW svc \in Svc, NEW cb \in Decoder, Reg(svc, cb) PROVE Registry!Next
    BY <1>2, <2>2, RegIsReg DEF Registry!Next
  <2>3. CASE UNCHANGED decmap
    BY <2>3 DEF Mondec
  <2> QED BY <1>2, <2>1, <2>2, <2>3 DEF DecmapNext
<1> QED BY <1>1, <1>2, DecmapType, PTL DEF DecmapSpec, ImplementsRegistry, Registry!Spec

\* unsermon changes the map by its modules' calls only, so it keeps what the
\* map implements.
THEOREM ReaderImplementsRegistry ==
  ASSUME ChnSize = 256
  PROVE  Spec => ImplementsRegistry
<1>1. Init => DecmapInit
  BY DEF Init
<1>2. [Next]_vars => [DecmapNext]_decmap
  <2>1. \A svc \in {Ping, Ping + 1} : Reg(svc, MonDecPing) => DecmapNext
    BY MonReaderAssumption DEF DecmapNext
  <2>2. Next => DecmapNext \/ UNCHANGED decmap
    BY <2>1 DEF Next, RegPing, RegPong, OpenFails, LoadModule, EvLoop, Arrive, BeefCb,
                Round, Signal
  <2> QED
    BY <2>2 DEF vars
<1>3. Spec => DecmapSpec
  BY <1>1, <1>2, PTL DEF Spec, DecmapSpec
<1> QED
  BY <1>3, DecmapImplements

-----------------------------------------------------------------------------
(* What is read and what is printed *)

Part == [tag : {"data", "other"}, dgram : Nat, nr : Nat]
Service == Svc \cup {0}
Sent == [good : BOOLEAN, svc : Service, packs : Seq(Part)]

\* Every pack is labelled with the datagram it was sent in and its place there.
Labelled(s) ==
  /\ s \in Seq(Sent)
  /\ \A n \in DOMAIN s : \A k \in DOMAIN s[n].packs :
       s[n].packs[k].dgram = n /\ s[n].packs[k].nr = k

\* The queue q holds the last of the datagrams sent.
LastOf(q, s) ==
  /\ q \in Seq(Sent) /\ Len(q) <= Len(s)
  /\ \A i \in 1 .. Len(q) : q[i] = s[(Len(s) - Len(q)) + i]

\* A held packet r is what is behind place c of the datagram d, the packs up
\* to there being messages.
LeftAt(r, d, c) ==
  /\ d.good /\ c \in 0 .. Len(d.packs)
  /\ r = [held |-> TRUE, svc |-> d.svc,
          packs |-> [k \in (c + 1) .. Len(d.packs) |-> d.packs[k]]]
  /\ \A j \in 1 .. c : d.packs[j].tag = "data"

\* The packet r, if any, is what is left of datagram n.
IsLeft(r, n, s) ==
  \/ r = Idle
  \/ n \in 1 .. Len(s) /\ \E c \in Nat : LeftAt(r, s[n], c)

\* The messages of datagram n
MessagesOf(s, n) ==
  {k \in DOMAIN s[n].packs : s[n].good /\ \A j \in 1 .. k : s[n].packs[j].tag = "data"}

\* Pack k of datagram i has been passed when r is what is left of datagram n.
Passed(i, k, r, n) == i < n \/ (i = n /\ ~ (r.held /\ k \in DOMAIN r.packs))

\* The lines ls are the messages passed, in order.
Printed(ls, r, n, s) ==
  /\ \A l, m \in DOMAIN ls : l < m => Before(ls[l], ls[m])
  /\ \A l \in DOMAIN ls :
       /\ ls[l].dgram \in 1 .. n /\ ls[l].nr \in MessagesOf(s, ls[l].dgram)
       /\ Passed(ls[l].dgram, ls[l].nr, r, n)
  /\ \A i \in 1 .. n : \A k \in MessagesOf(s, i) :
       Passed(i, k, r, n) => \E l \in DOMAIN ls : ls[l].dgram = i /\ ls[l].nr = k

Line == [dgram : Nat, nr : Nat, by : {By(svc) : svc \in Service}]

\* The lines are the messages that were passed, what is held is the rest of
\* the datagram taken last, and the decoders stay when there are lines.
PrintInv ==
  /\ Labelled(sent) /\ LastOf(inq, sent)
  /\ IsLeft(rd, Taken, sent)
  /\ lines \in Seq(Line) /\ Printed(lines, rd, Taken, sent)
  /\ ~ busy => rd = Idle
  /\ phase \notin {"loop", "done"} => lines = <<>>

\* A datagram sent and its packs
LEMMA SentType ==
  ASSUME NEW s \in Seq(Sent), NEW n \in 1 .. Len(s)
  PROVE  s[n] \in Sent /\ s[n].packs \in Seq(Part)
<1>1. s[n] \in Sent
  BY ElementOfSeq
<1> QED
  BY <1>1 DEF Sent

LEMMA PrintInit == Init => PrintInv /\ RightDecoder
<1> SUFFICES ASSUME Init PROVE PrintInv /\ RightDecoder
  OBVIOUS
<1>1. sent = <<>> /\ inq = <<>> /\ lines = <<>> /\ rd = Idle /\ Len(<<>>) = 0
  BY DEF Init, ReaderInit
<1>2. sent \in Seq(Sent) /\ inq \in Seq(Sent) /\ lines \in Seq(Line)
  BY <1>1, EmptySeq
<1>3. DOMAIN sent = {} /\ DOMAIN lines = {} /\ Taken = 0 /\ 1 .. 0 = {}
  BY <1>1 DEF Taken
<1>4. Labelled(sent) /\ LastOf(inq, sent)
  BY <1>1, <1>2, <1>3 DEF Labelled, LastOf
<1>5. Printed(lines, rd, Taken, sent)
  BY <1>3 DEF Printed
<1> QED
  BY <1>1, <1>2, <1>3, <1>4, <1>5 DEF PrintInv, RightDecoder, IsLeft

\* What follows from the invariant: the lines are those that PrintsWhatCame
\* asks for.
LEMMA PrintImplies == PrintInv => PrintsWhatCame
<1> SUFFICES ASSUME PrintInv PROVE PrintsWhatCame
  OBVIOUS
<1>0. /\ Taken \in Nat /\ Taken <= Len(sent) /\ sent \in Seq(Sent) /\ Len(sent) \in Nat
      /\ DOMAIN sent = 1 .. Len(sent)
  BY LenProperties DEF PrintInv, Labelled, LastOf, Taken
<1>1. \A n : Messages(n) = MessagesOf(sent, n)
  BY DEF Messages, MessagesOf
<1>2. ASSUME NEW n \in 1 .. Taken, NEW k \in Messages(n),
             ~ \E l \in DOMAIN lines : lines[l].dgram = n /\ lines[l].nr = k
      PROVE  busy /\ \A l \in DOMAIN lines : Before(lines[l], [dgram |-> n, nr |-> k])
  <2>1. ~ Passed(n, k, rd, Taken)
    BY <1>1, <1>2 DEF PrintInv, Printed
  <2>2. n = Taken /\ rd.held /\ k \in DOMAIN rd.packs
    BY <1>0, <2>1 DEF Passed
  <2>3. rd # Idle
    BY <2>2 DEF Idle
  <2>4. PICK c \in Nat : LeftAt(rd, sent[n], c)
    BY <2>2, <2>3 DEF PrintInv, IsLeft
  <2>5. sent[n].packs \in Seq(Part)
    <3>1. n \in 1 .. Len(sent)
      BY <1>0
    <3> QED
      BY <1>0, <3>1, SentType
  <2>6. Len(sent[n].packs) \in Nat /\ DOMAIN sent[n].packs = 1 .. Len(sent[n].packs)
    BY <2>5, LenProperties
  <2>7. DOMAIN rd.packs = (c + 1) .. Len(sent[n].packs)
    BY <2>4 DEF LeftAt
  <2>8. ASSUME NEW l \in DOMAIN lines
        PROVE  Before(lines[l], [dgram |-> n, nr |-> k])
    <3>1. /\ lines[l].dgram \in 1 .. Taken /\ lines[l].nr \in MessagesOf(sent, lines[l].dgram)
          /\ Passed(lines[l].dgram, lines[l].nr, rd, Taken)
      BY DEF PrintInv, Printed
    <3>2. CASE lines[l].dgram < n
      BY <3>2 DEF Before
    <3>3. CASE lines[l].dgram = n
      <4>1. lines[l].nr \in 1 .. Len(sent[n].packs) /\ lines[l].nr \notin DOMAIN rd.packs
        BY <1>0, <2>2, <2>6, <3>1, <3>3 DEF MessagesOf, Passed
      <4>2. lines[l].nr < k
        BY <2>2, <2>6, <2>7, <4>1
      <4> QED
        BY <3>3, <4>2 DEF Before
    <3> QED
      BY <1>0, <2>2, <3>1, <3>2, <3>3
  <2> QED
    BY <2>3, <2>8 DEF PrintInv
<1>3. /\ \A l, m \in DOMAIN lines : l < m => Before(lines[l], lines[m])
      /\ \A l \in DOMAIN lines :
           lines[l].dgram \in 1 .. Taken /\ lines[l].nr \in Messages(lines[l].dgram)
  BY <1>1 DEF PrintInv, Printed
<1> QED
  BY <1>2, <1>3 DEF PrintsWhatCame

-----------------------------------------------------------------------------
(* Arrival *)

\* A datagram more takes nothing from what is known of the others.
LEMMA MoreSent ==
  ASSUME NEW s \in Seq(Sent), NEW s2 \in Seq(Sent), Len(s) <= Len(s2),
         \A i \in 1 .. Len(s) : s2[i] = s[i],
         NEW n \in Nat, n <= Len(s), NEW r, IsLeft(r, n, s),
         NEW ls, Printed(ls, r, n, s)
  PROVE  IsLeft(r, n, s2) /\ Printed(ls, r, n, s2)
<1>0. Len(s) \in Nat /\ Len(s2) \in Nat
  BY LenProperties
<1>1. \A i \in 1 .. n : s2[i] = s[i] /\ MessagesOf(s2, i) = MessagesOf(s, i)
  BY <1>0 DEF MessagesOf
<1>2. IsLeft(r, n, s2)
  BY <1>0, <1>1 DEF IsLeft
<1>3. Printed(ls, r, n, s2)
  BY <1>1 DEF Printed
<1> QED
  BY <1>2, <1>3

\* What the kernel takes is labelled with its place among the datagrams sent
\* and waits behind the others.
LEMMA JoinsLast ==
  ASSUME Labelled(sent), NEW queue, LastOf(queue, sent), NEW good \in BOOLEAN,
         NEW svc \in Service, NEW body \in Seq({"data", "other"}),
         Joins(queue, good, svc, body)
  PROVE  /\ Labelled(sent') /\ LastOf(inq', sent')
         /\ Len(sent') - Len(inq') = Len(sent) - Len(queue)
         /\ Len(sent) <= Len(sent') /\ \A i \in 1 .. Len(sent) : sent'[i] = sent[i]
<1> DEFINE d == Datagram(good, svc, body)
<1>1. /\ sent \in Seq(Sent) /\ Len(sent) \in Nat /\ DOMAIN sent = 1 .. Len(sent)
      /\ queue \in Seq(Sent) /\ Len(queue) \in Nat /\ Len(queue) <= Len(sent)
  BY LenProperties DEF Labelled, LastOf
<1>2. CASE UNCHANGED sent /\ inq' = queue
  BY <1>1, <1>2
<1>3. CASE inq' = Append(queue, d) /\ sent' = Append(sent, d)
  <2>1. body \in [1 .. Len(body) -> {"data", "other"}] /\ Len(body) \in Nat
        /\ DOMAIN body = 1 .. Len(body)
    BY LenProperties
  <2>2. /\ d.packs \in Seq(Part) /\ DOMAIN d.packs = 1 .. Len(body)
        /\ \A k \in DOMAIN d.packs : d.packs[k].dgram = Len(sent) + 1 /\ d.packs[k].nr = k
    <3>1. d.packs = [k \in 1 .. Len(body) |->
                       [tag |-> body[k], dgram |-> Len(sent) + 1, nr |-> k]]
      BY <2>1 DEF Datagram
    <3>2. \A k \in 1 .. Len(body) :
            [tag |-> body[k], dgram |-> Len(sent) + 1, nr |-> k] \in Part
      BY <1>1, <2>1 DEF Part
    <3>3. d.packs \in [1 .. Len(body) -> Part]
      BY <3>1, <3>2
    <3>4. d.packs \in Seq(Part)
      BY <2>1, <3>3, SeqDef
    <3> QED
      BY <3>1, <3>4
  <2>3. d \in Sent
    BY <2>2 DEF Datagram, Sent
  <2> HIDE DEF d
  <2>4. /\ sent' \in Seq(Sent) /\ Len(sent') = Len(sent) + 1 /\ sent'[Len(sent) + 1] = d
        /\ \A i \in 1 .. Len(sent) : sent'[i] = sent[i]
    BY <1>1, <1>3, <2>3, AppendProperties
  <2>5. /\ inq' \in Seq(Sent) /\ Len(inq') = Len(queue) + 1 /\ inq'[Len(queue) + 1] = d
        /\ \A i \in 1 .. Len(queue) : inq'[i] = queue[i]
    BY <1>1, <1>3, <2>3, AppendProperties
  <2>6. DOMAIN sent' = 1 .. Len(sent) + 1
    BY <2>4, LenProperties
  <2>7. Labelled(sent')
    <3>1. ASSUME NEW n \in DOMAIN sent', NEW k \in DOMAIN sent'[n].packs
          PROVE  sent'[n].packs[k].dgram = n /\ sent'[n].packs[k].nr = k
      <4>1. CASE n = Len(sent) + 1
        BY <2>2, <2>4, <4>1
      <4>2. CASE n \in 1 .. Len(sent)
        BY <1>1, <2>4, <4>2 DEF Labelled
      <4> QED
        BY <1>1, <2>6, <4>1, <4>2
    <3> QED
      BY <2>4, <3>1 DEF Labelled
  <2>8. LastOf(inq', sent')
    <3>1. ASSUME NEW i \in 1 .. Len(inq')
          PROVE  inq'[i] = sent'[(Len(sent') - Len(inq')) + i]
      <4>1. (Len(sent') - Len(inq')) + i = (Len(sent) - Len(queue)) + i
        BY <1>1, <2>4, <2>5
      <4>2. CASE i = Len(queue) + 1
        <5>1. (Len(sent) - Len(queue)) + i = Len(sent) + 1
          BY <1>1, <4>2
        <5> QED
          BY <2>4, <2>5, <4>1, <4>2, <5>1
      <4>3. CASE i \in 1 .. Len(queue)
        <5>1. (Len(sent) - Len(queue)) + i \in 1 .. Len(sent)
          BY <1>1, <4>3
        <5>2. queue[i] = sent[(Len(sent) - Len(queue)) + i]
          BY <4>3 DEF LastOf
        <5> QED
          BY <2>4, <2>5, <4>1, <4>3, <5>1, <5>2
      <4> QED
        BY <1>1, <2>5, <4>2, <4>3
    <3> QED
      BY <1>1, <2>4, <2>5, <3>1 DEF LastOf
  <2> QED
    BY <1>1, <2>4, <2>5, <2>7, <2>8
<1> QED
  BY <1>2, <1>3 DEF Joins

-----------------------------------------------------------------------------
(* A call of ud_chck_msg() *)

\* Fetching the next datagram passes none of its messages.
LEMMA Fetching ==
  ASSUME PrintInv, Pending
  PROVE  /\ LastOf(Rest, sent) /\ IsLeft(Current, Len(sent) - Len(Rest), sent)
         /\ Printed(lines, Current, Len(sent) - Len(Rest), sent)
<1>1. CASE rd.held
  BY <1>1 DEF Current, Rest, PrintInv, Taken
<1>2. CASE ~ rd.held
  <2> DEFINE d == Head(inq)
             q == Tail(inq)
             n == Len(sent) - Len(q)
  <2>1. Rest = q /\ Current = Loaded(d)
    BY <1>2 DEF Current, Rest
  <2>2. inq \in Seq(Sent) /\ inq # <<>> /\ sent \in Seq(Sent) /\ Len(inq) <= Len(sent)
    BY <1>2 DEF Pending, PrintInv, Labelled, LastOf
  <2>3. /\ q \in Seq(Sent) /\ Len(q) = Len(inq) - 1 /\ Len(inq) \in Nat /\ d = inq[1]
        /\ Len(inq) >= 1 /\ \A i \in 1 .. Len(q) : q[i] = inq[i + 1]
        /\ Len(sent) \in Nat /\ DOMAIN sent = 1 .. Len(sent)
    BY <2>2, HeadTailProperties, LenProperties
  <2> HIDE DEF q, d
  <2>4. n = Taken + 1 /\ n \in 1 .. Len(sent) /\ Taken \in Nat /\ Len(q) <= Len(sent)
    BY <2>2, <2>3 DEF Taken
  <2>5. \A i \in 1 .. Len(inq) : inq[i] = sent[Taken + i]
    BY DEF PrintInv, LastOf, Taken
  <2>6. d = sent[n] /\ d \in Sent
    BY <2>2, <2>3, <2>4, <2>5
  <2>7. LastOf(q, sent)
    <3>1. ASSUME NEW i \in 1 .. Len(q) PROVE q[i] = sent[(Len(sent) - Len(q)) + i]
      <4>1. i + 1 \in 1 .. Len(inq) /\ Taken + (i + 1) = (Len(sent) - Len(q)) + i
        BY <2>3 DEF Taken
      <4> QED
        BY <2>3, <2>5, <4>1
    <3> QED
      BY <2>3, <2>4, <3>1 DEF LastOf
  <2>8. d.packs \in Seq(Part) /\ Len(d.packs) \in Nat /\ DOMAIN d.packs = 1 .. Len(d.packs)
    <3>1. d.packs \in Seq(Part)
      BY <2>6 DEF Sent
    <3> QED
      BY <3>1, LenProperties
  <2> DEFINE p == d.packs
  <2>9. \/ Loaded(d) = Idle /\ (~ d.good \/ DOMAIN p = {})
        \/ d.good /\ Loaded(d) = [held |-> TRUE, svc |-> d.svc, packs |-> p]
    BY DEF Loaded
  <2>10. IsLeft(Loaded(d), n, sent)
    <3>1. CASE d.good /\ Loaded(d) = [held |-> TRUE, svc |-> d.svc, packs |-> p]
      <4>1. p = [k \in (0 + 1) .. Len(p) |-> p[k]]
        BY <2>8
      <4>2. 0 \in 0 .. Len(p) /\ 1 .. 0 = {}
        BY <2>8
      <4> DEFINE f == [k \in (0 + 1) .. Len(p) |-> p[k]]
      <4>3. p = f
        BY <4>1
      <4> HIDE DEF f, p
      <4>4. Loaded(d) = [held |-> TRUE, svc |-> d.svc, packs |-> f]
        BY <3>1, <4>3
      <4>5. LeftAt(Loaded(d), d, 0)
        BY <3>1, <4>2, <4>4 DEF LeftAt, f, p
      <4> QED
        BY <2>4, <2>6, <4>5 DEF IsLeft
    <3> QED
      BY <2>9, <3>1 DEF IsLeft
  <2>11. \A k \in MessagesOf(sent, n) : ~ Passed(n, k, Loaded(d), n)
    BY <2>4, <2>6, <2>9 DEF MessagesOf, Passed
  <2>12. \A i \in 1 .. Taken : \A k : Passed(i, k, rd, Taken) /\ Passed(i, k, Loaded(d), n)
    BY <1>2, <2>4 DEF Passed
  <2>13. 1 .. n = 1 .. Taken \cup {n}
    BY <2>4
  <2> HIDE DEF n
  <2>14. Printed(lines, rd, Taken, sent)
    BY DEF PrintInv
  <2>15. Printed(lines, Loaded(d), n, sent)
    BY <2>11, <2>12, <2>13, <2>14 DEF Printed
  <2> QED
    BY <2>1, <2>7, <2>10, <2>15 DEF n
<1> QED
  BY <1>1, <1>2

\* Looking at a pack passes it: a message gets its line, behind all others, and
\* anything else takes with it what are no messages.
LEMMA Looking ==
  ASSUME NEW s, Labelled(s), NEW n, NEW r, IsLeft(r, n, s), DOMAIN r.packs # {},
         NEW ls \in Seq(Line), Printed(ls, r, n, s), NEW by
  PROVE  LET line == [dgram |-> Pack(r).dgram, nr |-> Pack(r).nr, by |-> by]
         IN  /\ n \in 1 .. Len(s) /\ r.svc = s[n].svc
             /\ Pack(r) \in Part /\ Pack(r).dgram = n
             /\ IsLeft(Seen(r), n, s)
             /\ Pack(r).tag # "data" => Printed(ls, Seen(r), n, s)
             /\ Pack(r).tag = "data" /\ line \in Line =>
                  Printed(Append(ls, line), Seen(r), n, s)
<1> DEFINE d == s[n]
           p == d.packs
           line == [dgram |-> Pack(r).dgram, nr |-> Pack(r).nr, by |-> by]
<1>0. r # Idle
  BY DEF Idle
<1>1. n \in 1 .. Len(s) /\ Len(s) \in Nat /\ DOMAIN s = 1 .. Len(s)
  BY <1>0, LenProperties DEF IsLeft, Labelled
<1>2. PICK c \in Nat : LeftAt(r, d, c)
  BY <1>0 DEF IsLeft
<1>3. p \in Seq(Part)
  BY <1>1, SentType DEF Labelled
<1> DEFINE L == Len(p)
<1>4. /\ L \in Nat /\ DOMAIN p = 1 .. L
      /\ \A k \in 1 .. L : p[k] \in Part /\ p[k].dgram = n /\ p[k].nr = k
  <2>1. L \in Nat /\ DOMAIN p = 1 .. L /\ \A k \in 1 .. L : p[k] \in Part
    BY <1>3, LenProperties, ElementOfSeq
  <2>2. \A k \in DOMAIN p : p[k].dgram = n /\ p[k].nr = k
    BY <1>1 DEF Labelled
  <2> QED
    BY <2>1, <2>2
<1>5. /\ d.good /\ r.held = TRUE /\ r.svc = d.svc /\ DOMAIN r.packs = (c + 1) .. L
      /\ r.packs = [k \in (c + 1) .. L |-> p[k]]
      /\ r = [held |-> TRUE, svc |-> d.svc, packs |-> [k \in (c + 1) .. L |-> p[k]]]
      /\ \A j \in 1 .. c : p[j].tag = "data"
  BY <1>2 DEF LeftAt
<1>6. MessagesOf(s, n) = {k \in 1 .. L : \A j \in 1 .. k : p[j].tag = "data"}
  BY <1>4, <1>5 DEF MessagesOf
<1> HIDE DEF p, d, L
<1>7. c + 1 \in 1 .. L /\ c < L
  BY <1>4, <1>5
<1>8. First(r.packs) = c + 1
  <2>1. c + 1 \in DOMAIN r.packs /\ \A k \in DOMAIN r.packs : c + 1 <= k
    BY <1>4, <1>5, <1>7
  <2>2. ASSUME NEW o \in DOMAIN r.packs, \A k \in DOMAIN r.packs : o <= k
        PROVE  o = c + 1
    <3>1. o \in (c + 1) .. L /\ o <= c + 1
      BY <1>5, <2>1, <2>2
    <3> QED
      BY <1>4, <3>1
  <2> DEFINE dom == DOMAIN r.packs
  <2>3. /\ c + 1 \in dom /\ \A k \in dom : c + 1 <= k
        /\ \A o \in dom : (\A k \in dom : o <= k) => o = c + 1
    BY <2>1, <2>2
  <2> HIDE DEF dom
  <2>4. (CHOOSE o \in dom : \A k \in dom : o <= k) = c + 1
    BY <2>3
  <2> QED
    BY <2>4 DEF First, dom
<1>9. Pack(r) = p[c + 1] /\ Pack(r) \in Part /\ Pack(r).dgram = n /\ Pack(r).nr = c + 1
  BY <1>4, <1>5, <1>7, <1>8 DEF Pack
<1>10. \A i, k : Passed(i, k, r, n) <=> (i < n \/ (i = n /\ k \notin (c + 1) .. L))
  BY <1>5 DEF Passed
<1>11. CASE Pack(r).tag = "data"
  <2>1. Behind(r.packs) = [k \in ((c + 1) + 1) .. L |-> p[k]]
    <3>1. (DOMAIN r.packs) \ {First(r.packs)} = ((c + 1) + 1) .. L
      BY <1>4, <1>5, <1>7, <1>8
    <3>2. \A k \in ((c + 1) + 1) .. L : r.packs[k] = p[k]
      BY <1>4, <1>5
    <3> QED
      BY <3>1, <3>2 DEF Behind
  <2> DEFINE b == Behind(r.packs)
  <2>2. Seen(r) = [held |-> TRUE, svc |-> d.svc, packs |-> b]
    BY <1>5, <1>11 DEF Seen
  <2>3. \A j \in 1 .. (c + 1) : p[j].tag = "data"
    BY <1>5, <1>9, <1>11
  <2>4. LeftAt(Seen(r), d, c + 1)
    <3>1. c + 1 \in 0 .. L
      BY <1>4, <1>7
    <3>2. Seen(r) = [held |-> TRUE, svc |-> d.svc, packs |-> [k \in ((c + 1) + 1) .. L |-> p[k]]]
      BY <2>1, <2>2
    <3> QED
      BY <1>5, <2>3, <3>1, <3>2 DEF LeftAt, p, L
  <2>5. IsLeft(Seen(r), n, s)
    BY <1>1, <2>4 DEF IsLeft, d
  <2>6. Seen(r).held = TRUE /\ DOMAIN Seen(r).packs = ((c + 1) + 1) .. L
    BY <2>1, <2>2
  <2>7. \A i, k : Passed(i, k, Seen(r), n)
                    <=> (i < n \/ (i = n /\ k \notin ((c + 1) + 1) .. L))
    BY <2>6 DEF Passed
  <2>8. \A i \in 1 .. n, k \in Nat :
          Passed(i, k, Seen(r), n) <=> (Passed(i, k, r, n) \/ (i = n /\ k = c + 1))
    BY <1>1, <1>4, <1>7, <1>10, <2>7
  <2>9. c + 1 \in MessagesOf(s, n)
    BY <1>6, <1>7, <2>3
  <2>10. ASSUME line \in Line
         PROVE  Printed(Append(ls, line), Seen(r), n, s)
    <3> DEFINE ls2 == Append(ls, line)
    <3>1. line.dgram = n /\ line.nr = c + 1
      BY <1>9
    <3> HIDE DEF line
    <3>2. /\ Len(ls) \in Nat /\ DOMAIN ls = 1 .. Len(ls) /\ DOMAIN ls2 = 1 .. (Len(ls) + 1)
          /\ ls2[Len(ls) + 1] = line /\ \A l \in 1 .. Len(ls) : ls2[l] = ls[l]
      <4>1. ls2 \in Seq(Line) /\ Len(ls2) = Len(ls) + 1
            /\ ls2[Len(ls) + 1] = line /\ \A l \in 1 .. Len(ls) : ls2[l] = ls[l]
        BY <2>10, AppendProperties
      <4> QED
        BY <4>1, LenProperties
    <3> HIDE DEF ls2
    <3>3. ASSUME NEW l \in DOMAIN ls
          PROVE  /\ ls[l].dgram \in 1 .. n /\ ls[l].nr \in MessagesOf(s, ls[l].dgram)
                 /\ Passed(ls[l].dgram, ls[l].nr, r, n)
      BY DEF Printed
    <3>4. \A i \in 1 .. n : MessagesOf(s, i) \subseteq Nat
      <4>1. ASSUME NEW i \in 1 .. n PROVE MessagesOf(s, i) \subseteq Nat
        <5>1. s[i].packs \in Seq(Part)
          <6>1. i \in 1 .. Len(s)
            BY <1>1
          <6> QED
            BY <6>1, SentType DEF Labelled
        <5>2. DOMAIN s[i].packs \subseteq Nat
          BY <5>1, LenProperties
        <5> QED
          BY <5>2 DEF MessagesOf
      <4> QED
        BY <4>1
    <3>5. ASSUME NEW l \in DOMAIN ls PROVE Before(ls[l], line)
      <4>1. CASE ls[l].dgram < n
        BY <3>1, <4>1 DEF Before
      <4>2. CASE ls[l].dgram = n
        <5>1. ls[l].nr \in 1 .. L /\ ls[l].nr \notin (c + 1) .. L
          BY <1>1, <1>6, <1>10, <3>3, <4>2
        <5>2. ls[l].nr < c + 1
          BY <1>4, <5>1
        <5> QED
          BY <3>1, <4>2, <5>2 DEF Before
      <4> QED
        BY <1>1, <3>3, <4>1, <4>2
    <3>6. \A l, m \in DOMAIN ls2 : l < m => Before(ls2[l], ls2[m])
      <4>1. ASSUME NEW l \in DOMAIN ls2, NEW m \in DOMAIN ls2, l < m
            PROVE  Before(ls2[l], ls2[m])
        <5>1. l \in DOMAIN ls /\ (m \in DOMAIN ls \/ m = Len(ls) + 1)
          BY <3>2, <4>1
        <5>2. CASE m \in DOMAIN ls
          BY <3>2, <4>1, <5>1, <5>2 DEF Printed
        <5>3. CASE m = Len(ls) + 1
          BY <3>2, <3>5, <5>1, <5>3
        <5> QED
          BY <5>1, <5>2, <5>3
      <4> QED
        BY <4>1
    <3>7. ASSUME NEW l \in DOMAIN ls2
          PROVE  /\ ls2[l].dgram \in 1 .. n /\ ls2[l].nr \in MessagesOf(s, ls2[l].dgram)
                 /\ Passed(ls2[l].dgram, ls2[l].nr, Seen(r), n)
      <4>1. CASE l \in DOMAIN ls
        BY <2>8, <3>2, <3>3, <3>4, <4>1
      <4>2. CASE l = Len(ls) + 1
        <5>1. n \in 1 .. n /\ Passed(n, c + 1, Seen(r), n)
          BY <1>1, <2>8
        <5> QED
          BY <2>9, <3>1, <3>2, <4>2, <5>1
      <4> QED
        BY <3>2, <4>1, <4>2
    <3>8. ASSUME NEW i \in 1 .. n, NEW k \in MessagesOf(s, i), Passed(i, k, Seen(r), n)
          PROVE  \E l \in DOMAIN ls2 : ls2[l].dgram = i /\ ls2[l].nr = k
      <4>1. Passed(i, k, r, n) \/ (i = n /\ k = c + 1)
        BY <2>8, <3>4, <3>8
      <4>2. CASE i = n /\ k = c + 1
        BY <3>1, <3>2, <4>2
      <4>3. CASE Passed(i, k, r, n)
        <5>1. PICK l \in DOMAIN ls : ls[l].dgram = i /\ ls[l].nr = k
          BY <4>3 DEF Printed
        <5> QED
          BY <3>2, <5>1
      <4> QED
        BY <4>1, <4>2, <4>3
    <3>9. Printed(ls2, Seen(r), n, s)
      BY <3>6, <3>7, <3>8 DEF Printed
    <3> QED
      BY <3>9 DEF ls2
  <2> QED
    BY <1>1, <1>5, <1>9, <1>11, <2>5, <2>10 DEF d
<1>12. CASE Pack(r).tag # "data"
  <2>1. Seen(r) = Idle
    BY <1>12 DEF Seen
  <2>2. \A k \in MessagesOf(s, n) : k \in 1 .. L /\ k \notin (c + 1) .. L
    BY <1>4, <1>6, <1>7, <1>9, <1>12
  <2>3. \A i \in 1 .. n : \A k \in MessagesOf(s, i) :
          Passed(i, k, r, n) /\ Passed(i, k, Idle, n)
    <3>1. \A i \in 1 .. n : i < n \/ i = n
      BY <1>1
    <3>2. Idle.held = FALSE
      BY DEF Idle
    <3> QED
      BY <1>10, <2>2, <3>1, <3>2 DEF Passed
  <2>4. Printed(ls, Idle, n, s)
    BY <2>3 DEF Printed
  <2> QED
    BY <1>1, <1>5, <1>9, <1>12, <2>1, <2>4 DEF IsLeft, d
<1> QED
  BY <1>11, <1>12

\* A packet with nothing left is forgotten, and no message with it.
LEMMA Forgetting ==
  ASSUME NEW r, DOMAIN r.packs = {}, NEW n, NEW s, NEW ls, Printed(ls, r, n, s)
  PROVE  Printed(ls, Idle, n, s)
<1>1. \A i, k : Passed(i, k, Idle, n) <=> Passed(i, k, r, n)
  BY DEF Passed, Idle
<1> QED
  BY <1>1 DEF Printed

-----------------------------------------------------------------------------
(* The steps *)

\* One call of ud_chck_msg() and the line for what it gives.
LEMMA RoundPrints ==
  ASSUME PrintInv, RightDecoder, Round
  PROVE  PrintInv' /\ RightDecoder'
<1> DEFINE m == [dgram |-> tgt'[2].dgram, nr |-> tgt'[2].nr, by |-> By(AuxSvc)]
           n == Len(sent) - Len(Rest)
<1>0. phase = "loop" /\ UNCHANGED <<decmap, phase>> /\ lines \in Seq(Line)
  BY DEF Round, PrintInv
<1>a. \A svc : By(svc)' = By(svc)
  BY <1>0 DEF By, Mondec
<1>b. Line' = Line
  BY <1>a DEF Line
<1>c. sent \in Seq(Sent) /\ Len(sent) \in Nat /\ DOMAIN sent = 1 .. Len(sent) /\ Labelled(sent)
  BY LenProperties DEF PrintInv, Labelled
<1>1. CASE Chck
  <2>1. Pending
    BY <1>1 DEF Chck, ChckMsg
  <2>2. /\ LastOf(Rest, sent) /\ IsLeft(Current, n, sent) /\ Printed(lines, Current, n, sent)
    BY <2>1, Fetching
  <2>3. n \in Nat /\ n <= Len(sent)
    BY <1>c, <2>2, LenProperties DEF LastOf
  <2> HIDE DEF n
  <2>4. /\ IsLeft(rd', n, sent) /\ lines' \in Seq(Line) /\ Printed(lines', rd', n, sent)
        /\ ~ busy' => rd' = Idle
        /\ \A l \in DOMAIN lines' : lines'[l].by = By(sent[lines'[l].dgram].svc)
    <3>1. CASE ~ Looks
      <4>1. rd' = Idle /\ lines' = lines
        BY <1>1, <3>1 DEF Chck, ChckMsg, Round, Gives
      <4>2. DOMAIN Current.packs = {}
        BY <2>1, <3>1 DEF Looks
      <4>3. Printed(lines, Idle, n, sent)
        BY <2>2, <4>2, Forgetting
      <4> QED
        BY <1>0, <4>1, <4>3 DEF IsLeft, RightDecoder
    <3>2. CASE Looks
      <4>1. DOMAIN Current.packs # {} /\ rd' = Seen(Current)
        BY <1>1, <3>2 DEF Looks, Chck, ChckMsg
      <4>2. /\ n \in 1 .. Len(sent) /\ Current.svc = sent[n].svc
            /\ Pack(Current) \in Part /\ Pack(Current).dgram = n
            /\ IsLeft(Seen(Current), n, sent)
            /\ Pack(Current).tag # "data" => Printed(lines, Seen(Current), n, sent)
            /\ Pack(Current).tag = "data" =>
                 \A by : LET line == [dgram |-> Pack(Current).dgram,
                                      nr |-> Pack(Current).nr, by |-> by]
                         IN  line \in Line =>
                               Printed(Append(lines, line), Seen(Current), n, sent)
        <5> DEFINE cur == Current
        <5>1. IsLeft(cur, n, sent) /\ Printed(lines, cur, n, sent) /\ DOMAIN cur.packs # {}
          BY <2>2, <4>1
        <5> HIDE DEF cur
        <5>2. ASSUME NEW by
              PROVE  /\ n \in 1 .. Len(sent) /\ cur.svc = sent[n].svc
                     /\ Pack(cur) \in Part /\ Pack(cur).dgram = n
                     /\ IsLeft(Seen(cur), n, sent)
                     /\ Pack(cur).tag # "data" => Printed(lines, Seen(cur), n, sent)
                     /\ LET line == [dgram |-> Pack(cur).dgram, nr |-> Pack(cur).nr, by |-> by]
                        IN  Pack(cur).tag = "data" /\ line \in Line =>
                              Printed(Append(lines, line), Seen(cur), n, sent)
          BY <1>0, <1>c, <5>1, Looking
        <5> QED
          BY <5>2 DEF cur
      <4>3. CASE ~ Gives
        <5>1. Pack(Current).tag # "data" /\ lines' = lines /\ rd' = Idle
          BY <3>2, <4>1, <4>3 DEF Gives, Round, Seen
        <5> QED
          BY <1>0, <4>1, <4>2, <5>1 DEF RightDecoder
      <4>4. CASE Gives
        <5>1. /\ Pack(Current).tag = "data" /\ lines' = Append(lines, m) /\ busy' = TRUE
              /\ tgt' = <<Current.svc, Pack(Current)>>
          BY <1>1, <4>4 DEF Gives, Round, Chck, ChckMsg, GoesOn
        <5> DEFINE k == Pack(Current)
        <5>2. m = [dgram |-> k.dgram, nr |-> k.nr, by |-> By(Current.svc)]
          BY <5>1 DEF AuxSvc
        <5>3. Current.svc \in Service
          <6>1. sent[n] \in Sent
            BY <1>c, <4>2
          <6> QED
            BY <4>2, <6>1 DEF Sent
        <5> HIDE DEF k, m
        <5>4. m \in Line
          <6>1. k.dgram \in Nat /\ k.nr \in Nat
            BY <4>2 DEF k, Part
          <6> QED
            BY <5>2, <5>3, <6>1 DEF Line
        <5>5. Printed(Append(lines, m), Seen(Current), n, sent)
          BY <4>2, <5>1, <5>2, <5>4 DEF k
        <5>6. m.dgram = n /\ m.by = By(sent[n].svc)
          BY <4>2, <5>2 DEF k
        <5>7. /\ lines' \in Seq(Line) /\ Len(lines') = Len(lines) + 1 /\ Len(lines) \in Nat
              /\ lines'[Len(lines) + 1] = m
              /\ \A l \in 1 .. Len(lines) : lines'[l] = lines[l]
          BY <1>0, <5>1, <5>4, AppendProperties, LenProperties
        <5>8. DOMAIN lines = 1 .. Len(lines) /\ DOMAIN lines' = 1 .. (Len(lines) + 1)
          BY <1>0, <5>7, LenProperties
        <5>9. ASSUME NEW l \in DOMAIN lines'
              PROVE  lines'[l].by = By(sent[lines'[l].dgram].svc)
          <6>1. l \in DOMAIN lines \/ l = Len(lines) + 1
            BY <5>7, <5>8
          <6> QED
            BY <5>6, <5>7, <5>8, <6>1 DEF RightDecoder
        <5> QED
          BY <4>1, <4>2, <5>1, <5>5, <5>7, <5>9
      <4> QED
        BY <4>3, <4>4
    <3> QED
      BY <3>1, <3>2
  <2>5. /\ Labelled(sent') /\ LastOf(inq', sent')
        /\ Len(sent') - Len(inq') = n
        /\ Len(sent) <= Len(sent') /\ \A i \in 1 .. Len(sent) : sent'[i] = sent[i]
    <3>1. CASE inq' = Rest /\ UNCHANGED sent
      BY <1>c, <2>2, <3>1 DEF n
    <3>2. CASE Joins(Rest, TRUE, Ping + 1, <<"data">>)
      <4>1. Ping + 1 \in Service /\ <<"data">> \in Seq({"data", "other"})
        BY MonReaderAssumption DEF Service
      <4> DEFINE q == Rest
      <4>2. LastOf(q, sent) /\ Joins(q, TRUE, Ping + 1, <<"data">>)
        BY <2>2, <3>2
      <4> HIDE DEF q
      <4>3. /\ Labelled(sent') /\ LastOf(inq', sent')
            /\ Len(sent') - Len(inq') = Len(sent) - Len(q)
            /\ Len(sent) <= Len(sent') /\ \A i \in 1 .. Len(sent) : sent'[i] = sent[i]
        BY <1>c, <4>1, <4>2, JoinsLast
      <4> QED
        BY <4>3 DEF n, q
    <3> QED
      BY <1>1, <3>1, <3>2 DEF Chck
  <2>6. IsLeft(rd', n, sent') /\ Printed(lines', rd', n, sent')
    BY <1>c, <2>3, <2>4, <2>5, MoreSent DEF Labelled
  <2>7. Taken' = n
    BY <2>5 DEF Taken
  <2>8. PrintInv'
    BY <1>0, <1>b, <2>4, <2>5, <2>6, <2>7 DEF PrintInv
  <2>9. \A l \in DOMAIN lines' : lines'[l].by = By(sent'[lines'[l].dgram].svc)
    <3>1. \A l \in DOMAIN lines' : lines'[l].dgram \in 1 .. n
      BY <2>6 DEF Printed
    <3>2. \A i \in 1 .. n : sent'[i] = sent[i]
      BY <1>c, <2>3, <2>5
    <3> QED
      BY <2>4, <3>1, <3>2
  <2>10. RightDecoder'
    BY <1>a, <2>9 DEF RightDecoder
  <2> QED
    BY <2>8, <2>10
<1>2. CASE ~ Pending /\ UNCHANGED <<inq, rd, tgt, sent>>
  <2>1. lines' = lines /\ rd = Idle
    BY <1>2 DEF Round, Gives, Looks, Pending, PrintInv, IsLeft, LeftAt
  <2>2. Taken' = Taken
    BY <1>2 DEF Taken
  <2>3. PrintInv'
    BY <1>0, <1>b, <1>2, <2>1, <2>2 DEF PrintInv
  <2>4. RightDecoder'
    BY <1>a, <1>2, <2>1 DEF RightDecoder
  <2> QED
    BY <2>3, <2>4
<1> QED
  BY <1>1, <1>2 DEF Round

LEMMA PrintNext == PrintInv /\ RightDecoder /\ [Next]_vars => PrintInv' /\ RightDecoder'
<1> SUFFICES ASSUME PrintInv, RightDecoder, [Next]_vars PROVE PrintInv' /\ RightDecoder'
  OBVIOUS
<1>1. CASE Round
  BY <1>1, RoundPrints
\* a step before there are lines leaves the packets as they are
<1>2. CASE RegPing \/ RegPong \/ OpenFails \/ LoadModule \/ EvLoop
  <2>1. /\ UNCHANGED <<inq, rd, sent, lines, busy>> /\ lines = <<>>
        /\ phase' \in {"pong", "argv", "loop"}
    BY <1>2 DEF RegPing, RegPong, OpenFails, LoadModule, EvLoop, Load, PrintInv
  <2>2. lines' \in Seq(Line')
    BY <2>1, EmptySeq
  <2>3. Taken' = Taken
    BY <2>1 DEF Taken
  <2>4. PrintInv'
    BY <2>1, <2>2, <2>3 DEF PrintInv
  <2>5. RightDecoder'
    BY <2>1 DEF RightDecoder
  <2> QED
    BY <2>4, <2>5
<1>3. CASE Arrive
  <2>1. /\ UNCHANGED <<decmap, rd, phase, lines, busy>>
        /\ \E good \in BOOLEAN, svc \in Service, body \in Seq({"data", "other"}) :
             Joins(inq, good, svc, body)
    <3>1. <<"data">> \in Seq({"data", "other"}) /\ Ping \in Service /\ Arriving \subseteq Service
      BY MonReaderAssumption DEF Service
    <3> QED
      BY <1>3, <3>1, MonReaderAssumption DEF Arrive
  <2>2. /\ Labelled(sent) /\ LastOf(inq, sent) /\ sent \in Seq(Sent) /\ Len(sent) \in Nat
        /\ Taken \in Nat /\ Taken <= Len(sent)
    BY LenProperties DEF PrintInv, Labelled, LastOf, Taken
  <2>3. /\ Labelled(sent') /\ LastOf(inq', sent')
        /\ Len(sent') - Len(inq') = Len(sent) - Len(inq)
        /\ Len(sent) <= Len(sent') /\ \A i \in 1 .. Len(sent) : sent'[i] = sent[i]
    BY <2>1, <2>2, JoinsLast
  <2>4. (\A svc : By(svc)' = By(svc)) /\ Line' = Line
    BY <2>1 DEF By, Mondec, Line
  <2>5. Taken' = Taken
    BY <2>3 DEF Taken
  <2>6. IsLeft(rd, Taken, sent') /\ Printed(lines, rd, Taken, sent')
    BY <2>2, <2>3, MoreSent DEF PrintInv, Labelled
  <2>7. PrintInv'
    BY <2>1, <2>3, <2>4, <2>5, <2>6 DEF PrintInv
  <2>8. RightDecoder'
    <3>1. \A l \in DOMAIN lines : lines[l].dgram \in 1 .. Taken
      BY DEF PrintInv, Printed
    <3>2. \A i \in 1 .. Taken : sent'[i] = sent[i]
      BY <2>2, <2>3
    <3> QED
      BY <2>1, <2>4, <3>1, <3>2 DEF RightDecoder
  <2> QED
    BY <2>7, <2>8
<1>4. CASE BeefCb
  <2>1. UNCHANGED <<decmap, inq, rd, sent, lines, phase>> /\ busy' = TRUE
    BY <1>4 DEF BeefCb
  <2>2. (\A svc : By(svc)' = By(svc)) /\ Line' = Line /\ Taken' = Taken
    BY <2>1 DEF By, Mondec, Line, Taken
  <2>3. PrintInv'
    BY <2>1, <2>2 DEF PrintInv
  <2>4. RightDecoder'
    BY <2>1, <2>2 DEF RightDecoder
  <2> QED
    BY <2>3, <2>4
<1>5. CASE Signal \/ UNCHANGED vars
  <2>1. /\ UNCHANGED <<decmap, inq, rd, sent, lines, busy>>
        /\ phase' = phase \/ phase' = "done"
    BY <1>5 DEF Signal, vars
  <2>2. (\A svc : By(svc)' = By(svc)) /\ Line' = Line /\ Taken' = Taken
    BY <2>1 DEF By, Mondec, Line, Taken
  <2>3. PrintInv'
    BY <2>1, <2>2 DEF PrintInv
  <2>4. RightDecoder'
    BY <2>1, <2>2 DEF RightDecoder
  <2> QED
    BY <2>3, <2>4
<1> QED
  BY <1>1, <1>2, <1>3, <1>4, <1>5 DEF Next

\* Every line is written by the decoder of the service its message was sent
\* under, for any modules, datagrams and queue, whatever was read before.
THEOREM RightDecoderCorrect == Spec => []RightDecoder
BY PrintInit, PrintNext, PTL DEF Spec

\* The lines are the messages that arrived, in order, none twice and none left
\* out, whenever the callback has returned; for any modules, payloads and
\* queue, and whatever arrives while the callback reads.
THEOREM PrintsWhatCameCorrect == Spec => []PrintsWhatCame
<1>1. Spec => []PrintInv
  BY PrintInit, PrintNext, PTL DEF Spec
<1> QED
  BY <1>1, PrintImplies, PTL
=============================================================================
