--------------------------- MODULE PubSub_proofs ---------------------------
(***************************************************************************)
(* Proofs that the core implements PubSub and PackReader, and that packet  *)
(* numbers show losses.  The order of messages is a matter of networks     *)
(* that neither double nor overtake datagrams: a publisher numbers its     *)
(* packets, and what links the messages handed out to those it packed is   *)
(* the count c[n] of the messages that left it before packet n.            *)
(***************************************************************************)
EXTENDS Unserding_proofs, UnserdingReads, WellFoundedInduction

USE WireAssumption, CoreAssumption

-----------------------------------------------------------------------------
(* Payloads.  The first n bytes of b are the messages from lo + 1 to hi,   *)
(* one behind the other, or one control message and no user's.             *)

Numbered(b, n, lo, hi) ==
  /\ IF n = 0 THEN lo = hi ELSE b[0].seq = lo + 1
  /\ \A o \in Offs : o < n /\ b[o].tag = "data" =>
       LET e == o + PackSize(b[o].len)
       IN  /\ lo < b[o].seq /\ b[o].seq <= hi
           /\ IF e < n THEN b[e].seq = b[o].seq + 1 ELSE b[o].seq = hi

Silent(b, n) == \A o \in Offs : o < n /\ b[o].tag = "data" => b[o].seq = 0

Payload(b, n, lo, hi) == Numbered(b, n, lo, hi) \/ (Silent(b, n) /\ lo = hi)

\* What is behind the payload does not matter.
LEMMA PayloadPrefix ==
  ASSUME NEW b \in Buffer, NEW d \in Buffer, NEW n \in 0 .. Cap,
         \A o \in Offs : o < n => d[o] = b[o],
         NEW lo \in Nat, NEW hi \in Nat, Payload(b, n, lo, hi)
  PROVE  Payload(d, n, lo, hi)
<1>1. CASE Silent(b, n) /\ lo = hi
  BY <1>1 DEF Payload, Silent
<1>2. CASE Numbered(b, n, lo, hi)
  <2>1. IF n = 0 THEN lo = hi ELSE d[0].seq = lo + 1
    BY <1>2 DEF Numbered, Offs
  <2>2. ASSUME NEW o \in Offs, o < n, d[o].tag = "data"
        PROVE  LET e == o + PackSize(d[o].len)
               IN  /\ lo < d[o].seq /\ d[o].seq <= hi
                   /\ IF e < n THEN d[e].seq = d[o].seq + 1 ELSE d[o].seq = hi
    <3>1. d[o] = b[o] /\ b[o] \in Cell
      BY <2>2 DEF Buffer
    <3> DEFINE e == o + PackSize(b[o].len)
    <3>2. e \in Nat
      BY <3>1 DEF PackSize, Cell, Byte, Offs
    <3>3. /\ lo < b[o].seq /\ b[o].seq <= hi
          /\ IF e < n THEN b[e].seq = b[o].seq + 1 ELSE b[o].seq = hi
      BY <1>2, <2>2, <3>1 DEF Numbered
    <3>4. e < n => e \in Offs
      BY <3>2 DEF Offs
    <3> HIDE DEF e
    <3>5. e < n => d[e] = b[e]
      BY <3>4
    <3> QED
      BY <3>1, <3>3, <3>5 DEF e
  <2> QED
    BY <2>1, <2>2 DEF Payload, Numbered
<1> QED
  BY <1>1, <1>2 DEF Payload

\* One more message behind the others.
LEMMA NumberedPack ==
  ASSUME NEW b \in Buffer, NEW n \in Nat, NEW c \in Cell, c.tag = "data",
         n + PackSize(c.len) <= Cap, Framed(b, n),
         NEW lo \in Nat, NEW hi \in Nat, lo <= hi, c.seq = hi + 1,
         Numbered(b, n, lo, hi)
  PROVE  Numbered(PutPack(b, n, c), n + PackSize(c.len), lo, hi + 1)
<1> DEFINE d == PutPack(b, n, c)
           m == n + PackSize(c.len)
<1>1. m \in Nat /\ n < m /\ n \in Offs
  BY DEF PackSize, Cell, Byte, Offs
<1>2. \A o \in Offs : d[o] = IF o = n THEN c ELSE IF o > n /\ o < m THEN Blank ELSE b[o]
  BY DEF PutPack
<1> HIDE DEF d
<1>3. d[0].seq = lo + 1
  <2>1. 0 \in Offs
    BY <1>1 DEF Offs
  <2> QED
    BY <1>2, <2>1 DEF Numbered
<1>4. ASSUME NEW o \in Offs, o < m, d[o].tag = "data"
      PROVE  LET e == o + PackSize(d[o].len)
             IN  /\ lo < d[o].seq /\ d[o].seq <= hi + 1
                 /\ IF e < m THEN d[e].seq = d[o].seq + 1 ELSE d[o].seq = hi + 1
  <2>1. CASE o > n
    BY <1>2, <1>4, <2>1 DEF Blank
  <2>2. CASE o = n
    <3>1. d[o] = c /\ o + PackSize(d[o].len) = m
      BY <1>2, <2>2
    <3> HIDE DEF m
    <3> QED
      BY <1>1, <3>1
  <2>3. CASE o < n
    <3>1. d[o] = b[o] /\ b[o] \in Cell
      BY <1>1, <1>2, <2>3 DEF Offs, Buffer
    <3> DEFINE e == o + PackSize(b[o].len)
    <3>2. e \in Nat
      BY <3>1 DEF PackSize, Cell, Byte, Offs
    <3>3. e = n \/ e < n
      BY <1>4, <2>3, <3>1 DEF Framed, Chained
    <3>4. /\ lo < b[o].seq /\ b[o].seq <= hi
          /\ IF e < n THEN b[e].seq = b[o].seq + 1 ELSE b[o].seq = hi
      BY <1>4, <2>3, <3>1 DEF Numbered
    <3>5. e < n => e \in Offs
      BY <1>1, <3>2 DEF Offs
    <3>6. b[o].seq \in Nat
      BY <3>1 DEF Cell
    <3> HIDE DEF e, m
    <3>7. e < m /\ d[e].seq = b[o].seq + 1
      <4>1. CASE e < n
        BY <1>1, <1>2, <3>2, <3>4, <3>5, <4>1
      <4>2. CASE e = n
        BY <1>1, <1>2, <3>4, <4>2
      <4> QED
        BY <3>3, <4>1, <4>2
    <3> QED
      BY <3>1, <3>4, <3>6, <3>7 DEF e
  <2> QED
    BY <1>1, <2>1, <2>2, <2>3 DEF Offs
<1> QED
  BY <1>1, <1>3, <1>4 DEF Numbered, d

-----------------------------------------------------------------------------
(* The way of the messages of a socket p to another: a queue q, the packet *)
(* r being read and the messages del handed out, while p is at its packet  *)
(* number lim.                                                             *)

Of(del, p) == {k \in 1 .. Len(del) : del[k].src = p}

Gave(del, p) == {del[k].seq : k \in Of(del, p)}

\* A packet numbered nr that p has sent
Placed(c, lim, nr, pno, b, n) ==
  /\ nr < lim /\ pno = nr % PnoMod
  /\ Payload(b, n, c[nr], c[nr + 1])

Held(r, p, nr) == r.nrd > 0 /\ r.src = p /\ r.nr = nr

\* Packets come after all that was read.
Coming(del, r, p, c, lim) ==
  {d \in Datagram : d.src = p =>
     /\ Placed(c, lim, d.nr, d.pno, d.buf, d.len)
     /\ \A k \in Of(del, p) : del[k].nr < d.nr
     /\ r.nrd > 0 /\ r.src = p => r.nr < d.nr}

Rising(q, p) ==
  \A i, j \in 1 .. Len(q) : i < j /\ q[i].src = p /\ q[j].src = p => q[i].nr < q[j].nr

\* Of the packet being read what is before nck was handed out, and no more.
AtRead(del, r, p, c, lim) ==
  r.nrd > 0 /\ r.src = p =>
    /\ Placed(c, lim, r.nr, r.pno, r.buf, r.nrd)
    /\ \A k \in Of(del, p) :
         /\ del[k].nr <= r.nr
         /\ del[k].nr = r.nr /\ del[k].seq > 0 /\ r.nck < r.nrd =>
              del[k].seq < r.buf[r.nck].seq
    /\ \A i \in Nat :
         /\ c[r.nr] < i
         /\ IF r.nck < r.nrd THEN i < r.buf[r.nck].seq ELSE i <= c[r.nr + 1]
         => i \in Gave(del, p)

\* What was handed out is in order, and of each packet it is the first
\* messages.
Records(del, p, c, lim) ==
  /\ \A k \in Of(del, p) : LET m == del[k] IN
       /\ m.nr < lim /\ m.pno = m.nr % PnoMod
       /\ IF m.seq = 0 THEN c[m.nr + 1] = c[m.nr]
          ELSE c[m.nr] < m.seq /\ m.seq <= c[m.nr + 1]
       /\ \A i \in Nat : c[m.nr] < i /\ i < m.seq => i \in Gave(del, p)
  /\ \A k, l \in Of(del, p) : k < l =>
       /\ del[k].nr <= del[l].nr
       /\ del[k].seq > 0 /\ del[l].seq > 0 => del[k].seq < del[l].seq

\* A packet that was begun was read to its end, unless it still is.
Whole(del, r, p, c) ==
  \A k \in Of(del, p) :
    \/ Held(r, p, del[k].nr)
    \/ \A i \in Nat : c[del[k].nr] < i /\ i <= c[del[k].nr + 1] => i \in Gave(del, p)

Line(q, del, r, p, c, lim) ==
  /\ q \in Seq(Coming(del, r, p, c, lim))
  /\ Rising(q, p)
  /\ AtRead(del, r, p, c, lim)
  /\ Records(del, p, c, lim)
  /\ "dscrd" \in Calls \/ Whole(del, r, p, c)

\* Counts of the messages that left before each packet
Counts == {c \in [Nat -> Nat] : \A m, n \in Nat : m <= n => c[m] <= c[n]}

\* A sequence is one of what its elements are.
LEMMA SeqOf ==
  ASSUME NEW S, NEW T, NEW s \in Seq(S), \A i \in 1 .. Len(s) : s[i] \in T
  PROVE  s \in Seq(T)
<1>1. s \in [1 .. Len(s) -> S] /\ Len(s) \in Nat
  BY LenProperties
<1>2. s \in [1 .. Len(s) -> T]
  BY <1>1
<1> QED
  BY <1>1, <1>2

\* What was handed out is typed.
LEMMA DelType ==
  ASSUME NEW del \in Seq(Handed), NEW p
  PROVE  /\ Len(del) \in Nat
         /\ \A k \in Of(del, p) :
              k \in Nat /\ del[k] \in Handed /\ del[k].nr \in Nat /\ del[k].seq \in Nat
<1>1. Len(del) \in Nat /\ \A k \in 1 .. Len(del) : del[k] \in Handed
  BY LenProperties, ElementOfSeq
<1> QED
  BY <1>1, SMTT(30) DEF Of, Handed

\* Counts are numbers.
LEMMA CountType ==
  ASSUME NEW c \in Counts, NEW n \in Nat
  PROVE  c[n] \in Nat /\ c[n + 1] \in Nat /\ c[n] <= c[n + 1]
<1>1. c \in [Nat -> Nat] /\ n + 1 \in Nat /\ n <= n + 1
  BY DEF Counts
<1>2. \A i, j \in Nat : i <= j => c[i] <= c[j]
  BY DEF Counts
<1> QED
  BY <1>1, <1>2

\* The sender goes on: the counts up to its next packet stay.
LEMMA LineGrows ==
  ASSUME NEW del \in Seq(Handed), NEW r \in RecvState, NEW p \in Sock,
         NEW c \in Counts, NEW e \in Counts, NEW lim \in Nat, NEW max \in Nat,
         lim <= max, \A n \in Nat : n <= lim => e[n] = c[n],
         NEW q, Line(q, del, r, p, c, lim)
  PROVE  Line(q, del, r, p, e, max)
<1>0. \A k \in Of(del, p) :
        k \in Nat /\ del[k] \in Handed /\ del[k].nr \in Nat /\ del[k].seq \in Nat
  BY DelType
<1>1. \A n \in Nat : n < lim => e[n] = c[n] /\ e[n + 1] = c[n + 1] /\ n < max
  OBVIOUS
<1>2. \A n \in Nat : \A pno, b, m : Placed(c, lim, n, pno, b, m)
                                 => Placed(e, max, n, pno, b, m)
  BY <1>1 DEF Placed
<1>3. q \in Seq(Coming(del, r, p, e, max))
  <2>1. Coming(del, r, p, c, lim) \subseteq Coming(del, r, p, e, max)
    BY <1>2 DEF Coming, Datagram
  <2> QED
    BY <2>1, SeqMonotonic DEF Line
<1>4. AtRead(del, r, p, e, max)
  <2> SUFFICES ASSUME r.nrd > 0, r.src = p PROVE AtRead(del, r, p, e, max)
    BY DEF AtRead
  <2>1. AtRead(del, r, p, c, lim) /\ r.nr \in Nat
    BY DEF Line, RecvState
  <2>2. r.nr < lim
    BY <2>1 DEF AtRead, Placed
  <2>3. e[r.nr] = c[r.nr] /\ e[r.nr + 1] = c[r.nr + 1]
    BY <1>1, <2>1, <2>2
  <2> QED
    BY <1>2, <2>1, <2>3 DEF AtRead
<1>5. Records(del, p, e, max) /\ (Whole(del, r, p, c) => Whole(del, r, p, e))
  <2>1. Records(del, p, c, lim)
    BY DEF Line
  <2>2. \A k \in Of(del, p) :
          /\ del[k].nr < max /\ e[del[k].nr] = c[del[k].nr]
          /\ e[del[k].nr + 1] = c[del[k].nr + 1]
    BY <1>0, <1>1, <2>1 DEF Records
  <2> QED
    BY <2>1, <2>2 DEF Records, Whole
<1> QED
  BY <1>3, <1>4, <1>5 DEF Line

\* A packet that the subscriber is done with is forgotten.
LEMMA LineDrops ==
  ASSUME NEW del \in Seq(Handed), NEW r \in RecvState, NEW p \in Sock,
         NEW c \in Counts, NEW lim \in Nat,
         NEW q, Line(q, del, r, p, c, lim),
         "dscrd" \in Calls \/ r.nck >= r.nrd \/ r.src # p
  PROVE  Line(q, del, Dropped(r), p, c, lim)
<1>0. \A k \in Of(del, p) :
        k \in Nat /\ del[k] \in Handed /\ del[k].nr \in Nat /\ del[k].seq \in Nat
  BY DelType
<1>1. Dropped(r).nrd = 0 /\ r.nrd \in Nat /\ r.nck \in Nat
  BY DroppedType DEF RecvState
<1>2. q \in Seq(Coming(del, Dropped(r), p, c, lim))
  <2>1. Coming(del, r, p, c, lim) \subseteq Coming(del, Dropped(r), p, c, lim)
    BY <1>1 DEF Coming
  <2> QED
    BY <2>1, SeqMonotonic DEF Line
<1>3. AtRead(del, Dropped(r), p, c, lim)
  BY <1>1 DEF AtRead
<1>4. "dscrd" \in Calls \/ Whole(del, Dropped(r), p, c)
  <2> SUFFICES ASSUME "dscrd" \notin Calls, NEW k \in Of(del, p), Held(r, p, del[k].nr)
               PROVE  \A i \in Nat : c[del[k].nr] < i /\ i <= c[del[k].nr + 1]
                        => i \in Gave(del, p)
    BY DEF Whole, Line
  <2>1. r.nrd > 0 /\ r.src = p /\ r.nr = del[k].nr
    BY DEF Held
  <2>2. ~ (r.nck < r.nrd)
    BY <1>1, <2>1
  <2>3. AtRead(del, r, p, c, lim)
    BY DEF Line
  <2> QED
    BY <2>1, <2>2, <2>3 DEF AtRead
<1> QED
  BY <1>2, <1>3, <1>4 DEF Line

\* The next datagram is read.
LEMMA LineLoads ==
  ASSUME NEW del \in Seq(Handed), NEW r \in RecvState, r.nrd = 0, NEW p \in Sock,
         NEW c \in Counts, NEW lim \in Nat,
         NEW q \in Seq(FramedDatagram), q # <<>>, Line(q, del, r, p, c, lim)
  PROVE  Line(Tail(q), del, Load(r, Head(q)), p, c, lim)
<1> DEFINE d == Head(q)
           f == Load(r, d)
           K == Coming(del, r, p, c, lim)
<1>0. \A k \in Of(del, p) :
        k \in Nat /\ del[k] \in Handed /\ del[k].nr \in Nat /\ del[k].seq \in Nat
  BY DelType
<1>1. /\ q \in Seq(K) /\ d \in K /\ d \in FramedDatagram /\ d \in Datagram
      /\ Tail(q) \in Seq(K) /\ Len(q) \in Nat /\ Len(q) > 0 /\ d = q[1]
      /\ Len(Tail(q)) = Len(q) - 1
      /\ \A i \in 1 .. Len(q) - 1 : Tail(q)[i] = q[i + 1]
  <2>1. q \in Seq(K)
    BY DEF Line
  <2> QED
    BY <2>1, LenProperties, EmptySeq, HeadTailProperties DEF FramedDatagram
<1>2. /\ f \in RecvState /\ f.src = d.src /\ f.pno = d.pno /\ f.nr = d.nr
      /\ f.buf = Overlay(d.buf, d.len, r.buf)
      /\ f.nrd = IF d.good THEN d.len ELSE 0
      /\ d.good => f.nck = 0
  BY <1>1, LoadType DEF Load
<1> HIDE DEF f, d
<1>3. /\ d.len \in 0 .. Cap /\ d.len \in Nat /\ d.buf \in Buffer /\ f.buf \in Buffer
      /\ d.nr \in Nat
  BY <1>1, <1>2, SMTT(30) DEF Datagram, RecvState
<1>4. \A o \in Offs : o < d.len => f.buf[o] = d.buf[o]
  BY <1>2, <1>3 DEF Overlay
<1>5. d.src = p => /\ Placed(c, lim, d.nr, d.pno, d.buf, d.len)
                   /\ \A k \in Of(del, p) : del[k].nr < d.nr
  BY <1>1 DEF Coming
<1>6. d.src = p /\ d.len > 0 => d.buf[0].tag = "data"
  BY <1>1 DEF FramedDatagram, Framed
<1>7. Rising(q, p)
  BY DEF Line
<1>8. Rising(Tail(q), p)
  BY <1>1, <1>7 DEF Rising
<1>9. Tail(q) \in Seq(Coming(del, f, p, c, lim))
  <2>1. \A i \in 1 .. Len(Tail(q)) :
          /\ Tail(q)[i] \in K
          /\ d.src = p /\ Tail(q)[i].src = p => d.nr < Tail(q)[i].nr
    <3>1. \A i \in 1 .. Len(Tail(q)) : Tail(q)[i] \in K
      BY <1>1, ElementOfSeq
    <3>2. \A i \in 1 .. Len(Tail(q)) :
            Tail(q)[i] = q[i + 1] /\ i + 1 \in 1 .. Len(q) /\ 1 \in 1 .. Len(q) /\ 1 < i + 1
      BY <1>1
    <3> QED
      BY <1>1, <1>7, <3>1, <3>2 DEF Rising
  <2>2. \A i \in 1 .. Len(Tail(q)) : Tail(q)[i] \in Coming(del, f, p, c, lim)
    BY <1>2, <2>1 DEF Coming
  <2> HIDE DEF K
  <2> QED
    BY <1>1, <2>2, SeqOf
<1>10. AtRead(del, f, p, c, lim)
  <2> SUFFICES ASSUME f.nrd > 0, f.src = p PROVE AtRead(del, f, p, c, lim)
    BY DEF AtRead
  <2>1. d.good /\ d.src = p /\ f.nrd = d.len /\ f.nck = 0 /\ d.len > 0
    BY <1>2
  <2>2. c[d.nr] \in Nat /\ c[d.nr + 1] \in Nat
    BY <1>3, CountType
  <2>3. Payload(f.buf, d.len, c[d.nr], c[d.nr + 1])
    <3>1. Payload(d.buf, d.len, c[d.nr], c[d.nr + 1])
      BY <1>5, <2>1 DEF Placed
    <3> QED
      BY <1>3, <1>4, <2>2, <3>1, PayloadPrefix
  <2>4. Placed(c, lim, f.nr, f.pno, f.buf, f.nrd)
    BY <1>2, <1>5, <2>1, <2>3 DEF Placed
  <2>5. \A k \in Of(del, p) : del[k].nr < f.nr
    BY <1>2, <1>5, <2>1
  <2>6. f.buf[0].seq = c[f.nr] + 1 \/ f.buf[0].seq = 0
    <3>1. 0 \in Offs /\ f.buf[0].tag = "data"
      BY <1>3, <1>4, <1>6, <2>1, SMTT(30) DEF Offs
    <3>2. f.buf[0].seq = c[d.nr] + 1 \/ f.buf[0].seq = 0
      <4>1. CASE Numbered(f.buf, d.len, c[d.nr], c[d.nr + 1])
        BY <2>1, <4>1 DEF Numbered
      <4>2. CASE Silent(f.buf, d.len)
        BY <2>1, <3>1, <4>2 DEF Silent
      <4> QED
        BY <2>3, <4>1, <4>2 DEF Payload
    <3> QED
      BY <1>2, <3>2
  <2>7. ASSUME NEW i \in Nat, c[f.nr] < i, i < f.buf[0].seq PROVE FALSE
    BY <1>2, <2>2, <2>6, <2>7
  <2>8. \A k \in Of(del, p) : del[k].nr <= f.nr /\ del[k].nr # f.nr
    BY <1>0, <1>2, <1>3, <2>5
  <2>9. f.nck < f.nrd /\ f.buf[f.nck] = f.buf[0]
    BY <2>1
  <2> QED
    BY <2>4, <2>7, <2>8, <2>9 DEF AtRead
<1>11. "dscrd" \in Calls \/ Whole(del, f, p, c)
  BY DEF Line, Whole, Held
<1> QED
  BY <1>8, <1>9, <1>10, <1>11 DEF Line, f, d

\* The next pack of the packet is handed out.
LEMMA LineHands ==
  ASSUME NEW del \in Seq(Handed), NEW r \in RecvState, NEW p \in Sock,
         NEW c \in Counts, NEW lim \in Nat, NEW q, Line(q, del, r, p, c, lim),
         ReadsPacks(r), r.nck < r.nrd,
         NEW x \in Cell, x = r.buf[r.nck], x.tag = "data",
         NEW m \in Handed, m.src = r.src, m.seq = x.seq, m.pno = r.pno, m.nr = r.nr,
         NEW f \in RecvState, f.nck = r.nck + PackSize(x.len), f.nrd = r.nrd,
         f.src = r.src, f.nr = r.nr, f.pno = r.pno, f.buf = r.buf
  PROVE  Line(q, Append(del, m), f, p, c, lim)
<1> DEFINE n == Len(del)
           dl == Append(del, m)
<1>0. /\ n \in Nat
      /\ \A k \in Of(del, p) :
           /\ k \in 1 .. n /\ k \in Nat /\ del[k] \in Handed
           /\ del[k].nr \in Nat /\ del[k].seq \in Nat
  BY DelType DEF Of
<1>1. /\ dl \in Seq(Handed) /\ Len(dl) = n + 1 /\ dl[n + 1] = m
      /\ \A k \in 1 .. n : dl[k] = del[k]
  BY AppendProperties
<1> HIDE DEF dl, n
<1>2. \A k \in Of(dl, p) : (k \in Of(del, p) /\ dl[k] = del[k])
                              \/ (k = n + 1 /\ m.src = p /\ dl[k] = m)
  BY <1>0, <1>1 DEF Of, n
<1>3. \A k \in Of(del, p) : k \in Of(dl, p) /\ dl[k] = del[k]
  BY <1>0, <1>1 DEF Of, n
<1>4. Gave(del, p) \subseteq Gave(dl, p)
  BY <1>3 DEF Gave
<1>5. m.src = p => n + 1 \in Of(dl, p) /\ m.seq \in Gave(dl, p)
  <2>1. m.src = p => n + 1 \in Of(dl, p)
    BY <1>0, <1>1 DEF Of
  <2> QED
    BY <1>1, <2>1 DEF Gave
<1>6. /\ r.nrd \in Nat /\ r.nck \in Nat /\ r.nr \in Nat /\ r.nrd > 0 /\ m.nr \in Nat
      /\ c[r.nr] \in Nat /\ c[r.nr + 1] \in Nat /\ x.seq \in Nat /\ r.nck \in Offs
      /\ r.buf \in Buffer /\ r.nrd \in 0 .. Cap
  <2>1. /\ r.nrd \in Nat /\ r.nck \in Nat /\ r.nr \in Nat /\ r.buf \in Buffer
        /\ r.nrd \in 0 .. Cap /\ x.seq \in Nat
    BY DEF RecvState, Cell
  <2>2. r.nrd > 0 /\ r.nck \in Offs
    BY <2>1 DEF Offs
  <2>3. c[r.nr] \in Nat /\ c[r.nr + 1] \in Nat
    BY <2>1, CountType
  <2> QED
    BY <2>1, <2>2, <2>3
<1>7. \/ "dscrd" \in Calls
      \/ Whole(dl, f, p, c)
  <2> SUFFICES ASSUME "dscrd" \notin Calls, NEW k \in Of(dl, p)
               PROVE  \/ Held(f, p, dl[k].nr)
                      \/ \A i \in Nat : c[dl[k].nr] < i /\ i <= c[dl[k].nr + 1]
                           => i \in Gave(dl, p)
    BY DEF Whole
  <2>1. CASE k \in Of(del, p) /\ dl[k] = del[k]
    BY <1>4, <2>1 DEF Line, Whole, Held
  <2>2. CASE k = n + 1 /\ m.src = p /\ dl[k] = m
    BY <1>6, <2>2 DEF Held
  <2> QED
    BY <1>2, <2>1, <2>2
<1>8. CASE r.src # p
  <2>1. \A k \in Of(dl, p) : k \in Of(del, p) /\ dl[k] = del[k]
    BY <1>2, <1>8
  <2>2. q \in Seq(Coming(dl, f, p, c, lim))
    <3>1. Coming(del, r, p, c, lim) \subseteq Coming(dl, f, p, c, lim)
      BY <1>8, <2>1 DEF Coming
    <3> QED
      BY <3>1, SeqMonotonic DEF Line
  <2>3. AtRead(dl, f, p, c, lim)
    BY <1>8 DEF AtRead
  <2>4. Records(dl, p, c, lim)
    BY <1>4, <2>1, SMTT(30) DEF Line, Records
  <2> QED
    BY <1>7, <2>2, <2>3, <2>4 DEF Line, dl
<1>9. CASE r.src = p
  <2>1. /\ r.nr < lim /\ r.pno = r.nr % PnoMod
        /\ Placed(c, lim, r.nr, r.pno, r.buf, r.nrd)
        /\ Payload(r.buf, r.nrd, c[r.nr], c[r.nr + 1])
        /\ \A k \in Of(del, p) :
             /\ del[k].nr <= r.nr
             /\ del[k].nr = r.nr /\ del[k].seq > 0 => del[k].seq < x.seq
        /\ \A i \in Nat : c[r.nr] < i /\ i < x.seq => i \in Gave(del, p)
    BY <1>6, <1>9 DEF Line, AtRead, Placed
  <2>2. /\ \A i \in Nat : c[r.nr] < i /\ i < x.seq => i \in Gave(dl, p)
        /\ x.seq \in Gave(dl, p)
    BY <1>4, <1>5, <1>9, <2>1
  <2> DEFINE e == r.nck + PackSize(x.len)
  <2>3. e \in Nat /\ e <= r.nrd /\ (e < r.nrd => r.buf[e].tag = "data" /\ e \in Offs)
    <3>1. Framed(r.buf, r.nrd)
      BY <1>9 DEF ReadsPacks
    <3>2. e \in Nat /\ e <= r.nrd /\ (e < r.nrd => r.buf[e].tag = "data")
      BY <1>6, <3>1, FramedNext
    <3> HIDE DEF e
    <3> QED
      BY <1>6, <3>2 DEF Offs
  <2>4. \* what the next pack is
        \/ /\ x.seq = 0 /\ c[r.nr] = c[r.nr + 1]
           /\ e < r.nrd => r.buf[e].seq = 0
        \/ /\ c[r.nr] < x.seq /\ x.seq <= c[r.nr + 1]
           /\ IF e < r.nrd THEN r.buf[e].seq = x.seq + 1 ELSE x.seq = c[r.nr + 1]
    <3>1. CASE Silent(r.buf, r.nrd) /\ c[r.nr] = c[r.nr + 1]
      <4> HIDE DEF e
      <4> QED
        BY <1>6, <2>3, <3>1 DEF Silent
    <3>2. CASE Numbered(r.buf, r.nrd, c[r.nr], c[r.nr + 1])
      BY <1>6, <3>2 DEF Numbered
    <3> QED
      BY <2>1, <3>1, <3>2 DEF Payload
  <2>5. f.nck = e
    OBVIOUS
  <2> HIDE DEF e
  <2>6. q \in Seq(Coming(dl, f, p, c, lim))
    <3>1. Coming(del, r, p, c, lim) \subseteq Coming(dl, f, p, c, lim)
      <4> SUFFICES ASSUME NEW d \in Coming(del, r, p, c, lim), d.src = p,
                          NEW k \in Of(dl, p)
                   PROVE  dl[k].nr < d.nr
        BY DEF Coming
      <4> QED
        BY <1>2, <1>6, <1>9 DEF Coming
    <3> QED
      BY <3>1, SeqMonotonic DEF Line
  <2>7. AtRead(dl, f, p, c, lim)
    <3>1. Placed(c, lim, f.nr, f.pno, f.buf, f.nrd)
      BY <2>1
    <3>2. ASSUME NEW k \in Of(dl, p)
          PROVE  /\ dl[k].nr <= f.nr
                 /\ dl[k].nr = f.nr /\ dl[k].seq > 0 /\ f.nck < f.nrd =>
                      dl[k].seq < f.buf[f.nck].seq
      <4>1. CASE k \in Of(del, p) /\ dl[k] = del[k]
        <5>1. /\ del[k].nr <= r.nr
              /\ del[k].nr = r.nr /\ del[k].seq > 0 => del[k].seq < x.seq
          BY <2>1, <4>1
        <5>2. ASSUME del[k].seq > 0, del[k].seq < x.seq, e < r.nrd
              PROVE  del[k].seq < r.buf[e].seq
          <6>1. x.seq \in Nat /\ del[k].seq \in Nat
            BY <1>0, <1>6, <4>1
          <6>2. x.seq > 0
            BY <5>2, <6>1, SMTT(30)
          <6>3. r.buf[e].seq = x.seq + 1
            BY <2>4, <5>2, <6>2
          <6> QED
            BY <5>2, <6>1, <6>3, SMTT(30)
        <5> QED
          BY <2>5, <4>1, <5>1, <5>2
      <4>2. CASE k = n + 1 /\ dl[k] = m
        <5>1. x.seq \in Nat /\ r.nr \in Nat
          BY <1>6
        <5>2. dl[k].nr = f.nr /\ dl[k].seq = x.seq
          BY <4>2
        <5>3. ASSUME x.seq > 0, e < r.nrd PROVE x.seq < r.buf[e].seq
          <6>1. r.buf[e].seq = x.seq + 1
            BY <2>4, <5>3
          <6> QED
            BY <5>1, <6>1
        <5> QED
          BY <2>5, <5>1, <5>2, <5>3
      <4> QED
        BY <1>2, <4>1, <4>2
    <3>3. ASSUME NEW i \in Nat, c[f.nr] < i,
                 IF f.nck < f.nrd THEN i < f.buf[f.nck].seq ELSE i <= c[f.nr + 1]
          PROVE  i \in Gave(dl, p)
      <4>1. i < x.seq \/ i = x.seq
        <5>1. x.seq \in Nat
          BY <1>6
        <5>2. CASE e < r.nrd
          <6>1. i < r.buf[e].seq /\ r.buf[e].seq \in {0, x.seq + 1}
            BY <2>4, <2>5, <3>3, <5>2
          <6> QED
            BY <5>1, <6>1
        <5>3. CASE ~ (e < r.nrd)
          <6>1. i <= c[r.nr + 1] /\ c[r.nr] < i
            BY <2>5, <3>3, <5>3
          <6>2. c[r.nr] = c[r.nr + 1] \/ x.seq = c[r.nr + 1]
            BY <2>4, <5>3
          <6>3. c[r.nr] \in Nat /\ c[r.nr + 1] \in Nat
            BY <1>6
          <6> QED
            BY <5>1, <6>1, <6>2, <6>3
        <5> QED
          BY <5>2, <5>3
      <4> QED
        BY <2>2, <3>3, <4>1
    <3> QED
      BY <3>1, <3>2, <3>3 DEF AtRead
  <2>8. Records(dl, p, c, lim)
    <3>1. Records(del, p, c, lim)
      BY DEF Line
    <3>2. ASSUME NEW k \in Of(dl, p)
          PROVE  /\ dl[k].nr < lim /\ dl[k].pno = dl[k].nr % PnoMod
                 /\ IF dl[k].seq = 0 THEN c[dl[k].nr + 1] = c[dl[k].nr]
                    ELSE c[dl[k].nr] < dl[k].seq /\ dl[k].seq <= c[dl[k].nr + 1]
                 /\ \A i \in Nat : c[dl[k].nr] < i /\ i < dl[k].seq => i \in Gave(dl, p)
      <4>1. CASE k \in Of(del, p) /\ dl[k] = del[k]
        BY <1>4, <3>1, <4>1 DEF Records
      <4>2. CASE k = n + 1 /\ dl[k] = m
        <5>1. dl[k].nr = r.nr /\ dl[k].seq = x.seq /\ dl[k].pno = r.pno
          BY <4>2
        <5>2. IF x.seq = 0 THEN c[r.nr + 1] = c[r.nr]
              ELSE c[r.nr] < x.seq /\ x.seq <= c[r.nr + 1]
          <6>1. x.seq \in Nat /\ c[r.nr] \in Nat
            BY <1>6
          <6> QED
            BY <2>4, <6>1
        <5> QED
          BY <2>1, <2>2, <5>1, <5>2
      <4> QED
        BY <1>2, <4>1, <4>2
    <3>3. ASSUME NEW k \in Of(dl, p), NEW l \in Of(dl, p), k < l
          PROVE  /\ dl[k].nr <= dl[l].nr
                 /\ dl[k].seq > 0 /\ dl[l].seq > 0 => dl[k].seq < dl[l].seq
      <4>1. CASE l \in Of(del, p) /\ dl[l] = del[l]
        <5>1. k \in Of(del, p) /\ dl[k] = del[k]
          BY <1>0, <1>2, <3>3, <4>1
        <5> QED
          BY <3>1, <3>3, <4>1, <5>1 DEF Records
      <4>2. CASE l = n + 1 /\ dl[l] = m
        <5>1. k \in Of(del, p) /\ dl[k] = del[k]
          <6>1. k # n + 1
            BY <1>0, <3>3, <4>2
          <6> QED
            BY <1>2, <6>1
        <5>2. del[k].nr <= r.nr /\ del[k].nr \in Nat /\ del[k].seq \in Nat
          BY <1>0, <2>1, <5>1
        <5>3. ASSUME del[k].seq > 0, x.seq > 0 PROVE del[k].seq < x.seq
          <6>1. CASE del[k].nr = r.nr
            BY <2>1, <5>1, <5>3, <6>1
          <6>2. CASE del[k].nr < r.nr
            <7>1. del[k].seq <= c[del[k].nr + 1]
              BY <3>1, <5>1, <5>3 DEF Records
            <7>2. c[del[k].nr + 1] <= c[r.nr] /\ c[del[k].nr + 1] \in Nat
              <8>0. r.nr \in Nat /\ del[k].nr \in Nat
                BY <1>6, <5>2
              <8>1. del[k].nr + 1 \in Nat /\ del[k].nr + 1 <= r.nr
                BY <8>0, <6>2, SMTT(30)
              <8> QED
                BY <1>6, <5>2, <8>1, CountType DEF Counts
            <7>3. c[r.nr] < x.seq
              BY <2>4, <5>3
            <7>4. c[r.nr] \in Nat /\ x.seq \in Nat /\ del[k].seq \in Nat
              BY <1>6, <5>2
            <7>5. \A g, h, i, j \in Nat : g <= h /\ h <= i /\ i < j => g < j
              OBVIOUS
            <7> QED
              BY <7>1, <7>2, <7>3, <7>4, <7>5
          <6> QED
            BY <1>6, <5>2, <6>1, <6>2
        <5> QED
          BY <4>2, <5>1, <5>2, <5>3
      <4> QED
        BY <1>2, <4>1, <4>2
    <3> QED
      BY <3>2, <3>3 DEF Records
  <2> QED
    BY <1>7, <2>6, <2>7, <2>8 DEF Line, dl
<1> QED
  BY <1>8, <1>9

-----------------------------------------------------------------------------
(* Queues *)

\* Two queues one behind the other.
LEMMA RisingConcat ==
  ASSUME NEW S, NEW q \in Seq(S), NEW ds \in Seq(S), NEW p,
         Rising(q, p), Rising(ds, p),
         \A i \in 1 .. Len(q), j \in 1 .. Len(ds) :
           q[i].src = p /\ ds[j].src = p => q[i].nr < ds[j].nr
  PROVE  Rising(q \o ds, p)
<1> DEFINE u == q \o ds
           m == Len(q)
           n == Len(ds)
<1>1. /\ m \in Nat /\ n \in Nat /\ Len(u) = m + n
      /\ \A i \in 1 .. m : u[i] = q[i]
      /\ \A i \in m + 1 .. m + n : i - m \in 1 .. n /\ u[i] = ds[i - m]
  BY LenProperties, ConcatProperties
<1> HIDE DEF u
<1> SUFFICES ASSUME NEW i \in 1 .. Len(u), NEW j \in 1 .. Len(u), i < j,
                    u[i].src = p, u[j].src = p
             PROVE  u[i].nr < u[j].nr
  BY DEF Rising, u
<1> HIDE DEF m, n
<1>2. CASE j <= m
  <2>1. i \in 1 .. m /\ j \in 1 .. m
    BY <1>1, <1>2
  <2>2. u[i] = q[i] /\ u[j] = q[j]
    BY <1>1, <2>1
  <2> QED
    BY <2>1, <2>2 DEF Rising, m
<1>3. CASE i > m
  <2>1. /\ i - m \in 1 .. n /\ j - m \in 1 .. n /\ i - m < j - m
        /\ u[i] = ds[i - m] /\ u[j] = ds[j - m]
    BY <1>1, <1>3, SMTT(30)
  <2> HIDE <1>1
  <2> QED
    BY <2>1 DEF Rising, n
<1>4. CASE i <= m /\ j > m
  <2>1. i \in 1 .. m /\ j - m \in 1 .. n /\ u[i] = q[i] /\ u[j] = ds[j - m]
    BY <1>1, <1>4
  <2> QED
    BY <2>1 DEF m, n
<1> QED
  BY <1>1, <1>2, <1>3, <1>4

\* What is cut out of a queue.
LEMMA RisingSub ==
  ASSUME NEW S, NEW q \in Seq(S), NEW p, Rising(q, p),
         NEW i \in Nat, NEW j \in Nat, 1 <= i, j <= Len(q)
  PROVE  /\ SubSeq(q, i, j) \in Seq(S) /\ Rising(SubSeq(q, i, j), p)
         /\ \A k \in 1 .. Len(SubSeq(q, i, j)) :
              /\ SubSeq(q, i, j)[k] = q[i + k - 1]
              /\ i + k - 1 \in i .. j
<1> DEFINE u == SubSeq(q, i, j)
<1>1. Len(q) \in Nat /\ \A k \in 1 .. Len(q) : q[k] \in S
  BY LenProperties, ElementOfSeq
<1>2. \A k \in i .. j : q[k] \in S
  BY <1>1
<1>3. /\ u \in Seq(S) /\ Len(u) = IF i <= j THEN j - i + 1 ELSE 0
      /\ \A k \in 1 .. j - i + 1 : u[k] = q[i + k - 1]
  BY <1>2, SubSeqProperties
<1> HIDE DEF u
<1>4. \A k \in 1 .. Len(u) : k \in 1 .. j - i + 1 /\ i + k - 1 \in i .. j
                              /\ i + k - 1 \in 1 .. Len(q)
  BY <1>1, <1>3
<1>5. Rising(u, p)
  <2> SUFFICES ASSUME NEW k \in 1 .. Len(u), NEW l \in 1 .. Len(u), k < l,
                      u[k].src = p, u[l].src = p
               PROVE  u[k].nr < u[l].nr
    BY DEF Rising
  <2>1. i + k - 1 < i + l - 1
    BY <1>4
  <2> QED
    BY <1>3, <1>4, <2>1 DEF Rising
<1> QED
  BY <1>3, <1>4, <1>5 DEF u

\* A queue that gets what its sender has sent since.
LEMMA RisingEnqueue ==
  ASSUME NEW S, NEW q \in Seq(S), NEW ds \in Seq(S), NEW p,
         Rising(q, p), Rising(ds, p),
         \A i \in 1 .. Len(q), j \in 1 .. Len(ds) :
           q[i].src = p /\ ds[j].src = p => q[i].nr < ds[j].nr
  PROVE  Enqueue(q, ds) \in Seq(S) /\ Rising(Enqueue(q, ds), p)
<1> DEFINE u == q \o ds
           n == IF Len(u) <= QMax THEN Len(u) ELSE QMax
<1>1. u \in Seq(S) /\ Rising(u, p) /\ Len(u) \in Nat
  BY RisingConcat, ConcatProperties, LenProperties
<1>2. n \in Nat /\ n <= Len(u)
  BY <1>1
<1> HIDE DEF u, n
<1>3. SubSeq(u, 1, n) \in Seq(S) /\ Rising(SubSeq(u, 1, n), p)
  BY <1>1, <1>2, RisingSub
<1> QED
  BY <1>3 DEF Enqueue, u, n

\* A queue that loses a datagram.
LEMMA RisingLose ==
  ASSUME NEW S, NEW q \in Seq(S), NEW p, Rising(q, p), NEW i \in 1 .. Len(q)
  PROVE  LET u == SubSeq(q, 1, i - 1) \o SubSeq(q, i + 1, Len(q))
         IN  u \in Seq(S) /\ Rising(u, p)
<1> DEFINE a == SubSeq(q, 1, i - 1)
           b == SubSeq(q, i + 1, Len(q))
<1>0. Len(q) \in Nat
  BY LenProperties
<1>1. /\ a \in Seq(S) /\ Rising(a, p)
      /\ \A k \in 1 .. Len(a) : a[k] = q[1 + k - 1] /\ 1 + k - 1 \in 1 .. i - 1
  <2>1. i - 1 \in Nat /\ i - 1 <= Len(q) /\ 1 \in Nat
    BY <1>0
  <2> QED
    BY <2>1, RisingSub
<1>2. /\ b \in Seq(S) /\ Rising(b, p)
      /\ \A k \in 1 .. Len(b) : b[k] = q[i + 1 + k - 1]
                                 /\ i + 1 + k - 1 \in i + 1 .. Len(q)
  <2>1. i + 1 \in Nat /\ 1 <= i + 1 /\ Len(q) <= Len(q)
    BY <1>0
  <2> QED
    BY <1>0, <2>1, RisingSub
<1> HIDE DEF a, b
<1>3. ASSUME NEW k \in 1 .. Len(a), NEW l \in 1 .. Len(b), a[k].src = p, b[l].src = p
      PROVE  a[k].nr < b[l].nr
  <2> DEFINE x == 1 + k - 1
             y == i + 1 + l - 1
  <2>1. /\ x \in 1 .. i - 1 /\ y \in i + 1 .. Len(q)
        /\ a[k] = q[x] /\ b[l] = q[y]
    BY <1>1, <1>2
  <2> HIDE DEF x, y
  <2>2. x \in 1 .. Len(q) /\ y \in 1 .. Len(q) /\ x < y
    BY <1>0, <2>1, SMTT(30)
  <2> QED
    BY <1>3, <2>1, <2>2 DEF Rising
<1>4. a \o b \in Seq(S) /\ Rising(a \o b, p)
  BY <1>1, <1>2, <1>3, RisingConcat, ConcatProperties
<1> QED
  BY <1>4 DEF a, b

\* A queue gets what is sent to it, or loses a datagram.
LEMMA LineGets ==
  ASSUME NEW del \in Seq(Handed), NEW r \in RecvState, NEW p \in Sock,
         NEW c \in Counts, NEW lim \in Nat,
         NEW base, Line(base, del, r, p, c, lim),
         NEW ds \in Seq(Coming(del, r, p, c, lim)), Rising(ds, p),
         \A i \in 1 .. Len(base), j \in 1 .. Len(ds) :
           base[i].src = p /\ ds[j].src = p => base[i].nr < ds[j].nr,
         Faults \cap {"dup", "reorder"} = {}, NEW t \in Sock, Gets(t, base, ds)
  PROVE  Line(inq'[t], del, r, p, c, lim)
<1> DEFINE K == Coming(del, r, p, c, lim)
<1>1. base \in Seq(K) /\ Rising(base, p) /\ Len(base) \in Nat
  BY LenProperties DEF Line
<1>2. \A d \in ForeignPackets : d.src = Foreign /\ d \in Datagram
  BY ForeignType DEF ForeignPackets, ForeignPacket
<1>3. \A d \in ForeignPackets : d \in K /\ d.src # p
  BY <1>2 DEF Coming
<1>a. AtRead(del, r, p, c, lim) /\ Records(del, p, c, lim)
      /\ ("dscrd" \in Calls \/ Whole(del, r, p, c))
  BY DEF Line
<1>b. ds \in Seq(K)
  OBVIOUS
<1> HIDE DEF K
<1>4. ASSUME inq'[t] = base PROVE inq'[t] \in Seq(K) /\ Rising(inq'[t], p)
  BY <1>1, <1>4
<1>5. ASSUME inq'[t] = Enqueue(base, ds)
      PROVE  inq'[t] \in Seq(K) /\ Rising(inq'[t], p)
  <2>1. Enqueue(base, ds) \in Seq(K) /\ Rising(Enqueue(base, ds), p)
    BY <1>1, <1>b, RisingEnqueue
  <2> QED
    BY <1>5, <2>1
<1>6. ASSUME NEW i \in 1 .. Len(base),
             inq'[t] = SubSeq(base, 1, i - 1) \o SubSeq(base, i + 1, Len(base))
      PROVE  inq'[t] \in Seq(K) /\ Rising(inq'[t], p)
  BY <1>1, <1>6, RisingLose
<1>7. ASSUME NEW d \in ForeignPackets, inq'[t] = Enqueue(base, <<d>>)
      PROVE  inq'[t] \in Seq(K) /\ Rising(inq'[t], p)
  <2> DEFINE one == <<d>>
  <2>0. d \in K /\ d.src # p
    BY <1>3
  <2>1. one \in Seq(K) /\ Len(one) = 1 /\ one[1] = d
    BY <2>0
  <2> HIDE DEF one
  <2>2. \A j \in 1 .. Len(one) : one[j].src # p
    BY <1>3, <2>1
  <2>3. Rising(one, p)
    BY <2>2 DEF Rising
  <2>4. Enqueue(base, one) \in Seq(K) /\ Rising(Enqueue(base, one), p)
    BY <1>1, <2>1, <2>2, <2>3, RisingEnqueue
  <2> QED
    BY <1>7, <2>4 DEF one
<1>8. inq'[t] \in Seq(K) /\ Rising(inq'[t], p)
  BY <1>4, <1>5, <1>6, <1>7 DEF Gets
<1> QED
  BY <1>8, <1>a DEF Line, K

-----------------------------------------------------------------------------
(* The invariant *)

Flow(p, c) ==
  /\ left[p] = 1 .. c[snd[p].pno]
  /\ Numbered(snd[p].buf, snd[p].npk, c[snd[p].pno], Len(accepted[p]))
  /\ \A t \in Sock : Line(inq[t], delivered[t], rcv[t], p, c, snd[p].pno)

\* For every publisher there are counts that tell what went with which packet.
FlowInv == \A p \in Sock : \E c \in Counts : Flow(p, c)

\* How a step counts on
Goes(p, c, e, max) ==
  /\ left'[p] = 1 .. max
  /\ \A n \in Nat : e[n] = IF n <= snd[p].pno THEN c[n] ELSE max
  /\ snd'[p].pno \in Nat /\ snd[p].pno <= snd'[p].pno
  /\ left'[p] = 1 .. e[snd'[p].pno]

\* Intervals with the same members end at the same place.
LEMMA IntervalEnd ==
  ASSUME NEW i \in Nat, NEW j \in Nat, 1 .. i = 1 .. j
  PROVE  i = j
<1>1. CASE i < j
  <2>1. j \in 1 .. j /\ j \notin 1 .. i
    BY <1>1
  <2> QED
    BY <2>1
<1>2. CASE j < i
  <2>1. i \in 1 .. i /\ i \notin 1 .. j
    BY <1>2
  <2> QED
    BY <2>1
<1> QED
  BY <1>1, <1>2

\* And one that holds another ends behind it.
LEMMA IntervalGrows ==
  ASSUME NEW i \in Nat, NEW j \in Nat, 1 .. i \subseteq 1 .. j
  PROVE  i <= j
<1>1. CASE j < i
  <2>1. i \in 1 .. i /\ i \notin 1 .. j
    BY <1>1
  <2> QED
    BY <2>1
<1> QED
  BY <1>1

\* Every step counts on.
LEMMA NextGoes ==
  ASSUME TypeOK, NoPackLost, [Next]_vars, NEW p \in Sock, NEW c \in Counts,
         left[p] = 1 .. c[snd[p].pno]
  PROVE  \E e \in Counts, max \in Nat : Goes(p, c, e, max)
<1> DEFINE n == snd[p].pno
           len == Len(accepted[p])
<1>0. /\ n \in Nat /\ len \in Nat /\ c[n] \in Nat
      /\ left[p] \cup Packs(snd[p]) = 1 .. len
  <2>1. n \in Nat /\ len \in Nat
    BY LenProperties DEF TypeOK, SendState
  <2> QED
    BY <2>1, CountType DEF NoPackLost
<1>1. PICK u \in Sock, ds \in Seq(Datagram) : Sends(u, ds)
  BY NextMoves DEF Moves
<1>2. /\ snd'[p].pno \in {n, n + 1, n + 2}
      /\ \/ left'[p] = left[p]
         \/ left'[p] = left[p] \cup Packs(snd[p]) /\ snd'[p].pno # n
  <2>1. CASE u = p
    BY <1>0, <1>1, <2>1, SMTT(30) DEF Sends
  <2>2. CASE u # p
    BY <1>1, <2>2 DEF Sends
  <2> QED
    BY <2>1, <2>2
<1> HIDE DEF n, len
<1>3. PICK max \in Nat :
        /\ left'[p] = 1 .. max /\ c[n] <= max
        /\ snd'[p].pno = n => max = c[n]
  <2>1. CASE left'[p] = left[p]
    BY <1>0, <2>1 DEF n
  <2>2. CASE left'[p] = left[p] \cup Packs(snd[p]) /\ snd'[p].pno # n
    <3>1. left'[p] = 1 .. len /\ 1 .. c[n] \subseteq 1 .. len
      BY <1>0, <2>2 DEF n
    <3>2. c[n] <= len
      BY <1>0, <3>1, IntervalGrows
    <3> QED
      BY <1>0, <2>2, <3>1, <3>2
  <2> QED
    BY <1>2, <2>1, <2>2
<1> DEFINE e == [i \in Nat |-> IF i <= n THEN c[i] ELSE max]
<1>4. e \in Counts
  <2>1. \A i \in Nat : c[i] \in Nat
    BY CountType
  <2>2. \A i, j \in Nat : i <= j => c[i] <= c[j]
    BY DEF Counts
  <2>3. e \in [Nat -> Nat]
    BY <2>1
  <2>4. ASSUME NEW i \in Nat, NEW j \in Nat, i <= j PROVE e[i] <= e[j]
    <3>1. CASE j <= n
      BY <1>0, <2>2, <2>4, <3>1
    <3>2. CASE i <= n /\ n < j
      <4>1. c[i] <= c[n] /\ c[n] <= max /\ c[i] \in Nat
        BY <1>0, <1>3, <2>1, <2>2, <3>2
      <4> QED
        BY <1>0, <3>2, <4>1
    <3>3. CASE n < i
      BY <1>0, <2>4, <3>3
    <3> QED
      BY <1>0, <2>4, <3>1, <3>2, <3>3
  <2> HIDE DEF e
  <2> QED
    BY <2>3, <2>4 DEF Counts
<1>5. \A i \in Nat : e[i] = IF i <= n THEN c[i] ELSE max
  OBVIOUS
<1> HIDE DEF e
<1>6. snd'[p].pno \in Nat /\ n <= snd'[p].pno
  BY <1>0, <1>2
<1>7. e[snd'[p].pno] = max
  BY <1>0, <1>3, <1>5, <1>6
<1> QED
  BY <1>3, <1>4, <1>5, <1>6, <1>7 DEF Goes, n

\* What a socket sends of its buffer are the messages from those that have
\* left to the last it packed.
LEMMA DataPlaced ==
  ASSUME TypeOK, NoPackLost, NEW p \in Sock, NEW c \in Counts, Flow(p, c),
         NEW e \in Counts, NEW max \in Nat, Goes(p, c, e, max),
         left'[p] = left[p] \cup Packs(snd[p]), snd[p].pno < snd'[p].pno
  PROVE  LET d == DataPacket(p, snd[p])
         IN  /\ d.src = p /\ d.nr = snd[p].pno
             /\ Placed(e, snd'[p].pno, d.nr, d.pno, d.buf, d.len)
<1> DEFINE q == snd[p]
           b == Overlay(q.buf, q.npk, BlankBuffer)
<1>1. q \in SendState /\ q.pno \in Nat /\ q.npk \in 0 .. Cap /\ q.buf \in Buffer
      /\ q.npk \in Nat
  BY DEF TypeOK, SendState
<1>2. b \in Buffer /\ \A o \in Offs : o < q.npk => b[o] = q.buf[o]
  BY <1>1, OverlayType, BlankType DEF Overlay
<1>3. Len(accepted[p]) \in Nat
  BY LenProperties DEF TypeOK
<1>4. max = Len(accepted[p])
  <2>1. 1 .. max = 1 .. Len(accepted[p])
    BY DEF Goes, NoPackLost
  <2> QED
    BY <1>3, <2>1, IntervalEnd
<1>5. e[q.pno] = c[q.pno] /\ e[q.pno + 1] = max /\ e[q.pno] \in Nat
  <2>1. \A i \in Nat : e[i] = IF i <= q.pno THEN c[i] ELSE max
    BY DEF Goes
  <2> HIDE DEF q
  <2>2. q.pno + 1 \in Nat /\ ~ (q.pno + 1 <= q.pno) /\ q.pno <= q.pno
    BY <1>1
  <2>3. e[q.pno] \in Nat
    BY <1>1, CountType
  <2> QED
    BY <1>1, <2>1, <2>2, <2>3
<1> HIDE DEF b
<1>6. Payload(q.buf, q.npk, e[q.pno], e[q.pno + 1])
  BY <1>4, <1>5 DEF Flow, Payload
<1>7. Payload(b, q.npk, e[q.pno], e[q.pno + 1])
  BY <1>1, <1>2, <1>5, <1>6, PayloadPrefix
<1> QED
  BY <1>1, <1>7 DEF DataPacket, Placed, b

\* A PING or PONG holds none of them.
LEMMA CtrlPlaced ==
  ASSUME NEW p \in Sock, NEW n \in Nat, NEW d \in Ctrls(p, n), NEW e, e[n] = e[n + 1],
         NEW max \in Nat, n < max
  PROVE  d.src = p /\ d.nr = n /\ Placed(e, max, d.nr, d.pno, d.buf, d.len)
<1>1. PICK f \in SendState, cmd \in {PING, PONG} :
        f.pno = n /\ d = CtrlPacket(p, f, cmd)
  BY DEF Ctrls
<1>2. \A o \in Offs : d.buf[o] \in {DataCell(PingLen, p, 0), Blank}
  BY <1>1 DEF CtrlPacket, PutPack, BlankBuffer
<1>3. Silent(d.buf, d.len)
  BY <1>2 DEF Silent, DataCell, Blank
<1>4. d.src = p /\ d.nr = n /\ d.pno = n % PnoMod
  BY <1>1 DEF CtrlPacket
<1> QED
  BY <1>3, <1>4 DEF Placed, Payload

\* What is sent comes after all that was sent before.
LEMMA SendsComing ==
  ASSUME TypeOK, NoPackLost, NEW p \in Sock, NEW c \in Counts, Flow(p, c),
         NEW e \in Counts, NEW max \in Nat, Goes(p, c, e, max),
         NEW u \in Sock, NEW ds \in Seq(Datagram), Sends(u, ds),
         NEW del \in Seq(Handed), NEW r \in RecvState,
         Records(del, p, c, snd[p].pno), AtRead(del, r, p, c, snd[p].pno)
  PROVE  /\ ds \in Seq(Coming(del, r, p, e, snd'[p].pno))
         /\ Rising(ds, p)
         /\ \A j \in 1 .. Len(ds) : ds[j].src = p => snd[p].pno <= ds[j].nr
<1> DEFINE n == snd[p].pno
           D == DataPacket(p, snd[p])
           K == Coming(del, r, p, e, snd'[p].pno)
<1>0. /\ n \in Nat /\ snd'[p].pno \in Nat /\ r.nr \in Nat
      /\ \A k \in Of(del, p) : del[k].nr \in Nat
  BY DelType DEF TypeOK, SendState, Goes, RecvState
<1>1. /\ \A k \in Of(del, p) : del[k].nr < n
      /\ r.nrd > 0 /\ r.src = p => r.nr < n
  BY DEF Records, AtRead, Placed
<1>2. ASSUME NEW d \in Datagram, d.src = p, n <= d.nr,
             Placed(e, snd'[p].pno, d.nr, d.pno, d.buf, d.len)
      PROVE  d \in K
  <2>1. d.nr \in Nat
    BY DEF Datagram
  <2>2. /\ \A k \in Of(del, p) : del[k].nr < d.nr
        /\ r.nrd > 0 /\ r.src = p => r.nr < d.nr
    BY <1>0, <1>1, <1>2, <2>1, SMTT(30)
  <2> QED
    BY <1>2, <2>2 DEF Coming
<1>3. \A d \in Datagram : d.src # p => d \in K
  BY DEF Coming
<1>4. D \in Datagram /\ D.src = p /\ D.nr = n
  BY DataPacketType DEF TypeOK, DataPacket
<1>5. \A i : Ctrls(u, i) \subseteq Datagram
  BY CtrlPacketType, CtrlSvcs DEF Ctrls
<1>6. ASSUME u # p
      PROVE  \A d \in Datagram : (d = DataPacket(u, snd[u]) \/ \E i : d \in Ctrls(u, i))
                                  => d.src # p
  BY <1>6 DEF DataPacket, Ctrls, CtrlPacket
<1>7. ASSUME NEW i \in Nat, n < i PROVE e[i] = e[i + 1]
  <2>1. \A j \in Nat : e[j] = IF j <= n THEN c[j] ELSE max
    BY DEF Goes
  <2> HIDE DEF n
  <2>2. i + 1 \in Nat /\ ~ (i <= n) /\ ~ (i + 1 <= n)
    BY <1>0, <1>7
  <2> QED
    BY <2>1, <2>2
<1> HIDE DEF K, D, n
<1>8. \A i \in 1 .. Len(ds) : ds[i] \in Datagram
  BY ElementOfSeq
<1>9. /\ Len(ds) \in Nat
      /\ \A i \in 1 .. Len(ds) : ds[i] \in K /\ (ds[i].src = p => n <= ds[i].nr)
      /\ Rising(ds, p)
  <2>1. CASE ds = <<>>
    <3>1. Len(ds) = 0
      BY <2>1
    <3> QED
      BY <3>1 DEF Rising
  <2>2. CASE ds = <<DataPacket(u, snd[u])>> /\ snd'[u].pno = snd[u].pno + 1
             /\ left'[u] = left[u] \cup Packs(snd[u])
    <3>1. Len(ds) = 1 /\ ds[1] = DataPacket(u, snd[u])
      BY <2>2
    <3>2. \A i \in 1 .. Len(ds) : i = 1
      BY <3>1
    <3>3. Rising(ds, p)
      BY <3>2 DEF Rising
    <3>4. CASE u # p
      BY <1>3, <1>6, <1>8, <3>1, <3>2, <3>3, <3>4
    <3>5. CASE u = p
      <4>1. Placed(e, snd'[p].pno, D.nr, D.pno, D.buf, D.len)
        BY <1>0, <2>2, <3>5, DataPlaced DEF D, n
      <4>2. ds[1] = D
        BY <3>1, <3>5 DEF D
      <4>3. D \in K
        BY <1>0, <1>2, <1>4, <4>1
      <4> QED
        BY <1>0, <1>4, <3>1, <3>2, <3>3, <4>2, <4>3
    <3> QED
      BY <3>4, <3>5
  <2>3. ASSUME NEW d \in Ctrls(u, snd[u].pno), ds = <<d>>,
               snd'[u].pno = snd[u].pno + 1, left'[u] = left[u]
        PROVE  /\ Len(ds) \in Nat
               /\ \A i \in 1 .. Len(ds) : ds[i] \in K /\ (ds[i].src = p => n <= ds[i].nr)
               /\ Rising(ds, p)
    <3>1. Len(ds) = 1 /\ ds[1] = d
      BY <2>3
    <3>2. \A i \in 1 .. Len(ds) : i = 1
      BY <3>1
    <3>3. Rising(ds, p)
      BY <3>2 DEF Rising
    <3>4. CASE u # p
      BY <1>3, <1>5, <1>6, <3>1, <3>2, <3>3, <3>4
    <3>5. CASE u = p
      <4>1. e[n] = e[n + 1]
        <5>1. 1 .. max = 1 .. c[n] /\ c[n] \in Nat
          BY <1>0, <2>3, <3>5, CountType DEF Goes, Flow, n
        <5>2. max = c[n]
          BY <5>1, IntervalEnd
        <5>3. n \in Nat /\ n + 1 \in Nat /\ n <= n /\ ~ n + 1 <= n
          BY <1>0
        <5>4. e[n] = c[n] /\ e[n + 1] = max
          <6>1. \A k \in Nat : e[k] = IF k <= n THEN c[k] ELSE max
            BY <1>0, <3>5 DEF Goes, n
          <6> QED
            BY <5>3, <6>1
        <5> QED
          BY <5>2, <5>4
      <4>2. d.src = p /\ d.nr = n /\ Placed(e, snd'[p].pno, d.nr, d.pno, d.buf, d.len)
        BY <1>0, <2>3, <3>5, <4>1, CtrlPlaced, SMTT(30) DEF n
      <4>3. d \in K
        BY <1>0, <1>2, <1>5, <3>5, <4>2
      <4> QED
        BY <1>0, <3>1, <3>2, <3>3, <4>2, <4>3
    <3> QED
      BY <3>4, <3>5
  <2>4. ASSUME NEW d \in Ctrls(u, snd[u].pno + 1), ds = <<DataPacket(u, snd[u]), d>>,
               snd'[u].pno = snd[u].pno + 2,
               left'[u] = left[u] \cup Packs(snd[u])
        PROVE  /\ Len(ds) \in Nat
               /\ \A i \in 1 .. Len(ds) : ds[i] \in K /\ (ds[i].src = p => n <= ds[i].nr)
               /\ Rising(ds, p)
    <3>1. Len(ds) = 2 /\ ds[1] = DataPacket(u, snd[u]) /\ ds[2] = d
      BY <2>4
    <3>2. \A i \in 1 .. Len(ds) : i = 1 \/ i = 2
      BY <3>1
    <3>4. CASE u # p
      <4>1. \A i \in 1 .. Len(ds) : ds[i].src # p
        BY <1>5, <1>6, <1>8, <3>1, <3>2, <3>4
      <4> QED
        BY <1>3, <1>8, <3>1, <4>1 DEF Rising
    <3>5. CASE u = p
      <4>1. Placed(e, snd'[p].pno, D.nr, D.pno, D.buf, D.len) /\ ds[1] = D
        BY <1>0, <2>4, <3>1, <3>5, DataPlaced, SMTT(30) DEF D, n
      <4>2. /\ d.src = p /\ d.nr = n + 1
            /\ Placed(e, snd'[p].pno, d.nr, d.pno, d.buf, d.len)
        <5>1. n + 1 \in Nat /\ n < n + 1 /\ snd'[p].pno = n + 2
          BY <1>0, <2>4, <3>5, SMTT(30) DEF n
        <5>2. e[n + 1] = e[(n + 1) + 1] /\ n + 1 < snd'[p].pno
          BY <1>0, <1>7, <5>1
        <5>3. d \in Ctrls(p, n + 1)
          BY <3>5 DEF n
        <5> QED
          BY <1>0, <5>1, <5>2, <5>3, CtrlPlaced
      <4>3. D \in K /\ d \in K
        BY <1>0, <1>2, <1>4, <1>5, <3>5, <4>1, <4>2, SMTT(30)
      <4>4. Rising(ds, p)
        <5>1. ds[1].nr < ds[2].nr
          BY <1>0, <1>4, <3>1, <4>1, <4>2
        <5>2. \A i, j \in 1 .. Len(ds) : i < j => i = 1 /\ j = 2
          BY <3>1
        <5> QED
          BY <5>1, <5>2 DEF Rising
      <4> QED
        BY <1>0, <1>4, <3>1, <3>2, <4>1, <4>2, <4>3, <4>4
    <3> QED
      BY <3>4, <3>5
  <2> QED
    BY <2>1, <2>2, <2>3, <2>4 DEF Sends
<1>10. ds \in Seq(K)
  BY <1>9, SeqOf
<1> QED
  BY <1>9, <1>10 DEF K, n

\* What was begun is read where packs start, and so is what is begun now.
LEMMA TakesReadsPacks ==
  ASSUME TypeOK, FramingInv, NEW t \in Sock, NEW r, NEW base, Takes(t, r, base)
  PROVE  ReadsPacks(r)
<1>1. ReadsPacks(rcv[t]) /\ rcv[t] \in RecvState
  BY DEF FramingInv, TypeOK
<1>2. inq[t] # <<>> => Head(inq[t]) \in FramedDatagram
  BY DequeueType DEF FramingInv
<1> QED
  BY <1>1, <1>2, LoadReadsPacks DEF Takes

\* The next datagram is taken, or none is.
LEMMA LineTakes ==
  ASSUME TypeOK, FramingInv, NEW t \in Sock, NEW r, NEW base, Takes(t, r, base),
         NEW p \in Sock, NEW c \in Counts, NEW lim \in Nat,
         Line(inq[t], delivered[t], rcv[t], p, c, lim)
  PROVE  Line(base, delivered[t], r, p, c, lim)
<1>1. CASE r = rcv[t] /\ base = inq[t]
  BY <1>1
<1>2. CASE /\ rcv[t].nrd = 0 /\ inq[t] # <<>>
           /\ r = Load(rcv[t], Head(inq[t])) /\ base = Tail(inq[t])
  <2>1. /\ delivered[t] \in Seq(Handed) /\ rcv[t] \in RecvState
        /\ inq[t] \in Seq(FramedDatagram)
    BY DEF TypeOK, FramingInv
  <2> QED
    BY <1>2, <2>1, LineLoads
<1> QED
  BY <1>1, <1>2 DEF Takes

\* A pack is handed out, or the packet is left off, or neither.
LEMMA LineReads ==
  ASSUME NEW t \in Sock, NEW r \in RecvState, ReadsPacks(r),
         delivered[t] \in Seq(Handed), rcv'[t] \in RecvState,
         delivered'[t] \in Seq(Handed), HandsOut(t, r) \/ LeavesOff(t, r),
         NEW p \in Sock, NEW c \in Counts, NEW lim \in Nat,
         NEW base, Line(base, delivered[t], r, p, c, lim)
  PROVE  Line(base, delivered'[t], rcv'[t], p, c, lim)
<1>1. CASE HandsOut(t, r)
  <2> DEFINE x == r.buf[r.nck]
             m == [src |-> r.src, seq |-> x.seq, svc |-> r.cmd, len |-> x.len,
                   pno |-> r.pno, nr |-> r.nr]
             f == [r EXCEPT !.nck = @ + PackSize(x.len)]
  <2>1. /\ r.nck < r.nrd /\ x.tag = "data" /\ rcv'[t] = f
        /\ delivered'[t] = Append(delivered[t], m)
    BY <1>1 DEF HandsOut
  <2>2. x \in Cell
    <3>1. r.nck \in Nat /\ r.nrd \in 0 .. Cap /\ r.buf \in Buffer
      BY DEF RecvState
    <3>2. r.nck \in Offs
      BY <2>1, <3>1, SMTT(30) DEF Offs
    <3> QED
      BY <3>1, <3>2 DEF Buffer
  <2>3. m \in Handed
    BY <2>2 DEF Handed, RecvState, Cell
  <2>4. /\ m.src = r.src /\ m.seq = x.seq /\ m.pno = r.pno /\ m.nr = r.nr
        /\ f.nck = r.nck + PackSize(x.len) /\ f.nrd = r.nrd
        /\ f.src = r.src /\ f.nr = r.nr /\ f.pno = r.pno /\ f.buf = r.buf
    BY DEF RecvState
  <2>5. f \in RecvState
    BY <2>1
  <2> HIDE DEF m, f
  <2>6. Line(base, Append(delivered[t], m), f, p, c, lim)
    BY <2>1, <2>2, <2>3, <2>4, <2>5, LineHands
  <2> QED
    BY <2>1, <2>6
<1>2. CASE rcv'[t] = r /\ delivered'[t] = delivered[t]
  BY <1>2
<1>3. CASE rcv'[t] = Dropped(r) /\ Over(r) /\ delivered'[t] = delivered[t]
  <2>1. "dscrd" \in Calls \/ r.nck >= r.nrd \/ r.src # p
    <3>1. SUFFICES ASSUME r.src = p, r.nck < r.nrd, r.buf[r.nck].tag # "data"
                   PROVE  FALSE
      BY <1>3 DEF Over, RecvState
    <3>2. r.src # Foreign
      BY <3>1
    <3> QED
      BY <3>1, <3>2 DEF ReadsPacks
  <2> QED
    BY <1>3, <2>1, LineDrops
<1> QED
  BY <1>1, <1>2, <1>3 DEF LeavesOff

\* Every step keeps every line.
LEMMA NextLine ==
  ASSUME TypeOK, TypeOK', NoPackLost, FramingInv, [Next]_vars,
         Faults \cap {"dup", "reorder"} = {},
         NEW p \in Sock, NEW c \in Counts, Flow(p, c),
         NEW e \in Counts, NEW max \in Nat, Goes(p, c, e, max), NEW t \in Sock
  PROVE  Line(inq'[t], delivered'[t], rcv'[t], p, e, snd'[p].pno)
<1> DEFINE n == snd[p].pno
           del == delivered'[t]
           f == rcv'[t]
           K == Coming(del, f, p, e, snd'[p].pno)
<1>0. /\ n \in Nat /\ snd'[p].pno \in Nat /\ n <= snd'[p].pno
      /\ del \in Seq(Handed) /\ f \in RecvState /\ delivered[t] \in Seq(Handed)
      /\ \A i \in Nat : i <= n => e[i] = c[i]
  BY DEF TypeOK, SendState, Goes
<1>1. PICK u \in Sock, ds \in Seq(Datagram), r \in RecvState, base \in Seq(Datagram) :
        /\ Sends(u, ds)
        /\ Takes(t, r, base)
        /\ Gets(t, base, ds)
        /\ HandsOut(t, r) \/ LeavesOff(t, r)
  BY NextMoves DEF Moves
<1>2. Line(base, delivered[t], r, p, c, n)
  BY <1>0, <1>1, LineTakes DEF Flow
<1>3. Line(base, del, f, p, c, n)
  BY <1>0, <1>1, <1>2, TakesReadsPacks, LineReads
<1> HIDE DEF n, del, f, K
<1>4. \A i \in 1 .. Len(base) : base[i].src = p => base[i].nr < n
  <2>1. base \in Seq(Coming(del, f, p, c, n))
    BY <1>3 DEF Line
  <2>2. \A i \in 1 .. Len(base) : base[i] \in Coming(del, f, p, c, n)
    BY <2>1, ElementOfSeq
  <2> QED
    BY <2>2 DEF Coming, Placed
<1>5. Line(base, del, f, p, e, snd'[p].pno)
  <2> DEFINE m == snd'[p].pno
  <2>1. m \in Nat /\ n <= m
    BY <1>0
  <2> HIDE DEF m
  <2>2. Line(base, del, f, p, e, m)
    BY <1>0, <1>3, <2>1, LineGrows
  <2> QED
    BY <2>2 DEF m
<1>6. /\ ds \in Seq(K) /\ Rising(ds, p)
      /\ \A j \in 1 .. Len(ds) : ds[j].src = p => n <= ds[j].nr
  <2>1. Records(del, p, c, n) /\ AtRead(del, f, p, c, n)
    BY <1>3 DEF Line
  <2> QED
    BY <1>0, <1>1, <2>1, SendsComing DEF n, K
<1>7. ASSUME NEW i \in 1 .. Len(base), NEW j \in 1 .. Len(ds),
             base[i].src = p, ds[j].src = p
      PROVE  base[i].nr < ds[j].nr
  <2>1. base[i] \in Datagram /\ ds[j] \in Datagram
    BY ElementOfSeq
  <2>2. base[i].nr \in Nat /\ ds[j].nr \in Nat
    BY <2>1 DEF Datagram
  <2>3. base[i].nr < n /\ n <= ds[j].nr /\ n \in Nat
    BY <1>0, <1>4, <1>6, <1>7
  <2> QED
    BY <2>2, <2>3
<1>8. Line(inq'[t], del, f, p, e, snd'[p].pno)
  BY <1>0, <1>1, <1>5, <1>6, <1>7, LineGets DEF K
<1> QED
  BY <1>8 DEF del, f

\* The send buffer holds what is packed since.
LEMMA NextNumbered ==
  ASSUME TypeOK, NoPackLost, NoPackLost', FramingInv, [Next]_vars,
         NEW p \in Sock, NEW c \in Counts, Flow(p, c),
         NEW e \in Counts, NEW max \in Nat, Goes(p, c, e, max)
  PROVE  Numbered(snd'[p].buf, snd'[p].npk, e[snd'[p].pno], Len(accepted'[p]))
<1> DEFINE n == c[snd[p].pno]
           k == e[snd'[p].pno]
           len == Len(accepted[p])
<1>1. /\ n \in Nat /\ k \in Nat /\ len \in Nat
      /\ left[p] = 1 .. n /\ left'[p] = 1 .. k
      /\ left[p] \cup Packs(snd[p]) = 1 .. len
      /\ Numbered(snd[p].buf, snd[p].npk, n, len)
  <2>1. snd[p].pno \in Nat /\ snd'[p].pno \in Nat /\ accepted[p] \in Seq(Message)
    BY DEF TypeOK, SendState, Goes
  <2>2. n \in Nat /\ k \in Nat
    BY <2>1, CountType
  <2>3. len \in Nat
    BY <2>1, LenProperties
  <2> QED
    BY <2>2, <2>3 DEF Flow, Goes, NoPackLost
<1> HIDE DEF n, k, len
<1>2. n <= len
  <2>1. 1 .. n \subseteq 1 .. len
    BY <1>1
  <2> QED
    BY <1>1, <2>1, IntervalGrows
<1>3. left'[p] = left[p] => k = n
  BY <1>1, IntervalEnd
<1>4. left'[p] = left[p] \cup Packs(snd[p]) => k = len
  BY <1>1, IntervalEnd
<1>5. CASE Untouched(p)
  BY <1>1, <1>3, <1>5 DEF Untouched, k, len
<1>6. CASE Emptied(p)
  <2>1. k = len /\ snd'[p].npk = 0 /\ accepted'[p] = accepted[p]
    BY <1>4, <1>6 DEF Emptied
  <2>2. \A b : Numbered(b, 0, len, len)
    BY DEF Numbered, Offs
  <2> QED
    BY <2>1, <2>2 DEF k, len
<1>7. ASSUME NEW svc \in Svcs, NEW dlen \in DLens, Packed(p, svc, dlen)
      PROVE  Numbered(snd'[p].buf, snd'[p].npk, k, Len(accepted'[p]))
  <2> DEFINE z == WireLen(dlen)
             x == DataCell(z, p, len + 1)
  <2>1. x \in Cell /\ x.tag = "data" /\ x.len = z /\ x.seq = len + 1
    <3>0. z \in Byte
      BY WireLenType
    <3>1. z \in Byte /\ len + 1 \in Nat
      BY <1>1, <3>0
    <3>2. x \in Cell
      BY <3>1, DataCellType
    <3> HIDE DEF z
    <3> QED
      BY <3>2 DEF DataCell
  <2>2. PICK f \in SendState :
          /\ \/ f = snd[p] /\ left'[p] = left[p]
             \/ f.npk = 0 /\ left'[p] = left[p] \cup Packs(snd[p])
          /\ f.npk + PackSize(z) <= Cap
          /\ snd'[p].npk = f.npk + PackSize(z)
          /\ snd'[p].buf = PutPack(f.buf, f.npk, x)
          /\ accepted'[p] = Append(accepted[p], [svc |-> svc, dlen |-> dlen])
    BY <1>7 DEF Packed, len
  <2>3. Framed(f.buf, f.npk)
    BY <2>2, FramedEmpty DEF FramingInv
  <2>4. f.buf \in Buffer /\ f.npk \in Nat
    BY DEF SendState
  <2> HIDE DEF x, z
  <2>5. k <= len /\ Numbered(f.buf, f.npk, k, len)
    <3>1. CASE f = snd[p] /\ left'[p] = left[p]
      BY <1>1, <1>2, <1>3, <3>1
    <3>2. CASE f.npk = 0 /\ left'[p] = left[p] \cup Packs(snd[p])
      <4>1. \A b : Numbered(b, 0, len, len)
        BY DEF Numbered, Offs
      <4> QED
        BY <1>1, <1>4, <3>2, <4>1
    <3> QED
      BY <2>2, <3>1, <3>2
  <2>6. Len(accepted'[p]) = len + 1
    BY <2>2, AppendProperties DEF TypeOK, Message, len
  <2>7. Numbered(PutPack(f.buf, f.npk, x), f.npk + PackSize(x.len), k, len + 1)
    BY <1>1, <2>1, <2>2, <2>3, <2>4, <2>5, NumberedPack
  <2> QED
    BY <2>1, <2>2, <2>6, <2>7
<1> QED
  BY <1>5, <1>6, <1>7, NextSnd DEF k

\* Every step keeps the flow.
LEMMA NextFlow ==
  ASSUME TypeOK, TypeOK', NoPackLost, NoPackLost', FramingInv, FlowInv, [Next]_vars,
         Faults \cap {"dup", "reorder"} = {}
  PROVE  FlowInv'
<1> SUFFICES ASSUME NEW p \in Sock PROVE \E e \in Counts : Flow(p, e)'
  BY DEF FlowInv
<1>1. PICK c \in Counts : Flow(p, c)
  BY DEF FlowInv
<1>2. left[p] = 1 .. c[snd[p].pno]
  BY <1>1 DEF Flow
<1>3. PICK e \in Counts, max \in Nat : Goes(p, c, e, max)
  BY <1>2, NextGoes
<1>4. \A t \in Sock : Line(inq'[t], delivered'[t], rcv'[t], p, e, snd'[p].pno)
  BY <1>1, <1>3, NextLine
<1>5. Numbered(snd'[p].buf, snd'[p].npk, e[snd'[p].pno], Len(accepted'[p]))
  BY <1>1, <1>3, NextNumbered
<1>6. left'[p] = 1 .. e[snd'[p].pno]
  BY <1>3 DEF Goes
<1> QED
  BY <1>4, <1>5, <1>6 DEF Flow

\* It holds at the start.
LEMMA InitFlow == Init => FlowInv
<1> SUFFICES ASSUME Init, NEW p \in Sock PROVE \E c \in Counts : Flow(p, c)
  BY DEF FlowInv
<1> DEFINE c == [n \in Nat |-> 0]
<1>1. c \in Counts /\ \A n \in Nat : c[n] = 0
  BY DEF Counts
<1> HIDE DEF c
<1>2. /\ snd[p].npk = 0 /\ snd[p].pno = 0 /\ left[p] = {} /\ accepted[p] = <<>>
      /\ \A t \in Sock : inq[t] = <<>> /\ delivered[t] = <<>> /\ rcv[t].nrd = 0
  BY DEF Init
<1>3. left[p] = 1 .. c[snd[p].pno]
  BY <1>1, <1>2
<1>4. Numbered(snd[p].buf, snd[p].npk, c[snd[p].pno], Len(accepted[p]))
  <2>1. Len(accepted[p]) = 0 /\ c[snd[p].pno] = 0
    BY <1>1, <1>2
  <2> QED
    BY <1>2, <2>1 DEF Numbered, Offs
<1>5. ASSUME NEW t \in Sock
      PROVE  Line(inq[t], delivered[t], rcv[t], p, c, snd[p].pno)
  <2> DEFINE K == Coming(delivered[t], rcv[t], p, c, snd[p].pno)
  <2>1. inq[t] \in Seq(K) /\ Len(inq[t]) = 0 /\ Len(delivered[t]) = 0
    <3> HIDE DEF K
    <3> QED
      BY <1>2, EmptySeq
  <2>2. Rising(inq[t], p) /\ Of(delivered[t], p) = {}
    BY <2>1 DEF Rising, Of
  <2> QED
    BY <1>2, <2>1, <2>2 DEF Line, AtRead, Records, Whole
<1> QED
  BY <1>1, <1>3, <1>4, <1>5 DEF Flow

-----------------------------------------------------------------------------
(* Strangers.  What they send holds no message.                            *)

Bare(b, n) == \A o \in Offs : o < n => b[o].tag # "data"

BareDatagrams == {d \in Datagram : d.src = Foreign => Bare(d.buf, d.len)}

BareInv ==
  /\ inq \in [Sock -> Seq(BareDatagrams)]
  /\ \A t \in Sock : rcv[t].src = Foreign => Bare(rcv[t].buf, rcv[t].nrd)

\* What the sockets send is not a stranger's.
LEMMA BareCarries == TypeOK /\ BareInv => Carries(BareDatagrams)
<1> SUFFICES ASSUME TypeOK, BareInv PROVE Carries(BareDatagrams)
  OBVIOUS
<1>1. \A s \in Sock : DataPacket(s, snd[s]) \in BareDatagrams
  <2>1. \A s \in Sock : DataPacket(s, snd[s]).src = s
    BY DEF DataPacket
  <2> QED
    BY <2>1, DataPacketType DEF TypeOK, BareDatagrams
<1>2. ASSUME NEW s \in Sock, NEW q \in SendState, NEW cmd \in {PING, PONG}
      PROVE  CtrlPacket(s, q, cmd) \in BareDatagrams
  <2>1. CtrlPacket(s, q, cmd).src = s
    BY DEF CtrlPacket
  <2>2. CtrlPacket(s, q, cmd) \in Datagram
    BY CtrlPacketType, CtrlSvcs
  <2> QED
    BY <2>1, <2>2 DEF BareDatagrams
<1>3. ForeignPackets \subseteq BareDatagrams
  <2>1. \A d \in ForeignPackets : \A o \in Offs : d.buf[o].tag = "other"
    BY DEF ForeignPackets, ForeignPacket, BlankBuffer, Blank
  <2> QED
    BY <2>1, ForeignType DEF BareDatagrams, Bare
<1> QED
  BY <1>1, <1>2, <1>3 DEF Carries, BareInv

\* So what is read of a stranger's holds no message either.
LEMMA ReadBare ==
  ASSUME TypeOK, BareInv, NEW t \in Sock, NEW r \in RecvState, Read(t, r),
         r.src = Foreign
  PROVE  Bare(r.buf, r.nrd)
<1>1. CASE r = rcv[t]
  BY <1>1 DEF BareInv
<1>2. CASE rcv[t].nrd = 0 /\ inq[t] # <<>> /\ r = Load(rcv[t], Head(inq[t]))
  <2> DEFINE d == Head(inq[t])
  <2>1. d \in BareDatagrams
    BY <1>2, DequeueType DEF BareInv
  <2> HIDE DEF d
  <2>2. r = Load(rcv[t], d)
    BY <1>2 DEF d
  <2>3. CASE d.good
    <3>1. r.nrd = d.len /\ r.src = d.src
      BY <2>2, <2>3 DEF Load
    <3>2. \A o \in Offs : o < d.len => r.buf[o] = d.buf[o]
      BY <2>2 DEF Load, Overlay
    <3> QED
      BY <2>1, <3>1, <3>2 DEF BareDatagrams, Bare
  <2>4. CASE ~ d.good
    <3>1. r.nrd = 0
      BY <1>2, <2>2, <2>4 DEF Load
    <3> QED
      BY <3>1 DEF Bare, Offs
  <2> QED
    BY <2>3, <2>4
<1> QED
  BY <1>1, <1>2 DEF Read

\* Every step keeps that.
LEMMA NextBare == TypeOK /\ BareInv /\ [Next]_vars => BareInv'
<1> SUFFICES ASSUME TypeOK, BareInv, [Next]_vars PROVE BareInv'
  OBVIOUS
<1>1. inq' \in [Sock -> Seq(BareDatagrams)]
  BY BareCarries, NextQueues
<1>2. ASSUME NEW t \in Sock, rcv'[t].src = Foreign
      PROVE  Bare(rcv'[t].buf, rcv'[t].nrd)
  <2>1. PICK r \in RecvState : Read(t, r) /\ (HandsOut(t, r) \/ LeavesOff(t, r))
    BY NextRcv
  <2>2. r.src = Foreign => Bare(r.buf, r.nrd)
    BY <2>1, ReadBare
  <2>3. \/ rcv'[t].nrd = 0
        \/ /\ rcv'[t].nrd = r.nrd /\ rcv'[t].src = r.src /\ rcv'[t].buf = r.buf
    BY <2>1, DroppedType DEF HandsOut, LeavesOff, RecvState
  <2>4. \A b : Bare(b, 0)
    BY DEF Bare, Offs
  <2> QED
    BY <1>2, <2>2, <2>3, <2>4
<1> QED
  BY <1>1, <1>2 DEF BareInv

\* No stranger has sent anything at the start.
LEMMA InitBare == Init => BareInv
<1> SUFFICES ASSUME Init PROVE BareInv
  OBVIOUS
<1>1. inq \in [Sock -> Seq(BareDatagrams)]
  BY DEF Init
<1>2. \A t \in Sock : rcv[t].nrd = 0
  BY DEF Init
<1> QED
  BY <1>1, <1>2 DEF BareInv, Bare, Offs

-----------------------------------------------------------------------------
(* The refinement of PubSub *)

\* A flush by s, or nothing
Departs(s) ==
  \/ left' = [left EXCEPT ![s] = 1 .. Len(accepted[s])]
  \/ left' = left

LEMMA FlushDeparts ==
  ASSUME TypeOK, NoPackLost, NEW s \in Sock, NEW ok \in BOOLEAN,
         left' = [left EXCEPT ![s] = @ \cup FlushSeqs(snd[s], ok)]
  PROVE  Departs(s)
<1>1. left \in [Sock -> SUBSET Nat] /\ left[s] \cup Packs(snd[s]) = 1 .. Len(accepted[s])
  BY DEF TypeOK, NoPackLost
<1>2. FlushSeqs(snd[s], ok) = {} \/ FlushSeqs(snd[s], ok) = Packs(snd[s])
  BY FlushCases DEF TypeOK
<1>3. CASE FlushSeqs(snd[s], ok) = {}
  <2>1. left' = [left EXCEPT ![s] = left[s]]
    BY <1>3
  <2>2. left' = left
    BY <1>1, <2>1
  <2> QED
    BY <2>2 DEF Departs
<1>4. CASE FlushSeqs(snd[s], ok) = Packs(snd[s])
  <2>1. left' = [left EXCEPT ![s] = 1 .. Len(accepted[s])]
    BY <1>1, <1>4
  <2> QED
    BY <2>1 DEF Departs
<1> QED
  BY <1>2, <1>3, <1>4

\* Messages are read in the order they were packed in, of what has left.
LEMMA ReadInOrder ==
  ASSUME TypeOK, FramingInv, FlowInv, NEW t \in Sock, NEW r \in RecvState,
         NEW base, Takes(t, r, base), r.nck < r.nrd, r.buf[r.nck].tag = "data",
         r.buf[r.nck].seq > 0, r.src \in Sock
  PROVE  /\ r.buf[r.nck].seq \in left[r.src]
         /\ \A k \in DOMAIN delivered[t] :
              delivered[t][k].src = r.src => delivered[t][k].seq < r.buf[r.nck].seq
<1> DEFINE p == r.src
           x == r.buf[r.nck]
           n == snd[p].pno
           del == delivered[t]
           m == [src |-> r.src, seq |-> x.seq, svc |-> r.cmd, len |-> x.len,
                 pno |-> r.pno, nr |-> r.nr]
           f == [r EXCEPT !.nck = @ + PackSize(x.len)]
           dl == Append(del, m)
<1>1. PICK c \in Counts : Flow(p, c)
  BY DEF FlowInv
<1>2. /\ n \in Nat /\ del \in Seq(Handed) /\ Len(del) \in Nat
      /\ DOMAIN del = 1 .. Len(del)
  BY LenProperties DEF TypeOK, SendState
<1>3. x \in Cell /\ x.seq \in Nat /\ r.nck \in Nat
  <2>1. r.nck \in Nat /\ r.nrd \in 0 .. Cap /\ r.buf \in Buffer
    BY DEF RecvState
  <2>2. r.nck \in Offs
    BY <2>1 DEF Offs
  <2> QED
    BY <2>1, <2>2 DEF Buffer, Cell
<1>4. m \in Handed
  BY <1>3 DEF Handed, RecvState, Cell
<1>5. f \in RecvState
  <2>1. r.nck + PackSize(x.len) \in Nat
    BY <1>3 DEF PackSize, Cell, Byte
  <2> QED
    BY <2>1 DEF RecvState
<1>6. Line(base, del, r, p, c, n)
  BY <1>1, <1>2, LineTakes DEF Flow
<1>7. /\ m.src = r.src /\ m.seq = x.seq /\ m.pno = r.pno /\ m.nr = r.nr
      /\ f.nck = r.nck + PackSize(x.len) /\ f.nrd = r.nrd
      /\ f.src = r.src /\ f.nr = r.nr /\ f.pno = r.pno /\ f.buf = r.buf
  BY DEF RecvState
<1>8. ReadsPacks(r)
  BY TakesReadsPacks
<1>9. x.tag = "data" /\ x.seq > 0
  OBVIOUS
<1> HIDE DEF m, f, x, n, del, dl
<1>10. Line(base, dl, f, p, c, n)
  BY <1>2, <1>3, <1>4, <1>5, <1>6, <1>7, <1>8, <1>9, LineHands DEF dl, x
<1>11. Records(dl, p, c, n)
  BY <1>10 DEF Line
<1>12. /\ Len(dl) = Len(del) + 1 /\ dl[Len(del) + 1] = m
       /\ \A k \in 1 .. Len(del) : dl[k] = del[k]
  BY <1>2, <1>4, AppendProperties DEF dl
<1>13. Len(del) + 1 \in Of(dl, p)
  BY <1>2, <1>7, <1>12 DEF Of
<1>14. m.nr < n /\ m.seq <= c[m.nr + 1]
  BY <1>7, <1>9, <1>11, <1>12, <1>13 DEF Records
<1>15. x.seq \in left[p]
  <2>1. m.nr \in Nat
    BY <1>4 DEF Handed
  <2>2. m.nr + 1 \in Nat /\ m.nr + 1 <= n
    BY <1>2, <1>14, <2>1
  <2>3. c[m.nr + 1] <= c[n] /\ c[m.nr + 1] \in Nat /\ c[n] \in Nat
    BY <1>2, <2>2, CountType DEF Counts
  <2>4. m.seq \in 1 .. c[n]
    BY <1>3, <1>7, <1>9, <1>14, <2>3
  <2> QED
    BY <1>1, <1>7, <2>4 DEF Flow, n
<1>16. ASSUME NEW k \in 1 .. Len(del), del[k].src = p PROVE del[k].seq < x.seq
  <2>1. k \in Of(dl, p) /\ k < Len(del) + 1 /\ dl[k] = del[k]
    BY <1>2, <1>12, <1>16 DEF Of
  <2>2. del[k].seq > 0 => del[k].seq < x.seq
    BY <1>7, <1>9, <1>11, <1>12, <1>13, <2>1 DEF Records
  <2>3. del[k].seq \in Nat
    <3>1. del[k] \in Handed
      BY <1>2, ElementOfSeq
    <3> QED
      BY <3>1 DEF Handed
  <2> QED
    BY <1>3, <1>9, <2>2, <2>3
<1> QED
  BY <1>2, <1>15, <1>16 DEF del, x

\* What was handed out, as PubSub has it
Passed(del) == [k \in DOMAIN del |-> AsHanded(del[k])]

LEMMA PassedEmpty == Passed(<<>>) = <<>>
<1> DEFINE e == Passed(<<>>)
           S == {AsHanded(h) : h \in Handed}
<1>1. DOMAIN <<>> = 1 .. 0
  OBVIOUS
<1>2. e \in [1 .. 0 -> S] /\ 0 \in Nat
  BY <1>1 DEF Passed
<1> HIDE DEF e, S
<1>3. e \in Seq(S) /\ Len(e) = 0
  BY <1>2
<1> QED
  BY <1>3, EmptySeq DEF e

LEMMA PassedAppend ==
  ASSUME NEW del \in Seq(Handed), NEW m \in Handed
  PROVE  Passed(Append(del, m)) = Append(Passed(del), AsHanded(m))
<1> DEFINE S == {AsHanded(h) : h \in Handed}
           n == Len(del)
           a == Passed(Append(del, m))
           b == Append(Passed(del), AsHanded(m))
<1>1. /\ n \in Nat /\ DOMAIN del = 1 .. n /\ \A k \in 1 .. n : del[k] \in Handed
      /\ Append(del, m) \in Seq(Handed) /\ Len(Append(del, m)) = n + 1
      /\ \A k \in 1 .. n : Append(del, m)[k] = del[k]
      /\ Append(del, m)[n + 1] = m
  BY LenProperties, ElementOfSeq, AppendProperties
<1>2. DOMAIN Append(del, m) = 1 .. n + 1
  BY <1>1, LenProperties
<1>3. Passed(del) \in Seq(S) /\ Len(Passed(del)) = n
  <2>1. Passed(del) \in [1 .. n -> S]
    BY <1>1 DEF Passed
  <2> QED
    BY <1>1, <2>1
<1> HIDE DEF n, S
<1>4. AsHanded(m) \in S
  BY DEF S
<1>5. /\ b \in Seq(S) /\ Len(b) = n + 1
      /\ \A k \in 1 .. n : b[k] = Passed(del)[k]
      /\ b[n + 1] = AsHanded(m)
  BY <1>3, <1>4, AppendProperties
<1> HIDE DEF b
<1>6. \A k \in 1 .. n + 1 : b[k] = AsHanded(Append(del, m)[k])
  <2>1. \A k \in 1 .. n : b[k] = AsHanded(del[k])
    BY <1>1, <1>5 DEF Passed
  <2> QED
    BY <1>1, <1>5, <2>1
<1>7. a = [k \in 1 .. n + 1 |-> AsHanded(Append(del, m)[k])]
  BY <1>2 DEF Passed
<1>8. b \in [1 .. n + 1 -> S]
  BY <1>1, <1>5, LenProperties
<1> HIDE DEF a
<1>9. b = [k \in 1 .. n + 1 |-> b[k]]
  BY <1>8
<1> QED
  BY <1>6, <1>7, <1>9 DEF a, b

AllPassed == [t \in Sock |-> Passed(delivered[t])]

\* A step that hands nothing out
LEMMA QuietImplements ==
  ASSUME NEW s \in Sock, Departs(s), UNCHANGED <<accepted, delivered>>
  PROVE  [Abs!Next]_(Abs!vars)
<1>1. AllPassed' = AllPassed
  BY DEF AllPassed
<1>2. CASE left' = left
  BY <1>1, <1>2 DEF Abs!vars, AllPassed, Passed
<1>3. CASE left' = [left EXCEPT ![s] = 1 .. Len(accepted[s])]
  <2>1. Abs!Transmit(s)
    BY <1>1, <1>3 DEF Abs!Transmit, Abs!FlushAll, AllPassed, Passed
  <2> QED
    BY <2>1 DEF Abs!Next
<1> QED
  BY <1>2, <1>3 DEF Departs

\* ud_pack_msg()
LEMMA PackMsgImplements ==
  ASSUME TypeOK, NoPackLost, NEW s \in Pubs, NEW svc \in Svcs, NEW dlen \in DLens,
         NEW ok \in SendtoOK, PackMsg(s, svc, dlen, ok)
  PROVE  [Abs!Next]_(Abs!vars)
<1> DEFINE m == [svc |-> svc, dlen |-> dlen]
<1>0. s \in Sock /\ ok \in BOOLEAN /\ m \in Message
  BY SendtoType DEF Message
<1>1. /\ accepted' = [accepted EXCEPT ![s] = Append(@, m)]
      /\ UNCHANGED delivered
      /\ \/ left' = [left EXCEPT ![s] = @ \cup FlushSeqs(snd[s], ok)]
         \/ left' = left
  BY DEF PackMsg
<1> HIDE DEF m
<1>2. Departs(s)
  BY <1>0, <1>1, FlushDeparts DEF Departs
<1>3. AllPassed' = AllPassed
  BY <1>1 DEF AllPassed
<1>4. Abs!Accept(s, m)
  BY <1>1, <1>2, <1>3 DEF Abs!Accept, Abs!FlushAll, Departs, AllPassed, Passed
<1> QED
  BY <1>0, <1>4 DEF Abs!Next

\* ud_pack_ping() by itself
LEMMA PackPingDeparts ==
  ASSUME TypeOK, NoPackLost, NEW s \in Sock, NEW cmd, NEW queues,
         NEW fok \in BOOLEAN, NEW cok, PackPing(s, cmd, queues, fok, cok)
  PROVE  Departs(s)
BY FlushDeparts DEF PackPing

\* Looking at a pack.  A packet with a publisher's message is no PING: its
\* service is one the message was packed for.
LEMMA ParseImplements ==
  ASSUME TypeOK, NoPackLost, FramingInv, OriginInv, BareInv, FlowInv,
         NEW t \in Sock, NEW r \in RecvState, NEW base, Takes(t, r, base),
         r.nck < r.nrd, NEW queues, NEW fok \in BOOLEAN, NEW cok,
         Parse(t, r, queues, fok, cok), UNCHANGED accepted
  PROVE  [Abs!Next]_(Abs!vars)
<1> DEFINE x == r.buf[r.nck]
           m == [src |-> r.src, seq |-> x.seq, svc |-> r.cmd, len |-> x.len,
                 pno |-> r.pno, nr |-> r.nr]
<1>1. Departs(t)
  BY PackPingDeparts DEF Parse, Departs
<1>2. CASE x.tag # "data"
  <2>1. UNCHANGED delivered
    BY <1>2 DEF Parse
  <2> QED
    BY <1>1, <2>1, QuietImplements
<1>3. CASE x.tag = "data"
  <2>1. delivered' = [delivered EXCEPT ![t] = Append(@, m)]
    BY <1>3 DEF Parse, Aux
  <2>2. Read(t, r) /\ r.nck \in Offs
    <3>1. r.nck \in Nat /\ r.nrd \in 0 .. Cap
      BY DEF RecvState
    <3> QED
      BY <3>1 DEF Takes, Read, Offs
  <2>3. x \in Cell /\ x.seq \in Nat
    BY <2>2 DEF RecvState, Buffer, Cell
  <2>4. m \in Handed
    BY <2>3 DEF Handed, RecvState, Cell
  <2>5. r.src \in Sock
    <3>1. r.src # Foreign
      BY <1>3, <2>2, ReadBare DEF Bare
    <3> QED
      BY <3>1 DEF RecvState
  <2>6. Truthful(accepted, r.src, r.cmd, x)
    BY <2>2, ReadTruthful
  <2>7. AllPassed' = [AllPassed EXCEPT ![t] = Append(@, AsHanded(m))]
    <3>1. delivered \in [Sock -> Seq(Handed)]
      BY DEF TypeOK
    <3> HIDE DEF m
    <3>2. Passed(Append(delivered[t], m)) = Append(Passed(delivered[t]), AsHanded(m))
      BY <2>4, <3>1, PassedAppend
    <3> QED
      BY <2>1, <3>1, <3>2 DEF AllPassed
  <2>8. CASE x.seq > 0
    <3>1. /\ x.seq \in left[r.src]
          /\ \A k \in DOMAIN delivered[t] :
               delivered[t][k].src = r.src => delivered[t][k].seq < x.seq
      BY <1>3, <2>5, <2>8, ReadInOrder
    <3>2. /\ x.seq \in 1 .. Len(accepted[r.src])
          /\ accepted[r.src][x.seq].svc = r.cmd /\ accepted[r.src][x.seq].dlen = x.len
      BY <1>3, <2>6, <2>8 DEF Truthful
    <3>3. accepted[r.src][x.seq] \in Message
      BY <2>5, <3>2, ElementOfSeq DEF TypeOK
    <3>4. r.cmd \in Svcs /\ accepted[r.src][x.seq] = [svc |-> r.cmd, dlen |-> x.len]
      BY <3>2, <3>3 DEF Message
    <3>5. left' = left
      <4>1. ~ IsCtrl(r.cmd)
        BY <3>4 DEF UserSvc
      <4> QED
        BY <4>1 DEF Parse, WantsPong, Aux
    <3>6. AsHanded(m) = [src |-> r.src, seq |-> x.seq, msg |-> accepted[r.src][x.seq]]
      <4>1. m.src = r.src /\ m.seq = x.seq /\ m.svc = r.cmd /\ m.len = x.len
        OBVIOUS
      <4>2. x.seq # 0
        BY <2>3, <2>8
      <4> HIDE DEF m, x
      <4> QED
        BY <3>4, <4>1, <4>2 DEF AsHanded
    <3>7. \A k \in DOMAIN AllPassed[t] :
            AllPassed[t][k].src = r.src => AllPassed[t][k].seq < x.seq
      BY <3>1 DEF AllPassed, Passed, AsHanded
    <3> HIDE DEF m, x
    <3>8. AllPassed' = [AllPassed EXCEPT ![t] =
            Append(@, [src |-> r.src, seq |-> x.seq, msg |-> accepted[r.src][x.seq]])]
      BY <2>7, <3>6
    <3>9. Abs!Deliver(t, r.src, x.seq)
      BY <3>1, <3>5, <3>7, <3>8 DEF Abs!Deliver, AllPassed, Passed
    <3> QED
      BY <2>5, <3>1, <3>9 DEF Abs!Next
  <2>9. CASE x.seq = 0
    <3>1. AsHanded(m) = [src |-> r.src, seq |-> 0, msg |-> Control]
      BY <2>9 DEF AsHanded
    <3> HIDE DEF m, x
    <3>2. AllPassed' = [AllPassed EXCEPT ![t] =
            Append(@, [src |-> r.src, seq |-> 0, msg |-> Control])]
      BY <2>7, <3>1
    <3>3. Abs!Hear(t, r.src)
      BY <1>1, <3>2 DEF Abs!Hear, Abs!FlushAll, Departs, AllPassed, Passed
    <3> QED
      BY <2>5, <3>3 DEF Abs!Next
  <2> QED
    BY <2>3, <2>8, <2>9
<1> QED
  BY <1>2, <1>3

\* Every step is one of PubSub's, or none.
LEMMA NextImplements ==
  ASSUME TypeOK, NoPackLost, FramingInv, OriginInv, BareInv, FlowInv, [Next]_vars
  PROVE  [Abs!Next]_(Abs!vars)
<1>1. ASSUME NEW s \in Pubs, NEW svc \in Svcs, NEW dlen \in DLens,
             NEW ok \in SendtoOK, PackMsg(s, svc, dlen, ok)
      PROVE  [Abs!Next]_(Abs!vars)
  BY <1>1, PackMsgImplements
<1>2. ASSUME NEW s \in Pubs, NEW ok \in SendtoOK, Flush(s, ok)
      PROVE  [Abs!Next]_(Abs!vars)
  <2>1. s \in Sock /\ ok \in BOOLEAN
    BY SendtoType
  <2>2. /\ left' = [left EXCEPT ![s] = @ \cup FlushSeqs(snd[s], ok)]
        /\ UNCHANGED <<accepted, delivered>>
    BY <1>2 DEF Flush
  <2> QED
    BY <2>1, <2>2, FlushDeparts, QuietImplements
<1>3. ASSUME NEW s \in Pingers, NEW fok \in SendtoOK, NEW cok \in SendtoOK,
             SendPing(s, fok, cok)
      PROVE  [Abs!Next]_(Abs!vars)
  <2>1. s \in Sock /\ fok \in BOOLEAN
    BY SendtoType
  <2>2. PackPing(s, PING, inq, fok, cok) /\ UNCHANGED <<accepted, delivered>>
    BY <1>3 DEF SendPing
  <2> QED
    BY <2>1, <2>2, PackPingDeparts, QuietImplements
<1>4. ASSUME NEW t \in Subs, ChckMsg(t)
      PROVE  [Abs!Next]_(Abs!vars)
  <2>0. t \in Sock /\ inq[t] \in Seq(Datagram) /\ rcv[t] \in RecvState
    BY DEF TypeOK
  <2>1. ASSUME NEW fok \in SendtoOK, NEW cok \in SendtoOK, ChckNext(t, fok, cok)
        PROVE  [Abs!Next]_(Abs!vars)
    <3>1. /\ rcv[t].nck < rcv[t].nrd /\ Parse(t, rcv[t], inq, fok, cok)
          /\ UNCHANGED accepted
      BY <2>1 DEF ChckNext
    <3>2. Takes(t, rcv[t], inq[t]) /\ fok \in BOOLEAN
      BY SendtoType DEF Takes
    <3> QED
      BY <2>0, <3>1, <3>2, ParseImplements
  <2>2. ASSUME NEW fok \in SendtoOK, NEW cok \in SendtoOK, ChckFresh(t, fok, cok)
        PROVE  [Abs!Next]_(Abs!vars)
    <3> DEFINE r == Load(rcv[t], Head(inq[t]))
               queues == [inq EXCEPT ![t] = Tail(@)]
    <3>1. /\ rcv[t].nrd = 0 /\ inq[t] # <<>> /\ UNCHANGED accepted
          /\ \/ r.nck < r.nrd /\ Parse(t, r, queues, fok, cok)
             \/ UNCHANGED <<left, delivered>>
      BY <2>2 DEF ChckFresh
    <3>2. Takes(t, r, Tail(inq[t])) /\ fok \in BOOLEAN
      BY <3>1, SendtoType DEF Takes
    <3>3. r \in RecvState
      <4>1. Head(inq[t]) \in Datagram
        BY <2>0, <3>1, HeadTailProperties
      <4> QED
        BY <2>0, <4>1, LoadType
    <3>4. CASE UNCHANGED <<left, delivered>>
      BY <2>0, <3>1, <3>4, QuietImplements DEF Departs
    <3> HIDE DEF r, queues
    <3>5. CASE r.nck < r.nrd /\ Parse(t, r, queues, fok, cok)
      BY <2>0, <3>1, <3>2, <3>3, <3>5, ParseImplements
    <3> QED
      BY <3>1, <3>4, <3>5
  <2>3. CASE ChckEnd(t)
    BY <2>0, <2>3, QuietImplements DEF ChckEnd, Departs
  <2> QED
    BY <1>4, <2>1, <2>2, <2>3 DEF ChckMsg
<1>5. ASSUME NEW t \in Subs, Dscrd(t) \/ Network(t)
      PROVE  [Abs!Next]_(Abs!vars)
  <2>1. t \in Sock /\ UNCHANGED <<left, accepted, delivered>>
    BY <1>5 DEF Dscrd, Network, Lose, Duplicate, Reorder, ForeignSend, Misbehave
  <2> QED
    BY <2>1, QuietImplements DEF Departs
<1>6. CASE UNCHANGED vars
  <2>1. UNCHANGED <<left, accepted, delivered>>
    BY <1>6 DEF vars
  <2> QED
    BY <2>1 DEF Abs!vars
<1> QED
  BY <1>1, <1>2, <1>3, <1>4, <1>5, <1>6 DEF Next, Publish

\* On a network that neither doubles nor overtakes datagrams, the library is
\* the ordered unreliable multicast it promises to be: for applications that
\* keep off service 0 and off messages whose length does not fit the length
\* octet, a subscriber is handed of every publisher a subsequence of what it
\* packed, in order, each message at most once and after it was flushed.
THEOREM PubSubCorrect ==
  ASSUME 0 \notin Svcs, DLens \subseteq Byte,
         Faults \cap {"dup", "reorder"} = {}
  PROVE  Spec => ImplementsPubSub
<1> DEFINE Inv == TypeOK /\ NoPackLost /\ FramingInv /\ OriginInv /\ BareInv /\ FlowInv
<1>1. Init => Inv
  <2> SUFFICES ASSUME Init PROVE Inv
    OBVIOUS
  <2>1. TypeOK /\ FlowInv /\ NoPackLost /\ FramingInv /\ OriginInv
    BY InitType, InitFlow, InitNoPackLost, InitFraming, InitOrigin
  <2>2. BareInv
    BY DEF Init, BareInv, Bare, Offs
  <2> QED
    BY <2>1, <2>2
<1>2. Inv /\ [Next]_vars => Inv'
  <2> SUFFICES ASSUME Inv, [Next]_vars PROVE Inv'
    OBVIOUS
  <2>1. TypeOK'
    BY NextType
  <2>2. NoPackLost'
    BY NextNoPackLost
  <2>3. FramingInv' /\ OriginInv' /\ BareInv'
    BY NextFraming, NextOrigin, NextBare
  <2>4. FlowInv'
    BY <2>1, <2>2, NextFlow
  <2> QED
    BY <2>1, <2>2, <2>3, <2>4
<1>3. Init => Abs!Init
  <2> SUFFICES ASSUME Init PROVE Abs!Init
    OBVIOUS
  <2>1. \A t \in Sock : delivered[t] = <<>>
    BY DEF Init
  <2>2. \A t \in Sock : Passed(delivered[t]) = <<>>
    BY <2>1, PassedEmpty
  <2>3. AllPassed = [t \in Sock |-> <<>>]
    BY <2>2 DEF AllPassed
  <2> QED
    BY <2>3 DEF Init, Abs!Init, AllPassed, Passed
<1>4. Inv /\ [Next]_vars => [Abs!Next]_(Abs!vars)
  BY NextImplements
<1> QED
  BY <1>1, <1>2, <1>3, <1>4, PTL DEF Spec, ImplementsPubSub, Abs!Spec

-----------------------------------------------------------------------------
(* Gaps show *)

\* A set of numbers has a least one.
LEMMA LeastNat ==
  ASSUME NEW T \in SUBSET Nat, T # {}
  PROVE  \E x \in T : \A y \in T : x <= y
<1> DEFINE R == {ss \in Nat \X Nat : ss[1] < ss[2]}
<1>1. IsWellFoundedOn(R, Nat)
  BY NatLessThanWellFounded DEF OpToRel
<1>2. \A x, y \in Nat : <<y, x>> \in R <=> y < x
  OBVIOUS
<1> HIDE DEF R
<1>3. \E x \in T : \A y \in T : ~ (<<y, x>> \in R)
  BY <1>1, WFMin
<1>4. PICK x \in T : \A y \in T : ~ (<<y, x>> \in R)
  BY <1>3
<1>5. ASSUME NEW y \in T PROVE x <= y
  <2>1. x \in Nat /\ y \in Nat /\ ~ (<<y, x>> \in R)
    BY <1>4
  <2>2. ~ (y < x)
    BY <1>2, <2>1
  <2> QED
    BY <2>1, <2>2
<1> QED
  BY <1>5

\* What division leaves over.
LEMMA Remains ==
  ASSUME NEW M \in Nat, M > 0, NEW a \in Nat
  PROVE  a % M \in 0 .. M - 1 /\ \E q \in Nat : a = M * q + (a % M)
<1> DEFINE q == a \div M
           x == a % M
<1>1. x = a - q * M /\ q \in Nat /\ x \in 0 .. M - 1
  OBVIOUS
<1> HIDE DEF q, x
<1>2. a = M * q + x
  BY <1>1
<1> QED
  BY <1>1, <1>2 DEF x

LEMMA Multiple ==
  ASSUME NEW M \in Nat, M > 0, NEW z \in Int, M * z < M, - M < M * z
  PROVE  z = 0
<1>1. CASE z >= 1
  <2>1. M * z >= M
    BY <1>1
  <2> QED
    BY <2>1
<1>2. CASE z <= -1
  <2>1. M * z <= - M
    BY <1>2
  <2> QED
    BY <2>1
<1> QED
  BY <1>1, <1>2

\* Numbers of which less than a cycle is missing, and which modulo M are the
\* same or the next, are the same or the next.
LEMMA NextNumber ==
  ASSUME NEW M \in Nat, M > 0, NEW a \in Nat, NEW b \in Nat, a <= b, b - a < M,
         b % M \in {a % M, ((a % M) + 1) % M}
  PROVE  b = a \/ b = a + 1
<1> DEFINE x == a % M
           y == b % M
<1>1. PICK q \in Nat : a = M * q + x
  BY Remains
<1>2. PICK r \in Nat : b = M * r + y
  BY Remains
<1>3. x \in 0 .. M - 1 /\ y \in 0 .. M - 1
  BY Remains
<1>4. CASE y = (x + 1) % M
  <2>1. x + 1 \in Nat
    BY <1>3
  <2>2. PICK s \in Nat : x + 1 = M * s + y
    BY <1>4, <2>1, Remains
  <2> HIDE DEF x, y
  <2>3. b - (a + 1) = M * (r - q - s)
    BY <1>1, <1>2, <1>3, <2>2
  <2>4. CASE b >= a + 1
    <3>1. M * (r - q - s) < M /\ - M < M * (r - q - s) /\ r - q - s \in Int
      BY <2>3, <2>4
    <3>2. r - q - s = 0
      BY <3>1, Multiple
    <3> QED
      BY <2>3, <3>2
  <2> QED
    BY <2>4
<1>5. CASE y = x
  <2> HIDE DEF x, y
  <2>1. b - a = M * (r - q)
    BY <1>1, <1>2, <1>3, <1>5
  <2>2. M * (r - q) < M /\ - M < M * (r - q) /\ r - q \in Int
    BY <2>1
  <2>3. r - q = 0
    BY <2>2, Multiple
  <2> QED
    BY <2>1, <2>3
<1> QED
  BY <1>4, <1>5

\* Between two messages of which one comes from a packet before x's and the
\* other from one behind, there are two next to each other.
LEMMA Neighbours ==
  ASSUME NEW O \in SUBSET Nat, NEW S, NEW i \in O, NEW j \in O, i < j,
         i \notin S, j \in S
  PROVE  \E k, l \in O : /\ i <= k /\ k < l /\ l <= j
                         /\ k \notin S /\ l \in S
                         /\ \A m \in O : m <= k \/ l <= m
<1> DEFINE P(k, l) == i <= k /\ k < l /\ l <= j /\ k \notin S /\ l \in S
           T == {g \in Nat : \E k, l \in O : P(k, l) /\ g = l - k}
<1>1. j - i \in T
  OBVIOUS
<1>2. PICK g \in T : \A h \in T : g <= h
  <2>1. T \in SUBSET Nat /\ T # {}
    BY <1>1
  <2> HIDE DEF T
  <2> QED
    BY <2>1, LeastNat
<1>3. PICK k \in O, l \in O : P(k, l) /\ g = l - k
  BY <1>2
<1>4. ASSUME NEW m \in O, k < m, m < l PROVE FALSE
  <2>1. CASE m \in S
    <3>1. P(k, m) /\ m - k \in Nat /\ ~ (g <= m - k)
      BY <1>3, <1>4, <2>1
    <3> QED
      BY <1>2, <3>1
  <2>2. CASE m \notin S
    <3>1. P(m, l) /\ l - m \in Nat /\ ~ (g <= l - m)
      BY <1>3, <1>4, <2>2
    <3> QED
      BY <1>2, <3>1
  <2> QED
    BY <2>1, <2>2
<1> QED
  BY <1>3, <1>4

\* The invariant tells that gaps show.
LEMMA FlowShowsGaps ==
  ASSUME TypeOK, FlowInv, "dscrd" \notin Calls PROVE GapFree
<1> SUFFICES ASSUME NEW t \in Subs, NEW p \in Pubs,
                    NEW i \in Had(t, p), NEW j \in Had(t, p), i < j,
                    delivered[t][i].seq > 0, delivered[t][j].seq > 0,
                    \A k \in Had(t, p) : i < k /\ k < j => delivered[t][k].seq = 0,
                    \A k, l \in Had(t, p) :
                      i <= k /\ k < l /\ l <= j /\ (\A m \in Had(t, p) : m <= k \/ l <= m)
                      => SaysNext(delivered[t][k], delivered[t][l]),
                    delivered[t][j].seq # delivered[t][i].seq + 1
             PROVE  FALSE
  BY DEF GapFree
<1> DEFINE del == delivered[t]
           O == Of(del, p)
           x == del[i].seq + 1
<1>0. t \in Sock /\ p \in Sock
  OBVIOUS
<1>1. PICK c \in Counts : Flow(p, c)
  BY <1>0 DEF FlowInv
<1>2. /\ del \in Seq(Handed) /\ DOMAIN del = 1 .. Len(del)
      /\ rcv[t] \in RecvState
  BY <1>0, LenProperties DEF TypeOK
<1>3. Had(t, p) = O
  BY <1>2 DEF Had, Of
<1>4. /\ AtRead(del, rcv[t], p, c, snd[p].pno) /\ Records(del, p, c, snd[p].pno)
      /\ Whole(del, rcv[t], p, c)
  BY <1>0, <1>1 DEF Flow, Line
<1>5. \A k \in O : k \in Nat /\ del[k].nr \in Nat /\ del[k].seq \in Nat
  BY <1>2, DelType
<1>6. \A k \in O : /\ c[del[k].nr] \in Nat /\ c[del[k].nr + 1] \in Nat
  BY <1>5, CountType
<1>7. /\ i \in O /\ j \in O /\ i < j /\ del[i].seq > 0 /\ del[j].seq > 0
      /\ \A k \in O : i < k /\ k < j => del[k].seq = 0
      /\ del[j].seq # x
  BY <1>3
<1>8. ASSUME NEW k \in O, NEW l \in O, i <= k, k < l, l <= j,
             \A m \in O : m <= k \/ l <= m
      PROVE  SaysNext(del[k], del[l])
  BY <1>3, <1>8
<1>9. \* of the records
      /\ \A k \in O : /\ del[k].pno = del[k].nr % PnoMod
                      /\ IF del[k].seq = 0 THEN c[del[k].nr + 1] = c[del[k].nr]
                         ELSE c[del[k].nr] < del[k].seq /\ del[k].seq <= c[del[k].nr + 1]
                      /\ \A y \in Nat : c[del[k].nr] < y /\ y < del[k].seq
                                          => y \in Gave(del, p)
      /\ \A k, l \in O : k < l => /\ del[k].nr <= del[l].nr
                                  /\ del[k].seq > 0 /\ del[l].seq > 0
                                       => del[k].seq < del[l].seq
  BY <1>4 DEF Records
<1>10. \A k \in O : \/ Held(rcv[t], p, del[k].nr)
                    \/ \A y \in Nat : c[del[k].nr] < y /\ y <= c[del[k].nr + 1]
                         => y \in Gave(del, p)
  BY <1>4 DEF Whole
<1>11. \A k, l \in O : Held(rcv[t], p, del[k].nr) => del[l].nr <= del[k].nr
  BY <1>4 DEF AtRead, Held
<1>12. Gave(del, p) = {del[k].seq : k \in O}
  BY DEF Gave
<1> HIDE DEF del, O
<1>13. x \in Nat /\ x < del[j].seq
  <2>1. del[i].seq < del[j].seq /\ del[i].seq \in Nat /\ del[j].seq \in Nat
    BY <1>5, <1>7, <1>9
  <2> QED
    BY <1>7, <2>1
<1>14. x \notin Gave(del, p)
  <2> SUFFICES ASSUME NEW k \in O, del[k].seq = x PROVE FALSE
    BY <1>12
  <2>1. del[i].seq \in Nat /\ del[j].seq \in Nat /\ k \in Nat /\ i \in Nat /\ j \in Nat
    BY <1>5, <1>7
  <2>2. x > 0 /\ del[i].seq < x /\ x < del[j].seq
    BY <1>13, <2>1
  <2>3. ~ (k < i) /\ ~ (j < k) /\ k # i /\ k # j
    <3>1. k < i => x < del[i].seq
      BY <1>7, <1>9, <2>2
    <3>2. j < k => del[j].seq < x
      BY <1>7, <1>9, <2>2
    <3> QED
      BY <1>13, <2>1, <2>2, <3>1, <3>2
  <2> QED
    BY <1>7, <2>1, <2>2, <2>3
<1>15. x <= c[del[j].nr]
  BY <1>5, <1>6, <1>7, <1>9, <1>13, <1>14
<1>16. c[del[i].nr] < x /\ c[del[i].nr + 1] < x
  <2>0. /\ c[del[i].nr] \in Nat /\ c[del[i].nr + 1] \in Nat /\ del[i].seq \in Nat
        /\ del[i].nr \in Nat /\ del[j].nr \in Nat /\ c[del[j].nr] \in Nat
    BY <1>5, <1>6, <1>7
  <2>1. c[del[i].nr] < del[i].seq
    BY <1>7, <1>9, <2>0
  <2>2. c[del[i].nr] < x
    BY <1>13, <2>0, <2>1
  <2>3. ~ Held(rcv[t], p, del[i].nr)
    <3> SUFFICES ASSUME Held(rcv[t], p, del[i].nr) PROVE FALSE
      OBVIOUS
    <3>1. del[j].nr = del[i].nr
      BY <1>7, <1>9, <1>11, <2>0
    <3> QED
      BY <1>13, <1>15, <2>0, <2>2, <3>1
  <2>4. ~ (x <= c[del[i].nr + 1])
    BY <1>7, <1>10, <1>13, <1>14, <2>2, <2>3
  <2> QED
    BY <1>13, <2>0, <2>2, <2>4
<1> DEFINE S == {k \in O : x <= c[del[k].nr]}
<1>17. O \in SUBSET Nat /\ i \notin S /\ j \in S
  BY <1>5, <1>6, <1>7, <1>13, <1>15, <1>16
<1>18. PICK k \in O, l \in O : /\ i <= k /\ k < l /\ l <= j
                               /\ k \notin S /\ l \in S
                               /\ \A m \in O : m <= k \/ l <= m
  <2> HIDE DEF S
  <2> QED
    BY <1>7, <1>17, Neighbours
<1>19. c[del[k].nr] < x /\ c[del[k].nr + 1] < x
  <2>1. c[del[k].nr] < x
    BY <1>6, <1>13, <1>18
  <2>2. CASE k = i
    BY <1>16, <2>2
  <2>3. CASE k # i
    <3>1. i < k /\ k < j
      BY <1>5, <1>7, <1>18, <2>3
    <3>2. c[del[k].nr + 1] = c[del[k].nr]
      BY <1>7, <1>9, <3>1
    <3> QED
      BY <2>1, <3>2
  <2> QED
    BY <2>2, <2>3
<1>20. del[l].nr = del[k].nr \/ del[l].nr = del[k].nr + 1
  <2>1. /\ del[l].pno \in {del[k].pno, (del[k].pno + 1) % PnoMod}
        /\ del[l].nr - del[k].nr < PnoMod
    BY <1>8, <1>18 DEF SaysNext
  <2>2. /\ del[k].nr \in Nat /\ del[l].nr \in Nat /\ del[k].nr <= del[l].nr
        /\ del[k].pno = del[k].nr % PnoMod /\ del[l].pno = del[l].nr % PnoMod
    BY <1>5, <1>9, <1>18
  <2>3. PnoMod \in Nat /\ PnoMod > 0
    OBVIOUS
  <2> QED
    BY <2>1, <2>2, <2>3, NextNumber
<1>21. x <= c[del[l].nr]
  BY <1>18
<1> QED
  BY <1>6, <1>13, <1>19, <1>20, <1>21

\* Packet numbers show losses, of any number of packets up to a whole cycle
\* of their numbers: on a network that neither doubles nor overtakes
\* datagrams, to a subscriber that discards nothing.
THEOREM GapFreeCorrect ==
  ASSUME "dscrd" \notin Calls, Faults \cap {"dup", "reorder"} = {}
  PROVE  Spec => []GapFree
<1> DEFINE Inv == TypeOK /\ NoPackLost /\ FramingInv /\ FlowInv
<1>1. Init => Inv
  BY InitType, InitFlow, InitNoPackLost, InitFraming
<1>2. Inv /\ [Next]_vars => Inv'
  <2> SUFFICES ASSUME Inv, [Next]_vars PROVE Inv'
    OBVIOUS
  <2>1. TypeOK'
    BY NextType
  <2>2. NoPackLost' /\ FramingInv'
    BY NextNoPackLost, NextFraming
  <2> QED
    BY <2>1, <2>2, NextFlow
<1>3. Inv => GapFree
  BY FlowShowsGaps
<1> QED
  BY <1>1, <1>2, <1>3, PTL DEF Spec

-----------------------------------------------------------------------------
(* Neat payloads: the packs in the first n bytes of b are src's own and do *)
(* not overlap, so that behind a pack nothing starts before its end.       *)

Neat(src, b, n) ==
  \A o \in Offs : o < n /\ b[o].tag = "data" =>
    /\ b[o].src = src
    /\ \A p \in Offs : o < p /\ p < o + PackSize(b[o].len) /\ p < n => b[p].tag # "data"

NeatDatagrams == {d \in Datagram : Neat(d.src, d.buf, d.len)}

NeatInv ==
  /\ \A s \in Sock : Neat(s, snd[s].buf, snd[s].npk)
  /\ inq \in [Sock -> Seq(NeatDatagrams)]
  /\ \A t \in Sock : Neat(rcv[t].src, rcv[t].buf, rcv[t].nrd)

\* An empty payload is neat.
LEMMA NeatEmpty == ASSUME NEW src, NEW b PROVE Neat(src, b, 0)
BY DEF Neat, Offs

\* What is behind a payload does not matter.
LEMMA NeatPrefix ==
  ASSUME NEW src, NEW b, NEW d, NEW n,
         \A o \in Offs : o < n => d[o] = b[o], Neat(src, b, n)
  PROVE  Neat(src, d, n)
<1> SUFFICES ASSUME NEW o \in Offs, o < n, d[o].tag = "data"
             PROVE  /\ d[o].src = src
                    /\ \A p \in Offs : o < p /\ p < o + PackSize(d[o].len) /\ p < n
                         => d[p].tag # "data"
  BY DEF Neat
<1>1. d[o] = b[o]
  OBVIOUS
<1>2. /\ b[o].src = src
      /\ \A p \in Offs : o < p /\ p < o + PackSize(b[o].len) /\ p < n
           => b[p].tag # "data"
  BY <1>1 DEF Neat
<1> QED
  BY <1>1, <1>2

\* A pack written behind a payload keeps it neat.
LEMMA NeatPack ==
  ASSUME NEW src, NEW b \in Buffer, NEW n \in Nat, NEW c \in Cell, c.tag = "data",
         c.src = src, n + PackSize(c.len) <= Cap, Framed(b, n), Neat(src, b, n)
  PROVE  Neat(src, PutPack(b, n, c), n + PackSize(c.len))
<1> DEFINE d == PutPack(b, n, c)
           m == n + PackSize(c.len)
<1>1. m \in Nat /\ n < m
  BY DEF PackSize, Cell, Byte
<1>2. \A o \in Offs : d[o] = IF o = n THEN c ELSE IF o > n /\ o < m THEN Blank ELSE b[o]
  BY DEF PutPack
<1>3. \A o \in Offs : o > n /\ o < m => d[o].tag # "data"
  BY <1>1, <1>2 DEF Blank, Offs
<1> HIDE DEF d
<1> SUFFICES ASSUME NEW o \in Offs, o < m, d[o].tag = "data"
             PROVE  /\ d[o].src = src
                    /\ \A p \in Offs : o < p /\ p < o + PackSize(d[o].len) /\ p < m
                         => d[p].tag # "data"
  BY DEF Neat, d
<1>4. CASE o = n
  <2>1. d[o] = c
    BY <1>2, <1>4
  <2> HIDE DEF m
  <2> QED
    BY <1>3, <1>4, <2>1 DEF m
<1>5. CASE o < n
  <2>1. d[o] = b[o] /\ b[o] \in Cell
    BY <1>1, <1>2, <1>5 DEF Offs, Buffer
  <2> DEFINE e == o + PackSize(b[o].len)
  <2>2. e \in Nat /\ e <= n
    <3>1. e \in Nat
      BY <2>1 DEF PackSize, Cell, Byte, Offs
    <3>2. e = n \/ e < n
      BY <1>5, <2>1 DEF Framed, Chained
    <3> HIDE DEF e
    <3> QED
      BY <3>1, <3>2
  <2>3. /\ b[o].src = src
        /\ \A p \in Offs : o < p /\ p < e /\ p < n => b[p].tag # "data"
    BY <1>5, <2>1 DEF Neat
  <2> HIDE DEF e, m
  <2>4. ASSUME NEW p \in Offs, o < p, p < e
        PROVE  d[p].tag # "data"
    <3>1. p < n
      BY <2>2, <2>4 DEF Offs
    <3>2. d[p] = b[p]
      BY <1>2, <3>1 DEF Offs
    <3> QED
      BY <2>3, <2>4, <3>1, <3>2
  <2> QED
    BY <2>1, <2>3, <2>4 DEF e
<1>6. CASE o > n
  BY <1>3, <1>6
<1> QED
  BY <1>4, <1>5, <1>6 DEF Offs

\* What the sockets have to send is neat.
LEMMA NeatCarries == TypeOK /\ NeatInv => Carries(NeatDatagrams)
<1> SUFFICES ASSUME TypeOK, NeatInv PROVE Carries(NeatDatagrams)
  OBVIOUS
<1>1. ASSUME NEW s \in Sock
      PROVE  DataPacket(s, snd[s]) \in NeatDatagrams
  <2> DEFINE d == DataPacket(s, snd[s])
  <2>1. d \in Datagram /\ d.src = s /\ d.len = snd[s].npk
    BY DataPacketType DEF TypeOK, DataPacket
  <2>2. \A o \in Offs : o < snd[s].npk => d.buf[o] = snd[s].buf[o]
    BY DEF DataPacket, Overlay
  <2> HIDE DEF d
  <2>3. Neat(d.src, d.buf, d.len)
    BY <2>1, <2>2, NeatPrefix DEF NeatInv
  <2> QED
    BY <2>1, <2>3 DEF NeatDatagrams, d
<1>2. ASSUME NEW s \in Sock, NEW q \in SendState, NEW cmd \in {PING, PONG}
      PROVE  CtrlPacket(s, q, cmd) \in NeatDatagrams
  <2> DEFINE c == DataCell(PingLen, s, 0)
  <2>1. c \in Cell /\ c.tag = "data" /\ c.len = PingLen /\ c.src = s
    <3>1. PingLen \in Byte
      BY DEF Byte
    <3>2. c \in Cell
      BY <3>1, DataCellType
    <3> QED
      BY <3>2 DEF DataCell
  <2>2. 0 + PackSize(c.len) <= Cap
    BY <2>1 DEF PackSize
  <2> HIDE DEF c
  <2>3. Neat(s, PutPack(BlankBuffer, 0, c), 0 + PackSize(c.len))
    BY <2>1, <2>2, FramedEmpty, NeatEmpty, NeatPack, BlankType
  <2>4. CtrlPacket(s, q, cmd) \in Datagram
    BY CtrlPacketType, CtrlSvcs
  <2>5. /\ CtrlPacket(s, q, cmd).buf = PutPack(BlankBuffer, 0, c)
        /\ CtrlPacket(s, q, cmd).len = 0 + PackSize(c.len)
        /\ CtrlPacket(s, q, cmd).src = s
    BY <2>1 DEF CtrlPacket, PackSize, c
  <2> QED
    BY <2>3, <2>4, <2>5 DEF NeatDatagrams
<1>3. ForeignPackets \subseteq NeatDatagrams
  <2>1. \A d \in ForeignPackets : \A o \in Offs : d.buf[o].tag = "other"
    BY DEF ForeignPackets, ForeignPacket, BlankBuffer, Blank
  <2> QED
    BY <2>1, ForeignType DEF NeatDatagrams, Neat
<1> QED
  BY <1>1, <1>2, <1>3 DEF Carries, NeatInv

\* What is read is neat.
LEMMA ReadNeat ==
  ASSUME TypeOK, NeatInv, NEW t \in Sock, NEW r \in RecvState, Read(t, r)
  PROVE  Neat(r.src, r.buf, r.nrd)
<1>1. CASE r = rcv[t]
  BY <1>1 DEF NeatInv
<1>2. CASE rcv[t].nrd = 0 /\ inq[t] # <<>> /\ r = Load(rcv[t], Head(inq[t]))
  <2> DEFINE d == Head(inq[t])
  <2>1. d \in NeatDatagrams
    BY <1>2, DequeueType DEF NeatInv
  <2> HIDE DEF d
  <2>2. r = Load(rcv[t], d)
    BY <1>2 DEF d
  <2>3. CASE d.good
    <3>1. r.nrd = d.len /\ r.src = d.src
      BY <2>2, <2>3 DEF Load
    <3>2. \A o \in Offs : o < d.len => r.buf[o] = d.buf[o]
      BY <2>2 DEF Load, Overlay
    <3> QED
      BY <2>1, <3>1, <3>2, NeatPrefix DEF NeatDatagrams
  <2>4. CASE ~ d.good
    <3>1. r.nrd = 0
      BY <1>2, <2>2, <2>4 DEF Load
    <3> QED
      BY <3>1, NeatEmpty
  <2> QED
    BY <2>3, <2>4
<1> QED
  BY <1>1, <1>2 DEF Read

\* Every step keeps that.
LEMMA NextNeat == TypeOK /\ FramingInv /\ NeatInv /\ [Next]_vars => NeatInv'
<1> SUFFICES ASSUME TypeOK, FramingInv, NeatInv, [Next]_vars PROVE NeatInv'
  OBVIOUS
<1>1. ASSUME NEW s \in Sock PROVE Neat(s, snd'[s].buf, snd'[s].npk)
  <2>1. CASE Untouched(s)
    BY <2>1 DEF Untouched, NeatInv
  <2>2. CASE Emptied(s)
    BY <2>2, NeatEmpty DEF Emptied
  <2>3. ASSUME NEW svc \in Svcs, NEW dlen \in DLens, Packed(s, svc, dlen)
        PROVE  Neat(s, snd'[s].buf, snd'[s].npk)
    <3> DEFINE z == WireLen(dlen)
               c == DataCell(z, s, Len(accepted[s]) + 1)
    <3>1. c \in Cell /\ c.tag = "data" /\ c.len = z /\ c.src = s
      <4>1. z \in Byte /\ Len(accepted[s]) + 1 \in Nat
        BY WireLenType, LenProperties DEF TypeOK
      <4>2. c \in Cell
        BY <4>1, DataCellType
      <4> HIDE DEF z
      <4> QED
        BY <4>2 DEF DataCell
    <3>2. PICK f \in SendState :
            /\ f = snd[s] \/ f.npk = 0
            /\ f.npk + PackSize(z) <= Cap
            /\ snd'[s].npk = f.npk + PackSize(z)
            /\ snd'[s].buf = PutPack(f.buf, f.npk, c)
      BY <2>3 DEF Packed
    <3>3. Framed(f.buf, f.npk) /\ Neat(s, f.buf, f.npk)
      BY <3>2, FramedEmpty, NeatEmpty DEF FramingInv, NeatInv
    <3>4. f.buf \in Buffer /\ f.npk \in Nat
      BY DEF SendState
    <3> HIDE DEF c, z
    <3> QED
      BY <3>1, <3>2, <3>3, <3>4, NeatPack
  <2> QED
    BY <2>1, <2>2, <2>3, NextSnd
<1>2. inq' \in [Sock -> Seq(NeatDatagrams)]
  BY NeatCarries, NextQueues
<1>3. ASSUME NEW t \in Sock PROVE Neat(rcv'[t].src, rcv'[t].buf, rcv'[t].nrd)
  <2>1. PICK r \in RecvState : Read(t, r) /\ (HandsOut(t, r) \/ LeavesOff(t, r))
    BY NextRcv
  <2>2. Neat(r.src, r.buf, r.nrd)
    BY <2>1, ReadNeat
  <2>3. \/ rcv'[t].nrd = 0
        \/ /\ rcv'[t].nrd = r.nrd /\ rcv'[t].src = r.src /\ rcv'[t].buf = r.buf
    BY <2>1, DroppedType DEF HandsOut, LeavesOff, RecvState
  <2> QED
    BY <2>2, <2>3, NeatEmpty
<1> QED
  BY <1>1, <1>2, <1>3 DEF NeatInv

\* Nothing is packed, sent or read at the start.
LEMMA InitNeat == Init => NeatInv
<1> SUFFICES ASSUME Init PROVE NeatInv
  OBVIOUS
<1>1. \A s \in Sock : snd[s].npk = 0 /\ rcv[s].nrd = 0
  BY DEF Init
<1>2. inq \in [Sock -> Seq(NeatDatagrams)]
  BY DEF Init
<1> QED
  BY <1>1, <1>2, NeatEmpty DEF NeatInv

-----------------------------------------------------------------------------
(* The kernel keeps QMax datagrams at most.                                *)

QueueBound == \A t \in Sock : Len(inq[t]) <= QMax

\* A queue that takes what fits is not too long, and loses nothing it had
\* unless it was too long before.
LEMMA EnqueueKeeps ==
  ASSUME NEW S, NEW queue \in Seq(S), NEW ds \in Seq(S)
  PROVE  LET q == Enqueue(queue, ds)
         IN  /\ q \in Seq(S) /\ Len(q) <= QMax
             /\ Len(queue) <= QMax =>
                  /\ Len(queue) <= Len(q)
                  /\ \A i \in 1 .. Len(queue) : q[i] = queue[i]
<1> DEFINE all == queue \o ds
           n == IF Len(all) <= QMax THEN Len(all) ELSE QMax
<1>1. /\ all \in Seq(S) /\ Len(queue) \in Nat /\ Len(ds) \in Nat
      /\ Len(all) = Len(queue) + Len(ds)
      /\ \A i \in 1 .. Len(queue) : all[i] = queue[i]
  BY ConcatProperties, LenProperties
<1>2. QMax \in Nat /\ n \in Nat /\ n <= Len(all) /\ n <= QMax
  BY <1>1
<1>3. \A i \in 1 .. n : all[i] \in S
  BY <1>1, <1>2, ElementOfSeq
<1>4. Len(queue) <= QMax => Len(queue) <= n
  BY <1>1
<1> HIDE DEF all, n
<1>5. /\ SubSeq(all, 1, n) \in Seq(S) /\ Len(SubSeq(all, 1, n)) = n
      /\ \A i \in 1 .. n : SubSeq(all, 1, n)[i] = all[i]
  BY <1>2, <1>3, SubSeqProperties
<1>6. Enqueue(queue, ds) = SubSeq(all, 1, n)
  BY DEF Enqueue, all, n
<1> QED
  BY <1>1, <1>2, <1>4, <1>5, <1>6

\* A queue that loses a datagram is shorter by one.
LEMMA LoseShortens ==
  ASSUME NEW S, NEW q \in Seq(S), NEW i \in 1 .. Len(q)
  PROVE  Len(SubSeq(q, 1, i - 1) \o SubSeq(q, i + 1, Len(q))) = Len(q) - 1
<1>1. Len(q) \in Nat /\ \A k \in 1 .. Len(q) : q[k] \in S
  BY LenProperties, ElementOfSeq
<1> DEFINE a == SubSeq(q, 1, i - 1)
           b == SubSeq(q, i + 1, Len(q))
<1>2. a \in Seq(S) /\ Len(a) = i - 1
  BY <1>1, SubSeqProperties
<1>3. b \in Seq(S) /\ Len(b) = Len(q) - i
  <2>1. i + 1 \in Int /\ Len(q) \in Int /\ \A k \in i + 1 .. Len(q) : q[k] \in S
    BY <1>1
  <2>2. b \in Seq(S) /\ Len(b) = IF i + 1 <= Len(q) THEN Len(q) - (i + 1) + 1 ELSE 0
    BY <2>1, SubSeqProperties
  <2> HIDE DEF b
  <2> QED
    BY <1>1, <2>2
<1> HIDE DEF a, b
<1>4. Len(a \o b) = Len(a) + Len(b)
  BY <1>2, <1>3, ConcatProperties
<1>5. Len(a \o b) = Len(q) - 1
  BY <1>1, <1>2, <1>3, <1>4
<1> QED
  BY <1>5 DEF a, b

\* Every step keeps the bound.
LEMMA NextQueueBound == TypeOK /\ QueueBound /\ [Next]_vars => QueueBound'
<1> SUFFICES ASSUME TypeOK, QueueBound, [Next]_vars, NEW t \in Sock
             PROVE  Len(inq'[t]) <= QMax
  BY DEF QueueBound
<1>1. PICK u \in Sock, ds \in Seq(Datagram), r \in RecvState, base \in Seq(Datagram) :
        Takes(t, r, base) /\ Gets(t, base, ds)
  BY NextMoves DEF Moves
<1>2. Len(base) \in Nat /\ QMax \in Nat /\ \A k \in 1 .. Len(base) : base[k] \in Datagram
  BY LenProperties, ElementOfSeq
<1>3. Len(base) <= QMax
  <2>1. inq[t] \in Seq(Datagram) /\ Len(inq[t]) \in Nat /\ Len(inq[t]) <= QMax
    BY LenProperties DEF TypeOK, QueueBound
  <2>2. inq[t] # <<>> => Len(Tail(inq[t])) = Len(inq[t]) - 1
    BY <2>1, HeadTailProperties
  <2> QED
    BY <1>1, <1>2, <2>1, <2>2 DEF Takes
<1>4. \A e \in Seq(Datagram) : Len(Enqueue(base, e)) <= QMax
  BY EnqueueKeeps
<1>5. \A d \in Datagram : <<d>> \in Seq(Datagram)
  OBVIOUS
<1>6. \A i \in 1 .. Len(base) :
        Len(SubSeq(base, 1, i - 1) \o SubSeq(base, i + 1, Len(base))) = Len(base) - 1
  BY LoseShortens
<1>7. CASE inq'[t] = base \/ inq'[t] = Enqueue(base, ds)
  BY <1>3, <1>4, <1>7
<1>8. CASE \E i \in 1 .. Len(base) :
             inq'[t] = SubSeq(base, 1, i - 1) \o SubSeq(base, i + 1, Len(base))
  <2>1. PICK i \in 1 .. Len(base) :
          inq'[t] = SubSeq(base, 1, i - 1) \o SubSeq(base, i + 1, Len(base))
    BY <1>8
  <2>2. Len(inq'[t]) = Len(base) - 1
    BY <1>6, <2>1
  <2> QED
    BY <1>2, <1>3, <2>2
<1>9. CASE \/ \E d \in ForeignPackets : inq'[t] = Enqueue(base, <<d>>)
           \/ \E i \in 1 .. Len(base) : inq'[t] = Enqueue(base, <<base[i]>>)
  BY <1>2, <1>4, <1>5, <1>9, ForeignType
<1>10. CASE Len(inq'[t]) = Len(base)
  BY <1>3, <1>10
<1> QED
  BY <1>1, <1>7, <1>8, <1>9, <1>10 DEF Gets

\* The queues are empty at the start.
LEMMA InitQueueBound == Init => QueueBound
<1> SUFFICES ASSUME Init, NEW t \in Sock PROVE Len(inq[t]) <= QMax
  BY DEF QueueBound
<1>1. inq[t] = <<>> /\ QMax \in Nat
  BY DEF Init
<1> QED
  BY <1>1

-----------------------------------------------------------------------------
(* Packets by their packs.                                                 *)

\* What is left of a packet starts where reading has come to.
LEMMA HeadsStart ==
  ASSUME NEW b, NEW k \in Nat, NEW n \in 0 .. Cap
  PROVE  /\ k < n => k \in Heads(b, k, n) /\ \A o \in Heads(b, k, n) : o \in Nat /\ k <= o
         /\ k >= n => Heads(b, k, n) = {}
BY DEF Heads, Offs

\* So the first pack left is the one there.
LEMMA PacksStart ==
  ASSUME NEW t, NEW b, NEW k \in Nat, NEW n \in 0 .. Cap, k < n
  PROVE  /\ DOMAIN PacksFrom(b, k, n) # {}
         /\ Reading(t)!First(PacksFrom(b, k, n)) = k
         /\ PacksFrom(b, k, n)[k] = b[k]
<1>1. k \in Heads(b, k, n) /\ \A o \in Heads(b, k, n) : o \in Nat /\ k <= o
  BY HeadsStart
<1>2. DOMAIN PacksFrom(b, k, n) = Heads(b, k, n) /\ PacksFrom(b, k, n)[k] = b[k]
  BY <1>1 DEF PacksFrom
<1> DEFINE H == Heads(b, k, n)
           f == CHOOSE o \in H : \A p \in H : o <= p
<1> HIDE DEF H
<1>3. f \in H /\ f <= k
  BY <1>1 DEF H
<1>4. f = k
  BY <1>1, <1>3 DEF H
<1>5. Reading(t)!First(PacksFrom(b, k, n)) = f
  BY <1>2 DEF Reading!First, H
<1> QED
  BY <1>1, <1>2, <1>4, <1>5

\* Only the payload counts.
LEMMA PacksSamePayload ==
  ASSUME NEW b, NEW d, NEW n \in 0 .. Cap, \A o \in Offs : o < n => d[o] = b[o]
  PROVE  PacksFrom(d, 0, n) = PacksFrom(b, 0, n)
<1>1. 0 < n => 0 \in Offs
  BY DEF Offs
<1>2. Heads(d, 0, n) = Heads(b, 0, n)
  BY <1>1 DEF Heads
<1>3. \A o \in Heads(b, 0, n) : o \in Offs /\ o < n
  BY <1>1 DEF Heads
<1> QED
  BY <1>2, <1>3 DEF PacksFrom

\* Behind a pack come the packs that start at its end or later.
LEMMA PacksBehind ==
  ASSUME NEW t, NEW src, NEW b \in Buffer, NEW k \in Nat, NEW n \in 0 .. Cap, k < n,
         b[k].tag = "data", Framed(b, n), Neat(src, b, n)
  PROVE  Reading(t)!Behind(PacksFrom(b, k, n)) = PacksFrom(b, k + PackSize(b[k].len), n)
<1> DEFINE e == k + PackSize(b[k].len)
<1>1. e \in Nat /\ k < e /\ e <= n /\ (e < n => b[e].tag = "data") /\ k \in Offs
  <2>1. k \in Offs /\ b[k] \in Cell
    BY DEF Offs, Buffer
  <2>2. e \in Nat /\ e <= n /\ (e < n => b[e].tag = "data")
    BY FramedNext
  <2> QED
    BY <2>1, <2>2 DEF PackSize, Cell, Byte
<1>2. \A p \in Offs : k < p /\ p < e /\ p < n => b[p].tag # "data"
  BY <1>1 DEF Neat
<1> HIDE DEF e
<1>3. Heads(b, k, n) = {o \in Offs : k <= o /\ o < n /\ b[o].tag = "data"}
  BY DEF Heads
<1>4. Heads(b, e, n) = {o \in Offs : e <= o /\ o < n /\ b[o].tag = "data"}
  BY <1>1 DEF Heads
<1>5. Heads(b, k, n) \ {k} = Heads(b, e, n)
  BY <1>1, <1>2, <1>3, <1>4 DEF Offs
<1>6. /\ Reading(t)!First(PacksFrom(b, k, n)) = k
      /\ DOMAIN PacksFrom(b, k, n) = Heads(b, k, n)
      /\ \A o \in Heads(b, k, n) : PacksFrom(b, k, n)[o] = b[o]
  BY PacksStart DEF PacksFrom
<1>7. Reading(t)!Behind(PacksFrom(b, k, n))
        = [o \in Heads(b, e, n) |-> PacksFrom(b, k, n)[o]]
  BY <1>5, <1>6 DEF Reading!Behind
<1>8. \A o \in Heads(b, e, n) : PacksFrom(b, k, n)[o] = b[o]
  BY <1>5, <1>6
<1> QED
  BY <1>7, <1>8 DEF PacksFrom, e

\* No packet
LEMMA ReadOfNone ==
  ASSUME NEW t, NEW r, r.nrd = 0
  PROVE  ReadOf(r) = Reading(t)!Idle
BY DEF ReadOf, Reading!Idle

\* A packet that is read from its beginning
LEMMA LoadedIsRead ==
  ASSUME NEW t, NEW r \in RecvState, r.nrd = 0, r.nck = 0, NEW d \in Datagram
  PROVE  Reading(t)!Loaded(PacketOf(d)) = ReadOf(Load(r, d))
<1> DEFINE l == Load(r, d)
           p == PacketOf(d)
<1>1. /\ l.nrd = IF d.good THEN d.len ELSE 0
      /\ l.nck = 0 /\ l.cmd = d.cmd
      /\ \A o \in Offs : o < d.len => l.buf[o] = d.buf[o]
  BY DEF Load, Overlay
<1>2. p.good = d.good /\ p.svc = d.cmd /\ p.packs = PacksFrom(d.buf, 0, d.len)
  BY DEF PacketOf
<1>3. d.len \in 0 .. Cap /\ d.good \in BOOLEAN
  BY DEF Datagram
<1>4. PacksFrom(l.buf, 0, d.len) = PacksFrom(d.buf, 0, d.len)
  BY <1>1, <1>3, PacksSamePayload
<1> HIDE DEF l, p
<1>5. CASE d.good /\ d.len > 0
  <2>1. DOMAIN p.packs # {}
    BY <1>2, <1>3, <1>5, PacksStart
  <2>2. Reading(t)!Loaded(p) = [held |-> TRUE, svc |-> d.cmd, packs |-> PacksFrom(d.buf, 0, d.len)]
    BY <1>2, <1>5, <2>1 DEF Reading!Loaded
  <2>3. ReadOf(l) = [held |-> TRUE, svc |-> d.cmd, packs |-> PacksFrom(l.buf, 0, d.len)]
    BY <1>1, <1>3, <1>5 DEF ReadOf
  <2> QED
    BY <1>4, <2>2, <2>3 DEF l, p
<1>6. CASE ~ (d.good /\ d.len > 0)
  <2>1. l.nrd = 0
    BY <1>1, <1>3, <1>6
  <2>2. d.good => DOMAIN p.packs = {}
    <3>1. d.good => d.len = 0
      BY <1>3, <1>6
    <3>2. Heads(d.buf, 0, 0) = {}
      BY DEF Heads, Offs
    <3> QED
      BY <1>2, <3>1, <3>2 DEF PacksFrom
  <2>3. Reading(t)!Loaded(p) = Reading(t)!Idle
    BY <1>2, <2>2 DEF Reading!Loaded
  <2> QED
    BY <2>1, <2>3, ReadOfNone DEF l, p
<1> QED
  BY <1>5, <1>6

-----------------------------------------------------------------------------
(* The refinement of PackReader *)

\* What t reads, and what it leaves to the kernel: the packet it holds or the
\* next datagram
Fetches(t, r, base) ==
  \/ rcv[t].nrd # 0 /\ r = rcv[t] /\ base = inq[t]
  \/ /\ rcv[t].nrd = 0 /\ inq[t] # <<>>
     /\ r = Load(rcv[t], Head(inq[t])) /\ base = Tail(inq[t])

\* A queue by the packs in it
AsPackets(q) == [i \in DOMAIN q |-> PacketOf(q[i])]

\* Its head and its tail
LEMMA PacketsTail ==
  ASSUME NEW S, NEW q \in Seq(S), q # <<>>
  PROVE  /\ Head(AsPackets(q)) = PacketOf(Head(q))
         /\ Tail(AsPackets(q)) = AsPackets(Tail(q))
         /\ AsPackets(q) # <<>>
<1>1. Len(q) \in Nat /\ Len(q) >= 1 /\ DOMAIN q = 1 .. Len(q)
  BY LenProperties, EmptySeq
<1> DEFINE P == {PacketOf(q[i]) : i \in 1 .. Len(q)}
           a == AsPackets(q)
<1>2. a \in Seq(P) /\ Len(a) = Len(q) /\ \A i \in 1 .. Len(q) : a[i] = PacketOf(q[i])
  BY <1>1 DEF AsPackets
<1> HIDE DEF P, a
<1>3. /\ a # <<>> /\ Head(a) = a[1] /\ Tail(a) \in Seq(P)
      /\ Len(Tail(a)) = Len(a) - 1
      /\ \A i \in 1 .. Len(a) - 1 : Tail(a)[i] = a[i + 1]
  BY <1>1, <1>2, HeadTailProperties
<1>4. /\ Head(q) = q[1] /\ Tail(q) \in Seq(S)
      /\ Len(Tail(q)) = Len(q) - 1
      /\ \A i \in 1 .. Len(q) - 1 : Tail(q)[i] = q[i + 1]
  BY <1>1, HeadTailProperties
<1>5. DOMAIN Tail(q) = 1 .. Len(q) - 1 /\ DOMAIN Tail(a) = 1 .. Len(q) - 1
  BY <1>2, <1>3, <1>4, LenProperties
<1>6. \A i \in 1 .. Len(q) - 1 : Tail(a)[i] = PacketOf(Tail(q)[i])
  BY <1>1, <1>2, <1>3, <1>4
<1>7. Tail(a) = [i \in 1 .. Len(q) - 1 |-> Tail(a)[i]]
  <2>1. Tail(a) \in [1 .. Len(Tail(a)) -> P]
    BY <1>3, LenProperties
  <2>2. 1 .. Len(Tail(a)) = 1 .. Len(q) - 1
    BY <1>2, <1>3
  <2> DEFINE v == Tail(a)
  <2>3. v \in [1 .. Len(q) - 1 -> P]
    BY <2>1, <2>2
  <2> HIDE DEF v
  <2>4. v = [i \in 1 .. Len(q) - 1 |-> v[i]]
    BY <2>3
  <2> QED
    BY <2>4 DEF v
<1>8. Tail(a) = AsPackets(Tail(q))
  BY <1>5, <1>6, <1>7 DEF AsPackets
<1> QED
  BY <1>1, <1>2, <1>3, <1>4, <1>8 DEF a

\* It is what PackReader reads.
LEMMA FetchesCurrent ==
  ASSUME TypeOK, FramingInv, NEW t \in Sock, NEW r, NEW base, Fetches(t, r, base)
  PROVE  /\ Reading(t)!Pending
         /\ Reading(t)!Current = ReadOf(r)
         /\ Reading(t)!Rest = AsPackets(base)
<1>1. CASE rcv[t].nrd # 0
  <2>1. ReadOf(rcv[t]).held = TRUE
    BY <1>1 DEF ReadOf
  <2> QED
    BY <1>1, <2>1 DEF Fetches, Reading!Pending, Reading!Current, Reading!Rest, AsPackets
<1>2. CASE rcv[t].nrd = 0
  <2>1. ReadOf(rcv[t]).held = FALSE
    BY <1>2 DEF ReadOf
  <2>2. /\ inq[t] # <<>> /\ inq[t] \in Seq(Datagram)
        /\ r = Load(rcv[t], Head(inq[t])) /\ base = Tail(inq[t])
    BY <1>2 DEF Fetches, TypeOK
  <2>3. Head(inq[t]) \in Datagram
    BY <2>2, HeadTailProperties
  <2>4. rcv[t] \in RecvState /\ rcv[t].nck = 0
    BY <1>2 DEF TypeOK, FramingInv, ReadsPacks
  <2>5. Reading(t)!Loaded(PacketOf(Head(inq[t]))) = ReadOf(r)
    BY <1>2, <2>2, <2>3, <2>4, LoadedIsRead
  <2>6. /\ Head(AsPackets(inq[t])) = PacketOf(Head(inq[t]))
        /\ Tail(AsPackets(inq[t])) = AsPackets(base)
        /\ AsPackets(inq[t]) # <<>>
    BY <2>2, PacketsTail
  <2>7. AsPackets(inq[t]) = [i \in DOMAIN inq[t] |-> PacketOf(inq[t][i])]
    BY DEF AsPackets
  <2>8. Reading(t)!Current = Reading(t)!Loaded(Head(AsPackets(inq[t])))
    BY <2>1, <2>7 DEF Reading!Current
  <2>9. Reading(t)!Rest = Tail(AsPackets(inq[t]))
    BY <2>1, <2>7 DEF Reading!Rest
  <2>10. Reading(t)!Pending
    BY <2>6, <2>7 DEF Reading!Pending
  <2> QED
    BY <2>5, <2>6, <2>8, <2>9, <2>10
<1> QED
  BY <1>1, <1>2

\* What t leaves to the kernel stays in its place.
LEMMA QueueStays ==
  ASSUME NEW t, NEW S, NEW base \in Seq(S), inq'[t] \in Seq(S),
         Len(base) <= Len(inq'[t]), \A i \in 1 .. Len(base) : inq'[t][i] = base[i]
  PROVE  Reading(t)!Stays(AsPackets(base))
<1> DEFINE q == inq'[t]
           P == {PacketOf(q[i]) : i \in 1 .. Len(q)}
           a == AsPackets(base)
           z == AsPackets(q)
           n == Len(base)
<1>1. /\ n \in Nat /\ DOMAIN base = 1 .. n
      /\ Len(q) \in Nat /\ DOMAIN q = 1 .. Len(q) /\ n <= Len(q)
      /\ \A i \in 1 .. n : q[i] = base[i]
  BY LenProperties
<1> HIDE DEF q, n
<1>2. /\ z \in Seq(P) /\ Len(z) = Len(q)
      /\ \A i \in 1 .. Len(q) : z[i] = PacketOf(q[i]) /\ z[i] \in P
  BY <1>1 DEF AsPackets
<1>3. a = [i \in 1 .. n |-> z[i]]
  BY <1>1, <1>2 DEF AsPackets
<1> HIDE DEF P, z, a
<1>4. Len(a) = n
  BY <1>1, <1>3
<1>5. /\ SubSeq(z, 1, n) \in Seq(P) /\ Len(SubSeq(z, 1, n)) = n
      /\ \A i \in 1 .. n : SubSeq(z, 1, n)[i] = z[i]
  <2>1. n \in Int /\ 1 \in Int /\ \A i \in 1 .. n : z[i] \in P
    BY <1>1, <1>2
  <2> DEFINE v == SubSeq(z, 1, n)
  <2>2. /\ v \in Seq(P) /\ Len(v) = IF 1 <= n THEN n - 1 + 1 ELSE 0
        /\ \A i \in 1 .. n - 1 + 1 : v[i] = z[1 + i - 1]
    BY <2>1, SubSeqProperties
  <2> HIDE DEF v
  <2>3. v \in Seq(P) /\ Len(v) = n /\ \A i \in 1 .. n : v[i] = z[i]
    BY <1>1, <2>2
  <2> QED
    BY <2>3 DEF v
<1>6. SubSeq(z, 1, n) = a
  <2> DEFINE v == SubSeq(z, 1, n)
  <2>1. v \in [1 .. n -> P]
    BY <1>5, LenProperties
  <2>2. \A i \in 1 .. n : v[i] = z[i]
    BY <1>5
  <2> HIDE DEF v
  <2>3. v = a
    BY <1>3, <2>1, <2>2
  <2> QED
    BY <2>3 DEF v
<1>7. Len(a) <= Len(z) /\ SubSeq(z, 1, Len(a)) = a
  BY <1>1, <1>2, <1>4, <1>6
<1> QED
  BY <1>7 DEF Reading!Stays, AsPackets, q, z, a

\* A pack that is none ends the packet.
LEMMA LooksAway ==
  ASSUME NEW t, NEW r \in RecvState, r.nck < r.nrd, r.buf[r.nck].tag # "data"
  PROVE  /\ Reading(t)!Seen(ReadOf(r)) = ReadOf(Dropped(r))
         /\ DOMAIN ReadOf(r).packs # {}
         /\ Reading(t)!Pack(ReadOf(r)) = r.buf[r.nck]
<1>1. r.nck \in Nat /\ r.nrd \in 0 .. Cap /\ r.nrd # 0
  BY DEF RecvState
<1>2. ReadOf(r).packs = PacksFrom(r.buf, r.nck, r.nrd)
  BY <1>1 DEF ReadOf
<1>3. Reading(t)!Pack(ReadOf(r)) = r.buf[r.nck] /\ DOMAIN ReadOf(r).packs # {}
  BY <1>1, <1>2, PacksStart DEF Reading!Pack
<1>4. ReadOf(Dropped(r)) = Reading(t)!Idle
  BY DroppedType, ReadOfNone
<1> QED
  BY <1>3, <1>4 DEF Reading!Seen

\* A packet with other packs
LEMMA BehindRecord ==
  ASSUME NEW s, NEW p, NEW q
  PROVE  [[held |-> TRUE, svc |-> s, packs |-> p] EXCEPT !.packs = q]
           = [held |-> TRUE, svc |-> s, packs |-> q]
<1> DEFINE r == [held |-> TRUE, svc |-> s, packs |-> p]
           b == [r EXCEPT !.packs = q]
<1>1. r \in [held : BOOLEAN, svc : {s}, packs : {p, q}]
  OBVIOUS
<1>2. r.held = TRUE /\ r.svc = s /\ r.packs = p
  OBVIOUS
<1> HIDE DEF r
<1>3. b \in [held : BOOLEAN, svc : {s}, packs : {p, q}]
  BY <1>1
<1>4. b.held = TRUE /\ b.svc = s /\ b.packs = q
  BY <1>1, <1>2
<1> HIDE DEF b
<1>5. b = [held |-> TRUE, svc |-> s, packs |-> q]
  BY <1>3, <1>4
<1> QED
  BY <1>5 DEF r, b

\* A pack that is one leaves those behind it.
LEMMA LooksOn ==
  ASSUME NEW t, NEW r \in RecvState, r.nck < r.nrd, r.buf[r.nck].tag = "data",
         Framed(r.buf, r.nrd), Neat(r.src, r.buf, r.nrd)
  PROVE  LET l == [r EXCEPT !.nck = @ + PackSize(r.buf[r.nck].len)]
         IN  /\ Reading(t)!Seen(ReadOf(r)) = ReadOf(l)
             /\ DOMAIN ReadOf(r).packs # {}
             /\ Reading(t)!Pack(ReadOf(r)) = r.buf[r.nck]
<1> DEFINE l == [r EXCEPT !.nck = @ + PackSize(r.buf[r.nck].len)]
           e == r.nck + PackSize(r.buf[r.nck].len)
<1>1. r.nck \in Nat /\ r.nrd \in 0 .. Cap /\ r.nrd # 0 /\ r.buf \in Buffer
  BY DEF RecvState
<1>2. ReadOf(r) = [held |-> TRUE, svc |-> r.cmd, packs |-> PacksFrom(r.buf, r.nck, r.nrd)]
  BY <1>1 DEF ReadOf
<1>3. Reading(t)!Pack(ReadOf(r)) = r.buf[r.nck] /\ DOMAIN ReadOf(r).packs # {}
  BY <1>1, <1>2, PacksStart DEF Reading!Pack
<1>4. Reading(t)!Behind(PacksFrom(r.buf, r.nck, r.nrd)) = PacksFrom(r.buf, e, r.nrd)
  BY <1>1, PacksBehind
<1>5. l.nrd = r.nrd /\ l.nck = e /\ l.cmd = r.cmd /\ l.buf = r.buf
  BY DEF RecvState
<1> HIDE DEF l, e
<1>6. ReadOf(l) = [held |-> TRUE, svc |-> r.cmd, packs |-> PacksFrom(r.buf, e, r.nrd)]
  BY <1>1, <1>5 DEF ReadOf
<1>7. Reading(t)!Seen(ReadOf(r))
        = [ReadOf(r) EXCEPT !.packs = Reading(t)!Behind(ReadOf(r).packs)]
  BY <1>3 DEF Reading!Seen
<1>8. [ReadOf(r) EXCEPT !.packs = Reading(t)!Behind(ReadOf(r).packs)] = ReadOf(l)
  <2>1. ReadOf(r).packs = PacksFrom(r.buf, r.nck, r.nrd)
    BY <1>2
  <2>2. \A p, q : [[held |-> TRUE, svc |-> r.cmd, packs |-> p] EXCEPT !.packs = q]
                  = [held |-> TRUE, svc |-> r.cmd, packs |-> q]
    BY BehindRecord
  <2> QED
    BY <1>2, <1>4, <1>6, <2>1, <2>2
<1> QED
  BY <1>3, <1>7, <1>8 DEF l

\* What is handed out last
LEMMA LastHanded ==
  ASSUME NEW del \in Seq(Handed), NEW m \in Handed
  PROVE  LastOf(Append(del, m))
           = <<m.svc, [tag |-> "data", len |-> m.len, src |-> m.src, seq |-> m.seq]>>
<1> DEFINE d == Append(del, m)
<1>1. d \in Seq(Handed) /\ Len(d) = Len(del) + 1 /\ d[Len(del) + 1] = m
  BY AppendProperties
<1>2. Len(del) \in Nat
  BY LenProperties
<1> HIDE DEF d
<1>3. d # <<>>
  BY <1>1, <1>2, EmptySeq
<1>4. d[Len(d)] = m
  BY <1>1
<1> QED
  BY <1>3, <1>4 DEF LastOf, d

\* What t reads is framed and neat, and what it leaves is a queue.
LEMMA FetchesGood ==
  ASSUME TypeOK, FramingInv, NeatInv, BareInv, QueueBound,
         NEW t \in Sock, NEW r, NEW base, Fetches(t, r, base)
  PROVE  /\ r \in RecvState /\ ReadsPacks(r) /\ Neat(r.src, r.buf, r.nrd)
         /\ r.src = Foreign => Bare(r.buf, r.nrd)
         /\ base \in Seq(Datagram) /\ Len(base) <= QMax
<1>0. /\ inq[t] \in Seq(Datagram) /\ Len(inq[t]) \in Nat /\ Len(inq[t]) <= QMax
      /\ rcv[t] \in RecvState /\ ReadsPacks(rcv[t])
  BY LenProperties DEF TypeOK, QueueBound, FramingInv
<1>1. Read(t, r)
  BY DEF Fetches, Read
<1>2. r \in RecvState /\ ReadsPacks(r)
  <2>1. CASE r = rcv[t]
    BY <1>0, <2>1
  <2>2. CASE rcv[t].nrd = 0 /\ inq[t] # <<>> /\ r = Load(rcv[t], Head(inq[t]))
    <3> DEFINE d == Head(inq[t])
    <3>1. d \in FramedDatagram
      BY <2>2, DequeueType DEF FramingInv
    <3>2. d \in Datagram
      BY <3>1 DEF FramedDatagram
    <3> HIDE DEF d
    <3>3. r = Load(rcv[t], d)
      BY <2>2 DEF d
    <3> QED
      BY <1>0, <2>2, <3>1, <3>2, <3>3, LoadType, LoadReadsPacks
  <2> QED
    BY <1>1, <2>1, <2>2 DEF Read
<1>3. base \in Seq(Datagram) /\ Len(base) <= QMax
  <2>1. inq[t] # <<>> => Tail(inq[t]) \in Seq(Datagram) /\ Len(Tail(inq[t])) = Len(inq[t]) - 1
    BY <1>0, HeadTailProperties
  <2>2. QMax \in Nat
    OBVIOUS
  <2>3. CASE base = inq[t]
    BY <1>0, <2>3
  <2>4. CASE inq[t] # <<>> /\ base = Tail(inq[t])
    BY <1>0, <2>1, <2>2, <2>4
  <2> QED
    BY <2>3, <2>4 DEF Fetches
<1> QED
  BY <1>1, <1>2, <1>3, ReadNeat, ReadBare

\* Looking at a pack is what PackReader does.
LEMMA ParseReads ==
  ASSUME TypeOK, FramingInv, NeatInv, BareInv, QueueBound,
         NEW t \in Subs, NEW r, NEW queues \in [Sock -> Seq(Datagram)],
         Fetches(t, r, queues[t]), r.nck < r.nrd,
         NEW fok \in BOOLEAN, NEW cok \in BOOLEAN, Parse(t, r, queues, fok, cok)
  PROVE  Reading(t)!ReaderNext
<1> DEFINE base == queues[t]
           c == r.buf[r.nck]
<1>0. t \in Sock
  OBVIOUS
<1>1. /\ r \in RecvState /\ ReadsPacks(r) /\ Neat(r.src, r.buf, r.nrd)
      /\ r.src = Foreign => Bare(r.buf, r.nrd)
      /\ base \in Seq(Datagram) /\ Len(base) <= QMax
  BY <1>0, FetchesGood
<1>2. /\ Reading(t)!Pending
      /\ Reading(t)!Current = ReadOf(r)
      /\ Reading(t)!Rest = AsPackets(base)
  BY <1>0, FetchesCurrent
<1>3. Reading(t)!Stays(AsPackets(base))
  <2>1. inq'[t] = base \/ \E ds \in Seq(Datagram) : inq'[t] = Enqueue(base, ds)
    <3>1. CASE PackPing(t, PONG, queues, fok, cok)
      <4> DEFINE ds == PingPackets(t, snd[t], PONG, fok, cok)
      <4>1. ds \in Seq(Datagram)
        <5>1. snd[t] \in SendState /\ PONG \in Svc
          BY <1>0, CtrlSvcs DEF TypeOK
        <5>2. DataPacket(t, snd[t]) \in Datagram
          BY <1>0, <5>1, DataPacketType
        <5>3. \A f \in SendState : CtrlPacket(t, f, PONG) \in Datagram
          BY <1>0, <5>1, CtrlPacketType
        <5> QED
          BY <1>0, <5>1, <5>2, <5>3, PingPacketsType
      <4>2. inq' = Multicast(queues, ds)
        BY <3>1 DEF PackPing
      <4> HIDE DEF ds
      <4> QED
        BY <1>0, <4>1, <4>2 DEF Multicast
    <3>2. CASE inq' = queues
      BY <3>2
    <3> QED
      BY <3>1, <3>2 DEF Parse
  <2> HIDE DEF base
  <2>2. /\ inq'[t] \in Seq(Datagram) /\ Len(base) <= Len(inq'[t])
        /\ \A i \in 1 .. Len(base) : inq'[t][i] = base[i]
    <3>1. CASE inq'[t] = base
      BY <1>1, <3>1, LenProperties
    <3>2. ASSUME NEW ds \in Seq(Datagram), inq'[t] = Enqueue(base, ds)
          PROVE  /\ inq'[t] \in Seq(Datagram) /\ Len(base) <= Len(inq'[t])
                 /\ \A i \in 1 .. Len(base) : inq'[t][i] = base[i]
      BY <1>1, <3>2, EnqueueKeeps
    <3> QED
      BY <2>1, <3>1, <3>2
  <2> QED
    BY <1>1, <2>2, QueueStays
<1> HIDE DEF base
<1>4. CASE c.tag # "data"
  <2>1. rcv'[t] = Dropped(r) /\ delivered' = delivered
    BY <1>0, <1>4 DEF Parse, TypeOK
  <2>2. /\ Reading(t)!Seen(ReadOf(r)) = ReadOf(Dropped(r))
        /\ DOMAIN ReadOf(r).packs # {}
        /\ Reading(t)!Pack(ReadOf(r)) = c
    BY <1>1, <1>4, LooksAway
  <2>3. Reading(t)!Looks /\ ~ Reading(t)!Gives
    BY <1>2, <1>4, <2>2 DEF Reading!Looks, Reading!Gives
  <2>4. Reading(t)!ChckMsg
    BY <1>2, <2>1, <2>2, <2>3 DEF Reading!ChckMsg
  <2> QED
    BY <1>2, <1>3, <2>4 DEF Reading!ReaderNext
<1>5. CASE c.tag = "data"
  <2> DEFINE l == [r EXCEPT !.nck = @ + PackSize(c.len)]
             m == [src |-> r.src, seq |-> c.seq, svc |-> r.cmd, len |-> c.len,
                   pno |-> r.pno, nr |-> r.nr]
  <2>0. r.nck \in Offs /\ c \in Cell /\ c.src = r.src
    <3>1. r.nck \in Offs /\ c \in Cell
      BY <1>1 DEF RecvState, Buffer, Offs
    <3> QED
      BY <1>1, <1>5, <3>1 DEF Neat
  <2>1. rcv'[t] = l /\ delivered'[t] = Append(delivered[t], m)
    BY <1>0, <1>5 DEF Parse, Aux, TypeOK
  <2>2. Framed(r.buf, r.nrd)
    <3>1. r.src # Foreign
      BY <1>1, <1>5, <2>0 DEF Bare
    <3> QED
      BY <1>1, <3>1 DEF ReadsPacks
  <2>3. /\ Reading(t)!Seen(ReadOf(r)) = ReadOf(l)
        /\ DOMAIN ReadOf(r).packs # {}
        /\ Reading(t)!Pack(ReadOf(r)) = c
    BY <1>1, <1>5, <2>2, LooksOn
  <2>4. Reading(t)!Looks /\ Reading(t)!Gives
    BY <1>2, <1>5, <2>3 DEF Reading!Looks, Reading!Gives
  <2>5. m \in Handed
    BY <1>1, <2>0 DEF RecvState, Cell, Handed
  <2>6. c = [tag |-> "data", len |-> c.len, src |-> r.src, seq |-> c.seq]
    BY <1>5, <2>0 DEF Cell
  <2>7. m.svc = r.cmd /\ m.len = c.len /\ m.src = r.src /\ m.seq = c.seq
    OBVIOUS
  <2>8. ReadOf(r).svc = r.cmd
    BY <1>1 DEF ReadOf, RecvState
  <2> HIDE DEF l, m, c
  <2>9. LastOf(delivered'[t]) = <<r.cmd, c>>
    <3>1. delivered[t] \in Seq(Handed)
      BY <1>0 DEF TypeOK
    <3>2. LastOf(delivered'[t])
            = <<m.svc, [tag |-> "data", len |-> m.len, src |-> m.src, seq |-> m.seq]>>
      BY <2>1, <2>5, <3>1, LastHanded
    <3> QED
      BY <2>6, <2>7, <3>2
  <2>10. Reading(t)!ChckMsg
    BY <1>2, <2>1, <2>3, <2>4, <2>8, <2>9 DEF Reading!ChckMsg
  <2> QED
    BY <1>2, <1>3, <2>10 DEF Reading!ReaderNext
<1> QED
  BY <1>4, <1>5

\* Every step is one of PackReader, or none.
LEMMA NextReads ==
  ASSUME TypeOK, FramingInv, NeatInv, BareInv, QueueBound, [Next]_vars, NEW t \in Subs
  PROVE  Reading(t)!ReaderNext
<1>0. /\ t \in Sock /\ inq[t] \in Seq(Datagram) /\ inq \in [Sock -> Seq(Datagram)]
      /\ rcv[t] \in RecvState /\ ReadsPacks(rcv[t])
  BY DEF TypeOK, FramingInv
<1>1. ASSUME rcv'[t] = rcv[t], delivered'[t] = delivered[t]
      PROVE  Reading(t)!ReaderNext
  BY <1>1 DEF Reading!ReaderNext
<1>2. \A q \in Seq(Datagram) : inq'[t] = q => Reading(t)!Stays(AsPackets(q))
  BY QueueStays, LenProperties
<1>3. ASSUME NEW u \in Subs, ChckMsg(u)
      PROVE  Reading(t)!ReaderNext
  <2>1. ASSUME NEW fok \in SendtoOK, NEW cok \in SendtoOK, ChckNext(u, fok, cok)
        PROVE  Reading(t)!ReaderNext
    <3>1. rcv[u].nck < rcv[u].nrd /\ Parse(u, rcv[u], inq, fok, cok)
      BY <2>1 DEF ChckNext
    <3>2. CASE u = t
      <4>1. Fetches(t, rcv[t], inq[t])
        BY <1>0, <3>1, <3>2 DEF Fetches, RecvState
      <4> QED
        BY <1>0, <3>1, <3>2, <4>1, ParseReads, SendtoType, ZenonT(30)
    <3>3. CASE u # t
      BY <1>0, <1>1, <3>1, <3>3, ParseRcvOther
    <3> QED
      BY <3>2, <3>3
  <2>2. ASSUME NEW fok \in SendtoOK, NEW cok \in SendtoOK, ChckFresh(u, fok, cok)
        PROVE  Reading(t)!ReaderNext
    <3> DEFINE r == Load(rcv[u], Head(inq[u]))
               queues == [inq EXCEPT ![u] = Tail(@)]
    <3>1. /\ rcv[u].nrd = 0 /\ inq[u] # <<>>
          /\ \/ r.nck < r.nrd /\ Parse(u, r, queues, fok, cok)
             \/ /\ r.nck >= r.nrd /\ rcv' = [rcv EXCEPT ![u] = r]
                /\ inq' = queues /\ delivered' = delivered
      BY <2>2 DEF ChckFresh
    <3>2. CASE u # t
      <4> HIDE DEF r, queues
      <4>1. CASE Parse(u, r, queues, fok, cok)
        BY <1>0, <1>1, <3>2, <4>1, ParseRcvOther
      <4>2. CASE rcv' = [rcv EXCEPT ![u] = r] /\ delivered' = delivered
        <5>1. rcv'[t] = rcv[t] /\ delivered'[t] = delivered[t]
          BY <1>0, <3>2, <4>2 DEF TypeOK
        <5> QED
          BY <1>1, <5>1
      <4> QED
        BY <3>1, <4>1, <4>2
    <3>3. CASE u = t
      <4>1. Fetches(t, r, queues[t])
        BY <1>0, <3>1, <3>3 DEF Fetches
      <4>2. queues \in [Sock -> Seq(Datagram)]
        BY <1>0, <3>1, DequeueType
      <4> HIDE DEF r, queues
      <4>3. CASE r.nck < r.nrd /\ Parse(u, r, queues, fok, cok)
        <5>1. fok \in BOOLEAN /\ cok \in BOOLEAN
          BY SendtoType
        <5>2. Parse(t, r, queues, fok, cok) /\ r.nck < r.nrd
          BY <3>3, <4>3
        <5> QED
          BY <1>0, <4>1, <4>2, <5>1, <5>2, ParseReads, ZenonT(30)
      <4>4. CASE /\ r.nck >= r.nrd /\ rcv' = [rcv EXCEPT ![u] = r]
                 /\ inq' = queues /\ delivered' = delivered
        <5>1. /\ Reading(t)!Pending
              /\ Reading(t)!Current = ReadOf(r)
              /\ Reading(t)!Rest = AsPackets(queues[t])
          BY <1>0, <4>1, FetchesCurrent
        <5>2. r \in RecvState
          BY <1>0, <4>1, FetchesGood
        <5>3. ReadOf(r) = Reading(t)!Idle
          <6>1. r.nck = 0
            BY <1>0, <3>1, <3>3 DEF r, Load, ReadsPacks
          <6>2. r.nrd = 0
            BY <4>4, <5>2, <6>1 DEF RecvState
          <6> QED
            BY <6>2, ReadOfNone
        <5>4. ~ Reading(t)!Looks
          BY <5>1, <5>3 DEF Reading!Looks, Reading!Idle
        <5>5. rcv'[t] = r
          BY <1>0, <3>3, <4>4 DEF TypeOK
        <5>6. Reading(t)!ChckMsg
          BY <4>4, <5>1, <5>3, <5>4, <5>5 DEF Reading!ChckMsg, Reading!Gives
        <5>7. Reading(t)!Stays(AsPackets(queues[t]))
          BY <1>0, <1>2, <4>2, <4>4
        <5> QED
          BY <5>1, <5>6, <5>7 DEF Reading!ReaderNext
      <4> QED
        BY <3>1, <4>3, <4>4 DEF r, queues
    <3> QED
      BY <3>2, <3>3
  <2>3. CASE ChckEnd(u)
    <3>1. CASE u # t
      BY <1>0, <1>1, <2>3, <3>1 DEF ChckEnd, TypeOK
    <3>2. CASE u = t
      <4>1. /\ rcv[t].nrd > 0 /\ rcv[t].nck >= rcv[t].nrd
            /\ rcv'[t] = Dropped(rcv[t])
            /\ inq' = inq /\ delivered' = delivered
        BY <1>0, <2>3, <3>2 DEF ChckEnd, TypeOK
      <4>2. Fetches(t, rcv[t], inq[t])
        BY <4>1 DEF Fetches
      <4>3. /\ Reading(t)!Pending
            /\ Reading(t)!Current = ReadOf(rcv[t])
            /\ Reading(t)!Rest = AsPackets(inq[t])
        BY <1>0, <4>2, FetchesCurrent
      <4>4. ~ Reading(t)!Looks
        <5>1. ReadOf(rcv[t]).packs = PacksFrom(rcv[t].buf, rcv[t].nck, rcv[t].nrd)
          BY <4>1 DEF ReadOf
        <5>2. rcv[t].nck \in Nat /\ rcv[t].nrd \in 0 .. Cap
          BY <1>0 DEF RecvState
        <5>3. Heads(rcv[t].buf, rcv[t].nck, rcv[t].nrd) = {}
          BY <4>1, <5>2, HeadsStart
        <5>4. DOMAIN ReadOf(rcv[t]).packs = {}
          BY <5>1, <5>3 DEF PacksFrom
        <5> QED
          BY <4>3, <5>4 DEF Reading!Looks
      <4>5. ReadOf(rcv'[t]) = Reading(t)!Idle
        BY <1>0, <4>1, DroppedType, ReadOfNone
      <4>6. Reading(t)!ChckMsg
        BY <4>1, <4>3, <4>4, <4>5 DEF Reading!ChckMsg, Reading!Gives
      <4> QED
        BY <1>0, <1>2, <4>1, <4>3, <4>6 DEF Reading!ReaderNext
    <3> QED
      BY <3>1, <3>2
  <2> QED
    BY <1>3, <2>1, <2>2, <2>3 DEF ChckMsg
<1>4. ASSUME NEW u \in Subs, Dscrd(u)
      PROVE  Reading(t)!ReaderNext
  <2>1. CASE u # t
    BY <1>0, <1>1, <1>4, <2>1 DEF Dscrd, TypeOK
  <2>2. CASE u = t
    <3>0. delivered' = delivered
      BY <1>4 DEF Dscrd
    <3>1. CASE /\ rcv[t].nrd = 0 /\ inq[t] # <<>>
               /\ rcv' = [rcv EXCEPT ![t] = Load(@, Head(inq[t]))]
               /\ inq' = [inq EXCEPT ![t] = Tail(@)]
      <4> DEFINE r == Load(rcv[t], Head(inq[t]))
                 base == Tail(inq[t])
      <4>1. rcv'[t] = r /\ inq'[t] = base
        BY <1>0, <3>1 DEF TypeOK
      <4>2. Fetches(t, r, base)
        BY <3>1 DEF Fetches
      <4> HIDE DEF r, base
      <4>3. /\ Reading(t)!Pending
            /\ Reading(t)!Current = ReadOf(r)
            /\ Reading(t)!Rest = AsPackets(base)
            /\ base \in Seq(Datagram)
        BY <1>0, <4>2, FetchesCurrent, FetchesGood
      <4>4. ReadOf(rcv[t]).held = FALSE
        BY <3>1 DEF ReadOf
      <4>5. Reading(t)!Current
              = Reading(t)!Loaded(Head([i \in DOMAIN inq[t] |-> PacketOf(inq[t][i])]))
        BY <4>4 DEF Reading!Current
      <4>6. Reading(t)!Dscrd
        BY <3>0, <4>1, <4>3, <4>4, <4>5 DEF Reading!Dscrd
      <4> QED
        BY <1>2, <4>1, <4>3, <4>6 DEF Reading!ReaderNext
    <3>2. CASE /\ rcv[t].nrd > 0 /\ rcv' = [rcv EXCEPT ![t] = Dropped(@)]
               /\ inq' = inq
      <4>1. rcv'[t] = Dropped(rcv[t])
        BY <1>0, <3>2 DEF TypeOK
      <4>2. Fetches(t, rcv[t], inq[t])
        BY <3>2 DEF Fetches
      <4>3. /\ Reading(t)!Pending
            /\ Reading(t)!Rest = AsPackets(inq[t])
        BY <1>0, <4>2, FetchesCurrent
      <4>4. ReadOf(rcv[t]).held = TRUE
        BY <3>2 DEF ReadOf
      <4>5. ReadOf(rcv'[t]) = Reading(t)!Idle
        BY <1>0, <4>1, DroppedType, ReadOfNone
      <4>6. Reading(t)!Dscrd
        BY <3>0, <4>3, <4>4, <4>5 DEF Reading!Dscrd
      <4> QED
        BY <1>0, <1>2, <3>2, <4>3, <4>6 DEF Reading!ReaderNext
    <3> QED
      BY <1>4, <2>2, <3>1, <3>2 DEF Dscrd
  <2> QED
    BY <2>1, <2>2
<1>5. CASE \/ \E s \in Pubs : Publish(s)
           \/ \E s \in Pingers, fok, cok \in SendtoOK : SendPing(s, fok, cok)
           \/ \E u \in Subs : Network(u)
           \/ UNCHANGED vars
  <2>1. UNCHANGED <<rcv, delivered>>
    <3>1. CASE \E s \in Pubs : Publish(s)
      <4>1. ASSUME NEW s, NEW svc, NEW dlen, NEW ok, PackMsg(s, svc, dlen, ok)
            PROVE  UNCHANGED <<rcv, delivered>>
        BY <4>1 DEF PackMsg
      <4>2. ASSUME NEW s, NEW ok, Flush(s, ok)
            PROVE  UNCHANGED <<rcv, delivered>>
        BY <4>2 DEF Flush
      <4> QED
        BY <3>1, <4>1, <4>2 DEF Publish
    <3>2. CASE \E s \in Pingers, fok, cok \in SendtoOK : SendPing(s, fok, cok)
      BY <3>2 DEF SendPing
    <3>3. CASE \E u \in Subs : Network(u)
      BY <3>3 DEF Network, Lose, Duplicate, Reorder, ForeignSend, Misbehave
    <3>4. CASE UNCHANGED vars
      BY <3>4 DEF vars
    <3> QED
      BY <1>5, <3>1, <3>2, <3>3, <3>4
  <2> QED
    BY <1>1, <2>1
<1> QED
  BY <1>3, <1>4, <1>5 DEF Next

\* Nothing has been read at the start.
LEMMA InitReads == Init => \A t \in Subs : Reading(t)!ReaderInit
<1> SUFFICES ASSUME Init, NEW t \in Subs PROVE Reading(t)!ReaderInit
  OBVIOUS
<1>1. inq[t] = <<>> /\ rcv[t].nrd = 0 /\ delivered[t] = <<>>
  BY DEF Init
<1>2. [i \in DOMAIN inq[t] |-> PacketOf(inq[t][i])] = <<>>
  BY <1>1
<1>3. ReadOf(rcv[t]) = Reading(t)!Idle
  BY <1>1, ReadOfNone
<1> QED
  BY <1>1, <1>2, <1>3 DEF Reading!ReaderInit, LastOf

\* Every subscriber reads whole packets, pack by pack.
THEOREM ReaderCorrect == Spec => ImplementsReader
<1> DEFINE Inv == TypeOK /\ FramingInv /\ NeatInv /\ BareInv /\ QueueBound
<1>1. Init => Inv
  BY InitType, InitFraming, InitNeat, InitBare, InitQueueBound
<1>2. Inv /\ [Next]_vars => Inv'
  BY NextType, NextFraming, NextNeat, NextBare, NextQueueBound
<1>3. Init => \A t \in Subs : Reading(t)!ReaderInit
  BY InitReads
<1>4. Inv /\ [Next]_vars => [\A t \in Subs : Reading(t)!ReaderNext]_vars
  BY NextReads
<1> QED
  BY <1>1, <1>2, <1>3, <1>4, PTL DEF Spec, ImplementsReader
=============================================================================
