---------------------------- MODULE UdPing_proofs ----------------------------
(***************************************************************************)
(* ud-ping counts right and shows what it reads, for any count, any hosts  *)
(* and any amount of other traffic.                                        *)
(***************************************************************************)
EXTENDS UdPing, TLAPS

USE PingAssumption

-----------------------------------------------------------------------------
(* The count.  It says what is left to send as long as the timer's         *)
(* callback may still run; then it has wrapped and says nothing.           *)

TimerRuns == Running \/ "ptm" \in last

CountInv ==
  /\ loop \in {"on", "count", "signal"}
  /\ sent \in Nat /\ refused \in Nat
  /\ sent + refused <= Count
  /\ TimerRuns => cnt = Count - (sent + refused)
  /\ loop = "count" => sent + refused = Count /\ "ptm" \notin last

LEMMA CountInit == Init => CountInv
BY DEF Init, CountInv, TimerRuns, Running

\* The timer's callback: an end with everything tried, or one attempt more.
LEMMA PtmCounts ==
  ASSUME Count < UInt, CountInv, PtmCb
  PROVE  CountInv'
<1>1. TimerRuns /\ cnt = Count - (sent + refused) /\ loop # "count"
  BY DEF PtmCb, CountInv, TimerRuns, Running
<1>2. CASE cnt = 0
  <2>1. sent + refused = Count
    BY <1>1, <1>2 DEF CountInv
  <2>2. loop' = "count" /\ "ptm" \notin last' /\ sent' = sent /\ refused' = refused
    BY <1>2 DEF PtmCb, Stop
  <2> QED
    BY <2>1, <2>2 DEF CountInv, TimerRuns, Running
<1>3. CASE cnt # 0
  <2>1. /\ loop' = loop /\ cnt' = (cnt - 1) % UInt
        /\ \/ sent' = sent + 1 /\ refused' = refused
           \/ refused' = refused + 1 /\ sent' = sent
    BY <1>3 DEF PtmCb, SendPing, Runs
  <2>2. UInt = 65536
    BY DEF UInt
  <2>3. cnt' = cnt - 1
    BY <1>1, <1>3, <2>1, <2>2 DEF CountInv
  <2> QED
    BY <1>1, <1>3, <2>1, <2>3 DEF CountInv, TimerRuns, Running
<1> QED
  BY <1>2, <1>3

\* Nothing else counts, nor brings the timer back.
LEMMA OthersCountNot ==
  ASSUME CountInv, UNCHANGED <<cnt, sent, refused>>,
         loop' = loop \/ (Running /\ loop' = "signal"),
         "ptm" \in last' => TimerRuns
  PROVE  CountInv'
BY DEF CountInv, TimerRuns, Running

LEMMA CountNext ==
  ASSUME Count < UInt, CountInv, [Next]_vars
  PROVE  CountInv'
<1>1. CASE PtmCb
  BY <1>1, PtmCounts
<1>2. CASE SubCb
  BY <1>2, OthersCountNot DEF SubCb, Runs, TimerRuns
<1>3. CASE Signal
  BY <1>3, OthersCountNot DEF Signal, TimerRuns
<1>4. CASE Chatter
  BY <1>4, OthersCountNot DEF Chatter, TimerRuns, lvars
<1>5. ASSUME NEW h \in Hosts, Answer(h) PROVE CountInv'
  BY <1>5, OthersCountNot DEF Answer, TimerRuns, lvars
<1>6. CASE UNCHANGED vars
  BY <1>6, OthersCountNot DEF vars, TimerRuns, lvars
<1> QED
  BY <1>1, <1>2, <1>3, <1>4, <1>5, <1>6 DEF Next

\* ud-ping makes --count attempts to send a PING if it ends by itself and never
\* more, no matter which of them are refused, when a signal ends it and which
\* callbacks still run then.
THEOREM ExactCountCorrect ==
  ASSUME Count < UInt
  PROVE  Spec => []ExactCount
<1>1. CountInv => ExactCount
  BY DEF CountInv, ExactCount
<1>2. CountInv /\ [Next]_vars => CountInv'
  BY CountNext
<1> QED
  BY <1>1, <1>2, CountInit, PTL DEF Spec

-----------------------------------------------------------------------------
(* What is shown *)

Lines == [lines : Nat, name : Nat]

ShownInv ==
  /\ read \in [Hosts -> Nat]
  /\ shown \in [Hosts -> Lines]
  /\ AnswersShown
  /\ NamesWhole

\* A name that fits comes out as it went in.
LEMMA NamesFit ==
  ASSUME NEW n \in 1 .. 58
  PROVE  Accepts(n) /\ WireLen(n) = n
<1>1. MAX_HNZ = 58 /\ MsgSize = 64 /\ HeadSize = 5
  BY DEF MAX_HNZ, MsgSize, HeadSize
<1>2. n % 256 = n
  OBVIOUS
<1>3. WireLen(n) = n
  BY <1>1, <1>2 DEF WireLen
<1> QED
  BY <1>1, <1>3 DEF Accepts, Dlen

LEMMA ShownInit == Init => ShownInv
BY DEF Init, ShownInv, Lines, AnswersShown, NamesWhole

LEMMA ShownNext ==
  ASSUME Hosts \subseteq 1 .. 58, ShownInv, [Next]_vars
  PROVE  ShownInv'
<1>1. CASE UNCHANGED <<read, shown>>
  BY <1>1 DEF ShownInv, AnswersShown, NamesWhole
<1>2. ASSUME NEW h, h \in Hosts,
             read' = [read EXCEPT ![h] = @ + 1],
             shown' = [shown EXCEPT ![h] = [lines |-> @.lines + 1, name |-> h]]
      PROVE  ShownInv'
  <2>1. read' \in [Hosts -> Nat] /\ shown' \in [Hosts -> Lines]
    BY <1>2 DEF ShownInv, Lines
  <2>2. ASSUME NEW g \in Hosts
        PROVE  /\ shown'[g].lines = read'[g]
               /\ shown'[g].lines > 0 => shown'[g].name = g
    <3>1. CASE g = h
      <4>1. shown'[g] = [lines |-> shown[h].lines + 1, name |-> h]
        BY <1>2, <3>1 DEF ShownInv
      <4>2. read'[g] = read[h] + 1
        BY <1>2, <3>1 DEF ShownInv
      <4> QED
        BY <1>2, <3>1, <4>1, <4>2 DEF ShownInv, AnswersShown
    <3>2. CASE g # h
      BY <1>2, <3>2 DEF ShownInv, AnswersShown, NamesWhole
    <3> QED
      BY <3>1, <3>2
  <2> QED
    BY <2>1, <2>2 DEF ShownInv, AnswersShown, NamesWhole
<1>3. CASE SubCb
  <2>1. CASE Gives /\ Current.svc = PONG
    <3> DEFINE h == tgt'[2].from
    <3>1. /\ read' = [read EXCEPT ![h] = @ + 1]
          /\ shown' = IF ~ Accepts(h) THEN shown
                      ELSE [shown EXCEPT ![h] = [lines |-> @.lines + 1, name |-> WireLen(h)]]
      BY <1>3, <2>1 DEF SubCb
    <3> HIDE DEF h
    <3>2. CASE h \in Hosts
      <4>1. Accepts(h) /\ WireLen(h) = h
        BY <3>2, NamesFit
      <4> QED
        BY <1>2, <3>1, <3>2, <4>1
    <3>3. CASE h \notin Hosts
      <4>1. read' = read /\ shown' = shown
        BY <3>1, <3>3 DEF ShownInv
      <4> QED
        BY <1>1, <4>1
    <3> QED
      BY <3>2, <3>3
  <2>2. CASE ~ (Gives /\ Current.svc = PONG)
    BY <1>1, <1>3, <2>2 DEF SubCb
  <2> QED
    BY <2>1, <2>2
<1>4. CASE PtmCb \/ Signal \/ Chatter \/ (\E h \in Hosts : Answer(h)) \/ UNCHANGED vars
  BY <1>1, <1>4 DEF PtmCb, Signal, Chatter, Answer, vars
<1> QED
  BY <1>3, <1>4 DEF Next

\* Every PONG that is read is shown, if no host has a name that is too long.
THEOREM AnswersShownCorrect ==
  ASSUME Hosts \subseteq 1 .. 58
  PROVE  Spec => []AnswersShown
<1>1. ShownInv => AnswersShown
  BY DEF ShownInv
<1>2. ShownInv /\ [Next]_vars => ShownInv'
  BY ShownNext
<1> QED
  BY <1>1, <1>2, ShownInit, PTL DEF Spec

\* And with its whole name.
THEOREM NamesWholeCorrect ==
  ASSUME Hosts \subseteq 1 .. 58
  PROVE  Spec => []NamesWhole
<1>1. ShownInv => NamesWhole
  BY DEF ShownInv
<1>2. ShownInv /\ [Next]_vars => ShownInv'
  BY ShownNext
<1> QED
  BY <1>1, <1>2, ShownInit, PTL DEF Spec
=============================================================================
