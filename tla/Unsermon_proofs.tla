--------------------------- MODULE Unsermon_proofs ---------------------------
(***************************************************************************)
(* unsermon's reports are neither too many nor too few, and it closes what *)
(* it opened, for any period, any number of channels and any of them that  *)
(* cannot be opened.                                                       *)
(***************************************************************************)
EXTENDS Unsermon, TLAPS

USE ActivityAssumption, MonAssumption

-----------------------------------------------------------------------------
(* Reports *)

TimesInv ==
  /\ now \in Nat /\ last_act \in Nat /\ last_rpt \in Nat
  /\ Reminded

LEMMA TimesInit == Init => TimesInv
BY DEF Init, ActivityInit, Start, TimesInv, Reminded

\* An event that is not reported is too close to the last event or to the
\* last report.
LEMMA ActivityReminds == TimesInv /\ Activity => TimesInv'
<1> SUFFICES ASSUME TimesInv, Activity PROVE TimesInv'
  OBVIOUS
<1>1. CASE Due
  BY <1>1 DEF Activity, TimesInv, Reminded
<1>2. CASE ~ Due
  <2>1. now <= last_rpt + Period
    BY <1>2 DEF Due, Throttled, TimesInv, Reminded
  <2> QED
    BY <1>2, <2>1 DEF Activity, TimesInv, Reminded
<1> QED
  BY <1>1, <1>2

\* What a step does to the times.
LEMMA NextTimes == [Next]_vars => Activity \/ Tick \/ UNCHANGED avars
BY DEF Next, vars, OpenCtrl, OpenBeef, Run, Second, Signal, Detach, Done, BeefCb

LEMMA TimesNext == TimesInv /\ [Next]_vars => TimesInv'
<1>1. ASSUME TimesInv, Tick PROVE TimesInv'
  BY <1>1 DEF Tick, TimesInv, Reminded
<1>2. ASSUME TimesInv, UNCHANGED avars PROVE TimesInv'
  BY <1>2 DEF avars, TimesInv, Reminded
<1> QED
  BY <1>1, <1>2, ActivityReminds, NextTimes

\* Activity comes with a report that is a period old at most.
THEOREM RemindedCorrect == Spec => []Reminded
<1>1. TimesInv => Reminded
  BY DEF TimesInv
<1> QED
  BY <1>1, TimesInit, TimesNext, PTL DEF Spec

\* And there is a period between two reports at least.
THEOREM ReportsApartCorrect == Spec => ReportsApart
<1>1. TimesInv /\ [Next]_vars => [last_rpt' # last_rpt => last_rpt' >= last_rpt + Period]_avars
  <2>1. ASSUME TimesInv, Activity, last_rpt' # last_rpt
        PROVE  last_rpt' >= last_rpt + Period
    BY <2>1 DEF Activity, Due, Throttled, TimesInv
  <2>2. Tick => last_rpt' = last_rpt
    BY DEF Tick
  <2> QED
    BY <2>1, <2>2, NextTimes
<1> QED
  BY <1>1, TimesInit, TimesNext, PTL DEF Spec, ReportsApart

-----------------------------------------------------------------------------
(* Sockets *)

Phases == {"ctrl", "beef", "loop", "detach", "done", "crashed"}

\* The first slot that has not been gone through at the end
Left == IF phase \in {"detach", "done", "crashed"} THEN i ELSE 0

\* Slots are filled one behind the other, each with a socket of its own, what
\* is open is in one the shutting down has yet to come to, and what that has
\* gone through had a socket.
SlotsInv ==
  /\ phase \in Phases
  /\ i \in Nat /\ j \in Nat /\ nbeef \in Nat /\ opened \in Nat
  /\ beef \in [Slot -> Nat]
  /\ \A k \in Slot : beef[k] <= opened
  /\ \A k \in Slot : k > j => beef[k] = None
  /\ \A k, l \in Slot : beef[k] = beef[l] /\ k # l => beef[k] = None
  /\ phase \in {"ctrl", "beef"} => j <= i /\ i <= Chans
  /\ phase = "ctrl" => i = 0 /\ beef[0] = None
  /\ j <= Chans /\ nbeef = IF j = 0 THEN Chans ELSE j
  /\ \A k \in Slot : 0 < k /\ k <= j => beef[k] # None
  /\ phase \in {"detach", "done"} => \A k \in Slot : k < i => beef[k] # None
  /\ phase = "crashed" => i - 1 \in 0 .. nbeef /\ beef[i - 1] = None
  /\ open = {beef[k] : k \in {l \in Slot : l >= Left}} \ {None}
  /\ phase = "done" => i > nbeef

LEMMA SlotsInit == Init => SlotsInv
<1> SUFFICES ASSUME Init PROVE SlotsInv
  OBVIOUS
<1>1. {beef[k] : k \in {l \in Slot : l >= Left}} \ {None} = {}
  BY DEF Init
<1> QED
  BY <1>1 DEF Init, SlotsInv, Phases, Slot, None

\* A new socket goes into an empty slot.
LEMMA TakeFills ==
  ASSUME SlotsInv, NEW k \in Slot, beef[k] = None, Take(k), Left = 0
  PROVE  /\ opened' \in Nat
         /\ beef' \in [Slot -> Nat]
         /\ \A l \in Slot : beef'[l] = IF l = k THEN opened' ELSE beef[l]
         /\ \A l \in Slot : beef'[l] <= opened'
         /\ \A l, m \in Slot : beef'[l] = beef'[m] /\ l # m => beef'[l] = None
         /\ open' = {beef'[l] : l \in Slot} \ {None}
<1>1. opened' = opened + 1 /\ opened' \in Nat
  BY DEF Take, SlotsInv
<1>2. beef' \in [Slot -> Nat] /\ \A l \in Slot : beef'[l] = IF l = k THEN opened' ELSE beef[l]
  BY <1>1 DEF Take, SlotsInv
<1>3. \A l \in Slot : beef[l] < opened' /\ beef'[l] <= opened'
  BY <1>1, <1>2 DEF SlotsInv
<1>4. \A l, m \in Slot : beef'[l] = beef'[m] /\ l # m => beef'[l] = None
  <2> SUFFICES ASSUME NEW l \in Slot, NEW m \in Slot, beef'[l] = beef'[m], l # m
               PROVE  beef'[l] = None
    OBVIOUS
  <2>1. l # k /\ m # k
    BY <1>1, <1>2, <1>3 DEF SlotsInv
  <2> QED
    BY <1>2, <2>1 DEF SlotsInv
<1>5. open = {beef[l] : l \in Slot} \ {None}
  BY DEF SlotsInv, Slot
<1>6. opened' # None
  BY <1>1 DEF None, SlotsInv
<1>7. open' = {beef'[l] : l \in Slot} \ {None}
  BY <1>2, <1>5, <1>6 DEF Take
<1> QED
  BY <1>1, <1>2, <1>3, <1>4, <1>7

LEMMA SlotsNext == SlotsInv /\ [Next]_vars => SlotsInv'
<1> SUFFICES ASSUME SlotsInv, [Next]_vars PROVE SlotsInv'
  OBVIOUS
<1>0. /\ Slot = 0 .. Chans /\ None = 0
      /\ phase \notin {"detach", "done", "crashed"} => Left = 0 /\ {l \in Slot : l >= Left} = Slot
  BY DEF Slot, None, Left
<1>1. CASE OpenCtrl
  <2>1. CASE Take(0)
    <3>1. Left = 0 /\ Left' = 0 /\ 0 \in Slot /\ beef[0] = None
      BY <1>0, <1>1 DEF OpenCtrl, Left, SlotsInv
    <3>2. /\ opened' \in Nat
          /\ beef' \in [Slot -> Nat]
          /\ \A l \in Slot : beef'[l] = IF l = 0 THEN opened' ELSE beef[l]
          /\ \A l \in Slot : beef'[l] <= opened'
          /\ \A l, m \in Slot : beef'[l] = beef'[m] /\ l # m => beef'[l] = None
          /\ open' = {beef'[l] : l \in Slot} \ {None}
      BY <2>1, <3>1, TakeFills
    <3>3. {l \in Slot : l >= Left'} = Slot
      BY <1>0, <3>1
    <3> QED
      BY <1>0, <1>1, <3>2, <3>3 DEF OpenCtrl, SlotsInv, Phases
  <2>2. CASE UNCHANGED <<beef, open, opened>>
    <3>1. Left = Left'
      BY <1>1 DEF OpenCtrl, Left
    <3> QED
      BY <1>0, <1>1, <2>2, <3>1 DEF OpenCtrl, SlotsInv, Phases
  <2> QED
    BY <1>1, <2>1, <2>2 DEF OpenCtrl
<1>2. CASE OpenBeef
  <2>1. CASE Take(j + 1) /\ j' = j + 1 /\ nbeef' = Filled
    <3>0. i' = i + 1 /\ phase' = phase /\ phase = "beef" /\ i < Chans
      BY <1>2 DEF OpenBeef
    <3>1. Left = 0 /\ Left' = 0 /\ j + 1 \in Slot /\ beef[j + 1] = None
      <4>1. Left = 0 /\ Left' = 0
        BY <3>0 DEF Left
      <4>2. j \in Nat /\ j <= i /\ i \in Nat /\ i < Chans
        BY <3>0 DEF SlotsInv
      <4>3. j + 1 \in Slot /\ j + 1 > j
        BY <1>0, <4>2
      <4> QED
        BY <4>1, <4>3 DEF SlotsInv
    <3>2. /\ opened' \in Nat
          /\ beef' \in [Slot -> Nat]
          /\ \A l \in Slot : beef'[l] = IF l = j + 1 THEN opened' ELSE beef[l]
          /\ \A l \in Slot : beef'[l] <= opened'
          /\ \A l, m \in Slot : beef'[l] = beef'[m] /\ l # m => beef'[l] = None
          /\ open' = {beef'[l] : l \in Slot} \ {None}
      BY <2>1, <3>1, TakeFills
    <3>3. {l \in Slot : l >= Left'} = Slot
      BY <1>0, <3>1
    <3>4. \A k \in Slot : k > j' => beef'[k] = None
      BY <1>0, <2>1, <3>2 DEF SlotsInv
    <3>5. /\ i' \in Nat /\ j' \in Nat /\ nbeef' = j' /\ j' <= i' /\ i' <= Chans
      BY <2>1, <3>0 DEF SlotsInv, Filled
    <3>6. open' = {beef'[k] : k \in {l \in Slot : l >= Left'}} \ {None}
      BY <3>2, <3>3
    <3>7. j' = j + 1 /\ j \in Nat /\ opened \in Nat /\ opened' = opened + 1
      BY <2>1 DEF Take, SlotsInv
    <3>8. \A k \in Slot : 0 < k /\ k <= j' => beef'[k] # None
      BY <1>0, <3>2, <3>7 DEF SlotsInv
    <3>9. j' <= Chans /\ nbeef' = IF j' = 0 THEN Chans ELSE j'
      BY <3>5, <3>7
    <3> QED
      BY <3>0, <3>2, <3>4, <3>5, <3>6, <3>8, <3>9 DEF SlotsInv
  <2>2. CASE UNCHANGED <<j, nbeef, beef, open, opened>>
    <3>1. Left = Left'
      BY <1>2 DEF OpenBeef, Left
    <3> QED
      BY <1>0, <1>2, <2>2, <3>1 DEF OpenBeef, SlotsInv, Phases
  <2> QED
    BY <1>2, <2>1, <2>2 DEF OpenBeef
<1>3. CASE Run
  <2>1. Left = Left'
    BY <1>3 DEF Run, Left
  <2> QED
    BY <1>3, <2>1 DEF Run, SlotsInv, Phases
<1>4. CASE Signal
  <2>1. Left = 0 /\ Left' = 0
    BY <1>4 DEF Signal, Left
  <2>2. phase = "loop" /\ phase' = "detach" /\ i' = 0
        /\ UNCHANGED <<j, nbeef, beef, open, opened>>
    BY <1>4 DEF Signal
  <2>3. \A k \in Slot : ~ k < i'
    BY <1>0, <2>2
  <2> QED
    BY <2>1, <2>2, <2>3 DEF SlotsInv, Phases
<1>5. CASE Detach
  <2>1. Left = i /\ Left' = i + 1 /\ i' = i + 1 /\ phase = "detach"
    BY <1>5 DEF Detach, Left
  <2>2. {l \in Slot : l >= i} \subseteq {l \in Slot : l >= i + 1} \cup {i}
    BY <1>0 DEF SlotsInv
  <2>3. {l \in Slot : l >= i + 1} \subseteq {l \in Slot : l >= i}
    BY <1>0 DEF SlotsInv
  <2>4. UNCHANGED <<j, nbeef, beef, opened>> /\ phase' \in {"detach", "crashed"}
    BY <1>5, <2>1 DEF Detach
  <2>5. open = {beef[k] : k \in {l \in Slot : l >= i}} \ {None}
    BY <2>1 DEF SlotsInv
  <2>6. open' = {beef[k] : k \in {l \in Slot : l >= i + 1}} \ {None}
    <3>1. CASE beef[i] # None /\ open' = open \ {beef[i]}
      <4>1. ASSUME NEW k \in Slot, k >= i + 1 PROVE beef[k] = None \/ beef[k] # beef[i]
        <5>1. CASE i \in Slot
          BY <4>1, <5>1, <1>0 DEF SlotsInv
        <5>2. CASE i \notin Slot
          BY <4>1, <5>2, <1>0 DEF SlotsInv
        <5> QED
          BY <5>1, <5>2
      <4> QED
        BY <2>2, <2>3, <2>5, <3>1, <4>1
    <3>2. CASE beef[i] = None /\ UNCHANGED open
      BY <2>2, <2>3, <2>5, <3>2
    <3> QED
      BY <1>5, <3>1, <3>2 DEF Detach
  <2>7. i <= nbeef /\ i \in Nat /\ nbeef \in Nat
    BY <1>5 DEF Detach, SlotsInv
  <2>8. phase' = "crashed" => i' - 1 \in 0 .. nbeef' /\ beef'[i' - 1] = None
    BY <1>5, <2>1, <2>4, <2>7 DEF Detach
  <2>9. phase' \in {"detach", "done"} => \A k \in Slot : k < i' => beef'[k] # None
    <3>1. phase' = "detach" => beef[i] # None
      BY <1>5, <2>1 DEF Detach
    <3>2. \A k \in Slot : k < i => beef[k] # None
      BY <2>1 DEF SlotsInv
    <3> QED
      BY <1>0, <2>1, <2>4, <2>7, <3>1, <3>2
  <2> QED
    BY <2>1, <2>4, <2>6, <2>7, <2>8, <2>9 DEF SlotsInv, Phases
<1>6. CASE Done
  <2>1. Left = Left'
    BY <1>6 DEF Done, Left
  <2>2. phase = "detach" /\ phase' = "done" /\ i > nbeef
        /\ UNCHANGED <<i, j, nbeef, beef, open, opened>>
    BY <1>6 DEF Done
  <2> QED
    BY <2>1, <2>2 DEF SlotsInv, Phases
<1>7. CASE UNCHANGED mvars
  BY <1>7 DEF mvars, SlotsInv, Left
<1> QED
  BY <1>1, <1>2, <1>3, <1>4, <1>5, <1>6, <1>7 DEF Next, Second, BeefCb, vars

\* At the end of the loop over the slots there was a socket in each.
LEMMA DoneDetaches == SlotsInv /\ phase = "done" => open = {} /\ ~ SlotMissing
<1> SUFFICES ASSUME SlotsInv, phase = "done" PROVE open = {} /\ ~ SlotMissing
  OBVIOUS
<1>0. Slot = 0 .. Chans /\ Chans \in Nat
  BY DEF Slot
<1>1. \A k \in Slot : k >= Left => beef[k] = None
  BY DEF SlotsInv, Left, Slot
<1>2. open = {}
  BY <1>1 DEF SlotsInv
<1>3. i \in Nat /\ j \in Nat /\ i > nbeef /\ nbeef = IF j = 0 THEN Chans ELSE j
  BY DEF SlotsInv
<1>4. \A k \in Slot : k < i => beef[k] # None
  BY DEF SlotsInv
<1>5. beef[0] # None
  BY <1>0, <1>3, <1>4
<1>6. Chans > 0 => 1 \in Slot \ {0} /\ beef[1] # None
  BY <1>0, <1>3, <1>4
<1> QED
  BY <1>2, <1>5, <1>6 DEF SlotMissing

\* A slot the loop finds empty is the control channel's, or all others are
\* empty, too.
LEMMA CrashMissing == SlotsInv /\ phase = "crashed" => SlotMissing
<1> SUFFICES ASSUME SlotsInv, phase = "crashed" PROVE SlotMissing
  OBVIOUS
<1>0. Slot = 0 .. Chans /\ Chans \in Nat
  BY DEF Slot
<1>1. PICK k \in 0 .. nbeef : beef[k] = None
  BY DEF SlotsInv
<1>2. j \in Nat /\ j <= Chans /\ nbeef = IF j = 0 THEN Chans ELSE j
  BY DEF SlotsInv
<1>3. CASE k = 0
  BY <1>1, <1>3 DEF SlotMissing
<1>4. CASE k # 0
  <2>1. k \in Slot /\ 0 < k
    BY <1>0, <1>1, <1>2, <1>4
  <2>2. j = 0
    BY <1>1, <1>2, <2>1 DEF SlotsInv
  <2>3. \A l \in Slot \ {0} : beef[l] = None
    BY <1>0, <2>2 DEF SlotsInv
  <2> QED
    BY <1>0, <2>1, <2>3 DEF SlotMissing
<1> QED
  BY <1>3, <1>4

\* An unsermon that ends has closed every socket it opened, and one that does
\* not crashes for want of the control channel or of all others.
THEOREM DetachesAllCorrect == Spec => []DetachesAll
<1>1. SlotsInv => DetachesAll
  BY DoneDetaches, CrashMissing DEF DetachesAll
<1> QED
  BY <1>1, SlotsInit, SlotsNext, PTL DEF Spec
=============================================================================
