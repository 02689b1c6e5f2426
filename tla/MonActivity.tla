----------------------------- MODULE MonActivity -----------------------------
(***************************************************************************)
(* How unsermon reports that networks show activity: at most one report in *)
(* a period of time, and a reminder for activity that goes on.  The times  *)
(* are static variables of mon_beef_actvty(), shared by all networks.      *)
(***************************************************************************)
EXTENDS Integers

CONSTANTS
  Period,   \* 60 seconds
  MaxTime   \* bound: seconds in a behaviour

ASSUME ActivityAssumption == Period \in Nat \ {0, 1} /\ MaxTime \in Nat

VARIABLES
  now,       \* time(NULL)
  last_act,  \* when the last event was
  last_rpt   \* when the last report was

avars == <<now, last_act, last_rpt>>

Start == Period + 2  \* any time later than that would do

ActivityInit == now = Start /\ last_act = 0 /\ last_rpt = 0

Tick ==
  /\ now < Start + MaxTime
  /\ now' = now + 1
  /\ UNCHANGED <<last_act, last_rpt>>

\* The early return taken only if both say so (for mutation runs, like every
\* definition whose name starts with Bug)
BugThrottled == last_rpt + Period > now /\ last_act + 1 > now
Throttled == last_rpt + Period > now \/ last_act + 1 > now

\* A report of activity that is new, with no reminders of it going on
BugDue == ~ Throttled /\ last_act + 1 < now
\* A report of activity that is new, or a reminder of it going on
Due == ~ Throttled /\ (last_act + 1 < now \/ last_rpt + Period < now)

\* mon_beef_actvty()
Activity ==
  /\ last_rpt' = IF Due THEN now ELSE last_rpt
  /\ last_act' = now
  /\ UNCHANGED now

-----------------------------------------------------------------------------

\* Reports do not come more often than once a minute.
ReportsApart == [][last_rpt' # last_rpt => last_rpt' >= last_rpt + Period]_avars

\* When a network shows activity there is a report of it, or one that is a
\* minute old at most: the two comparisons with the minute, one of them strict
\* and the other not, leave out the second at which it is over, and no more
\* ("report activity").
Reminded == last_act <= last_rpt + Period
=============================================================================
