------------------------------- MODULE Unsermon -------------------------------
(***************************************************************************)
(* unsermon's main(): the sockets it opens for the control channel and the *)
(* --beef channels, any of which may fail, the loop, in which packets make *)
(* it report activity, and what it closes at the end.                      *)
(***************************************************************************)
EXTENDS MonActivity, FiniteSets

CONSTANT Chans  \* --beef options given

ASSUME MonAssumption == Chans \in Nat

VARIABLES
  phase,  \* "ctrl", "beef" (opening), "loop", "detach", "done", "crashed"
  i,      \* the channel, or the slot, main() is at
  j,      \* the slot filled last
  nbeef,  \* slots that shutting down goes through, after the first
  beef,   \* beef[k].data: the socket in slot k, or None
  open,   \* sockets that are open
  opened  \* sockets opened so far

mvars == <<phase, i, j, nbeef, beef, open, opened>>
vars == <<mvars, avars>>

None == 0
Slot == 0 .. Chans

Init ==
  /\ phase = "ctrl" /\ i = 0 /\ j = 0
  /\ nbeef = Chans
  /\ beef = [k \in Slot |-> None]
  /\ open = {} /\ opened = 0
  /\ ActivityInit

\* A new socket goes into slot k.
Take(k) ==
  /\ opened' = opened + 1
  /\ open' = open \cup {opened'}
  /\ beef' = [beef EXCEPT ![k] = opened']

\* The control channel's socket
OpenCtrl ==
  /\ phase = "ctrl"
  /\ Take(0) \/ UNCHANGED <<beef, open, opened>>
  /\ phase' = "beef"
  /\ UNCHANGED <<i, j, nbeef, avars>>

\* The slots counted before the socket is there (for mutation runs, like every
\* definition whose name starts with Bug)
BugFilled == j
Filled == j + 1

\* One round of the loop over the channels; a channel that fails has no slot.
OpenBeef ==
  /\ phase = "beef" /\ i < Chans
  /\ \/ /\ Take(j + 1)
        /\ j' = j + 1
        /\ nbeef' = Filled
     \/ UNCHANGED <<j, nbeef, beef, open, opened>>
  /\ i' = i + 1
  /\ UNCHANGED <<phase, avars>>

\* Into the loop, what happens in it, and out of it with a signal
Run ==
  /\ phase = "beef" /\ i = Chans
  /\ phase' = "loop"
  /\ UNCHANGED <<i, j, nbeef, beef, open, opened, avars>>

\* mon_beef_cb() of the socket in slot k
BeefCb(k) ==
  /\ phase = "loop" /\ beef[k] # None
  /\ Activity
  /\ UNCHANGED mvars

\* Time is looked at in the loop only.
Second == phase = "loop" /\ Tick /\ UNCHANGED mvars

Signal ==
  /\ phase = "loop"
  /\ phase' = "detach" /\ i' = 0
  /\ UNCHANGED <<j, nbeef, beef, open, opened, avars>>

\* One round of the loop at the end: log_dergstr() looks at the socket's
\* address whether or not there is a socket.
Detach ==
  /\ phase = "detach" /\ i <= nbeef
  /\ \/ beef[i] # None /\ open' = open \ {beef[i]} /\ UNCHANGED phase
     \/ beef[i] = None /\ phase' = "crashed" /\ UNCHANGED open
  /\ i' = i + 1
  /\ UNCHANGED <<j, nbeef, beef, opened, avars>>

Done ==
  /\ phase = "detach" /\ i > nbeef
  /\ phase' = "done"
  /\ UNCHANGED <<i, j, nbeef, beef, open, opened, avars>>

Next ==
  \/ OpenCtrl \/ OpenBeef \/ Run \/ Second \/ Signal \/ Detach \/ Done
  \/ \E k \in Slot : BeefCb(k)

Spec == Init /\ [][Next]_vars

-----------------------------------------------------------------------------

\* The control channel could not be opened, or --beef was given and none of its
\* channels could.
SlotMissing ==
  beef[0] = None \/ (Chans > 0 /\ \A k \in Slot \ {0} : beef[k] = None)

\* An unsermon that comes to its end has closed every socket it opened: a --beef
\* channel that could not be opened leaves no gap among the slots and is not
\* counted.  But if the control channel could not be opened, or none of the
\* --beef channels, and in those cases only, it looks into a slot without
\* a socket at the end and crashes.
DetachesAll ==
  /\ phase = "done" => open = {} /\ ~ SlotMissing
  /\ phase = "crashed" => SlotMissing
=============================================================================
