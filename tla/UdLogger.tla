------------------------------- MODULE UdLogger -------------------------------
(***************************************************************************)
(* ud-logger, the log output of the daemons: a file, the standard error or *)
(* syslog, opened at the start, rotated on demand, closed at the end and,  *)
(* because of atexit(), when the process exits.                            *)
(***************************************************************************)
EXTENDS Integers

CONSTANTS
  MaxFiles,  \* bound: files that have the log file's name in turn
  MaxOpens,  \* bound: streams opened
  MaxMsgs    \* bound: messages logged

ASSUME LoggerAssumption == MaxFiles \in Nat /\ MaxOpens \in Nat /\ MaxMsgs \in Nat

VARIABLES
  logout,   \* the stream messages go to, or Null for syslog
  glogfn,   \* whether the file's name is known
  syslog,   \* whether the process is connected to syslog
  streams,  \* the open streams, standard input and output apart
  nopen,    \* streams opened so far
  path,     \* which file has the log file's name now
  told,     \* what ud_openlog() was called with
  phase,    \* "start", "open", "closed" (ud_closelog() called), "exited"
  hook,     \* whether __close_logout() is to run at exit
  wrong,    \* whether a stream was closed that was not open
  msgs      \* messages so far

vars == <<logout, glogfn, syslog, streams, nopen, path, told, phase, hook, wrong, msgs>>

\* A stream: what it writes to, with a file which one, and the stream's number.
Null == [to |-> "syslog", file |-> 0, id |-> 0]
Stderr == [to |-> "stderr", file |-> 0, id |-> 0]

Init ==
  /\ logout = Null /\ glogfn = FALSE /\ syslog = FALSE
  /\ streams = {Stderr} /\ nopen = 0 /\ path = 1
  /\ told = "none" /\ phase = "start" /\ hook = FALSE /\ wrong = FALSE
  /\ msgs = 0

Opened(to, file) ==
  /\ logout' = [to |-> to, file |-> file, id |-> nopen + 1]
  /\ nopen' = nopen + 1

\* __open_logout(): the file, or the backup plan with the failure reported.
\* When /dev/null cannot be opened either, logout is what stands for syslog.
OpenLogout(name, ok) ==
  \/ ok /\ name /\ Opened("file", path)
  \/ ~ ok /\ Opened("devnull", 0)
  \/ ~ ok /\ logout' = Null /\ UNCHANGED nopen

OpenLog(arg) ==
  /\ phase = "start"
  /\ told' = arg /\ phase' = "open"
  /\ \/ /\ arg = "none"
        /\ syslog' = TRUE /\ hook' = TRUE
        /\ UNCHANGED <<logout, glogfn, streams, nopen>>
     \/ /\ arg = "-"
        /\ logout' = Stderr /\ hook' = TRUE
        /\ UNCHANGED <<glogfn, syslog, streams, nopen>>
     \/ \E ok \in BOOLEAN :
          /\ arg = "file"
          /\ OpenLogout(TRUE, ok)
          /\ streams' = streams \cup ({logout'} \ {Null}) /\ glogfn' = ok /\ hook' = ok
          /\ UNCHANGED syslog
  /\ UNCHANGED <<path, wrong, msgs>>

\* fflush() and fclose() on logout are wrong if it is not open.
ClosesOpen == wrong' = (wrong \/ (logout # Null /\ logout \notin streams))

\* __close_logout() that leaves logout as it is (for mutation runs, like every
\* definition whose name starts with Bug)
BugCloseLogout == syslog' = (syslog /\ glogfn) /\ ClosesOpen /\ UNCHANGED logout
\* __close_logout() with its test of glogfn the wrong way round
BugSyslogStays == syslog' = (syslog /\ ~ glogfn) /\ ClosesOpen /\ logout' = Null
\* __close_logout(), but for glogfn = NULL; of standard error it is the process's
\* own stream that is closed
CloseLogout == syslog' = (syslog /\ glogfn) /\ ClosesOpen /\ logout' = Null

CloseLog ==
  /\ phase = "open"
  /\ CloseLogout /\ streams' = streams \ {logout} /\ glogfn' = FALSE
  /\ phase' = "closed"
  /\ UNCHANGED <<nopen, path, told, hook, msgs>>

\* exit(), from main() or elsewhere
Exit ==
  /\ phase \in {"open", "closed"}
  /\ \/ hook /\ CloseLogout /\ streams' = streams \ {logout} /\ glogfn' = FALSE
     \/ ~ hook /\ UNCHANGED <<logout, glogfn, syslog, streams, wrong>>
  /\ phase' = "exited"
  /\ UNCHANGED <<nopen, path, told, hook, msgs>>

\* ud_rotlog() without its early return
BugCanRotate == TRUE
CanRotate == glogfn

\* ud_rotlog(): __close_logout() has cleared glogfn by the time
\* __open_logout() is called with it, so there is no name to open.
RotLog ==
  /\ phase = "open" /\ nopen < MaxOpens
  /\ CanRotate
  /\ syslog' = (syslog /\ glogfn) /\ ClosesOpen
  /\ glogfn' = FALSE
  /\ \E ok \in BOOLEAN : OpenLogout(glogfn', ok)
  /\ streams' = (streams \ {logout}) \cup ({logout'} \ {Null})
  /\ UNCHANGED <<path, told, phase, hook, msgs>>

\* logrotate renames the file; the name is free for a new one
Rename ==
  /\ path < MaxFiles /\ path' = path + 1
  /\ UNCHANGED <<logout, glogfn, syslog, streams, nopen, told, phase, hook, wrong, msgs>>

\* ud_logout(), which the programs call once ud_openlog() has returned;
\* vsyslog() connects to syslog if nobody else has
LogOut ==
  /\ phase \in {"open", "closed"} /\ msgs < MaxMsgs
  /\ msgs' = msgs + 1
  /\ syslog' = (syslog \/ logout = Null)
  /\ UNCHANGED <<logout, glogfn, streams, nopen, path, told, phase, hook, wrong>>

Next ==
  \/ \E arg \in {"none", "-", "file"} : OpenLog(arg)
  \/ CloseLog \/ Exit \/ RotLog \/ Rename \/ LogOut

Spec == Init /\ [][Next]_vars

-----------------------------------------------------------------------------

\* However the log is opened, rotated and closed, explicitly and again at
\* exit, the one stream the logger has opened and not closed is the one
\* messages go to, and no stream is closed twice, standard error neither.
OneStream ==
  /\ streams \ {Stderr} = {logout} \ {Null, Stderr}
  /\ logout = Stderr => Stderr \in streams
  /\ ~ wrong

\* A process for which ud_openlog() succeeded has closed every stream the
\* logger opened when it exits, with ud_closelog() or without, and the
\* connection to syslog, whoever made it.  (A failed ud_openlog() installs no
\* __close_logout(), and its stream to /dev/null stays open.)
ClosedAtExit == phase = "exited" /\ hook => streams \subseteq {Stderr} /\ ~ syslog

\* From ud_openlog() to ud_closelog() rotations disturb a log in a file only:
\* told none or standard error, messages keep going there.  Those of a log in
\* a file go to a file as long as the logger knows its name; once it does not,
\* for it could not be opened or was rotated, to /dev/null or, failing that,
\* to syslog, and never to a file that no rotation could move on from.
RotatesFilesOnly ==
  phase = "open" =>
    /\ told = "none" => logout = Null
    /\ told = "-" => logout = Stderr
    /\ told = "file" => logout.to \in IF glogfn THEN {"file"} ELSE {"devnull", "syslog"}

\* ud_rotlog() has the log go on in the file that has the name now ("This
\* actually just closes and opens the file again."), or, if that cannot be
\* opened, keeps the name for another attempt.
ReopensFile == [][RotLog => logout'.file = path \/ glogfn']_vars
=============================================================================
