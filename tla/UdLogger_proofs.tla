--------------------------- MODULE UdLogger_proofs ---------------------------
(***************************************************************************)
(* The logger keeps one stream and closes it once, for any number of       *)
(* streams, files and messages.                                            *)
(***************************************************************************)
EXTENDS UdLogger, TLAPS

USE LoggerAssumption

Stream ==
  [to : {"syslog", "stderr", "file", "devnull"}, file : Nat, id : Nat]

LogTypeOK ==
  /\ logout \in Stream
  /\ glogfn \in BOOLEAN /\ syslog \in BOOLEAN /\ hook \in BOOLEAN /\ wrong \in BOOLEAN
  /\ nopen \in Nat /\ path \in Nat

\* Nothing is open before ud_openlog() or after the end, and a file's name is
\* known only while the file is open: the tests of glogfn in __close_logout()
\* and ud_rotlog() tell the outputs apart.
OutputsApart ==
  /\ phase = "start" => logout = Null /\ ~ syslog /\ ~ glogfn /\ streams = {Stderr}
  /\ phase = "open" => told \in {"none", "-", "file"}
  /\ glogfn => told = "file" /\ logout.to = "file" /\ ~ syslog
  /\ phase = "exited" /\ hook => logout = Null /\ ~ syslog

LogInv == LogTypeOK /\ OneStream /\ OutputsApart /\ RotatesFilesOnly

LEMMA Standard ==
  /\ Null \in Stream /\ Stderr \in Stream /\ Null # Stderr
  /\ Null.id = 0 /\ Stderr.id = 0 /\ Null.to = "syslog" /\ Stderr.to = "stderr"
<1>1. /\ Null = [to |-> "syslog", file |-> 0, id |-> 0]
      /\ Stderr = [to |-> "stderr", file |-> 0, id |-> 0]
  BY DEF Null, Stderr
<1>2. Null \in Stream /\ Stderr \in Stream
  BY <1>1 DEF Stream
<1> QED
  BY <1>1, <1>2

\* Closing the output closes the stream that is open, and that one only.
LEMMA CloseLogoutCloses ==
  ASSUME LogInv, CloseLogout, streams' = streams \ {logout}
  PROVE  /\ logout' = Null /\ streams' \subseteq {Stderr}
         /\ wrong' = FALSE /\ syslog' = FALSE
<1>1. syslog' = FALSE /\ logout' = Null
  BY DEF LogInv, LogTypeOK, OutputsApart, CloseLogout
<1>2. logout # Null => logout \in streams
  BY DEF LogInv, OneStream
<1>3. wrong' = FALSE
  BY <1>2 DEF LogInv, LogTypeOK, OneStream, CloseLogout, ClosesOpen
<1>4. streams' \subseteq {Stderr}
  BY DEF LogInv, OneStream
<1> QED
  BY <1>1, <1>3, <1>4

\* Opening it gives a stream of its own, or none.
LEMMA OpenLogoutOpens ==
  ASSUME LogTypeOK, NEW name \in BOOLEAN, NEW ok \in BOOLEAN, OpenLogout(name, ok)
  PROVE  /\ logout' \in Stream /\ nopen' \in Nat /\ logout' # Stderr
         /\ logout'.to \in (IF ok THEN {"file"} ELSE {"devnull", "syslog"})
         /\ ok => name
<1>1. ASSUME NEW to \in {"file", "devnull"}, NEW file \in Nat, Opened(to, file)
      PROVE  /\ logout' \in Stream /\ nopen' \in Nat
             /\ logout'.to = to /\ logout'.id # 0
  BY <1>1 DEF LogTypeOK, Opened, Stream
<1>2. CASE ok /\ name /\ Opened("file", path)
  BY <1>1, <1>2, Standard DEF LogTypeOK
<1>3. CASE ~ ok /\ Opened("devnull", 0)
  BY <1>1, <1>3, Standard
<1>4. CASE ~ ok /\ logout' = Null /\ UNCHANGED nopen
  BY <1>4, Standard DEF LogTypeOK
<1> QED
  BY <1>2, <1>3, <1>4 DEF OpenLogout

LEMMA LogInit == Init => LogInv
<1> SUFFICES ASSUME Init PROVE LogInv
  OBVIOUS
<1>1. LogTypeOK
  BY Standard DEF Init, LogTypeOK
<1>2. OneStream
  BY Standard DEF Init, OneStream
<1>3. OutputsApart /\ RotatesFilesOnly
  BY DEF Init, OutputsApart, RotatesFilesOnly
<1> QED
  BY <1>1, <1>2, <1>3 DEF LogInv

\* ud_openlog()
LEMMA OpenLogStep ==
  ASSUME LogInv, NEW arg \in {"none", "-", "file"}, OpenLog(arg)
  PROVE  LogInv'
<1>0. /\ logout = Null /\ syslog = FALSE /\ glogfn = FALSE /\ streams = {Stderr}
      /\ wrong' = FALSE /\ told' = arg /\ phase' = "open" /\ path' = path
  BY DEF LogInv, OutputsApart, LogTypeOK, OneStream, OpenLog
<1>1. CASE arg = "none"
  <2>1. /\ syslog' = TRUE /\ hook' = TRUE
        /\ UNCHANGED <<logout, glogfn, streams, nopen>>
    BY <1>1 DEF OpenLog
  <2>2. LogTypeOK' /\ OneStream'
    BY <1>0, <2>1, Standard DEF LogInv, LogTypeOK, OneStream
  <2>3. OutputsApart' /\ RotatesFilesOnly'
    BY <1>0, <1>1, <2>1 DEF OutputsApart, RotatesFilesOnly
  <2> QED
    BY <2>2, <2>3 DEF LogInv
<1>2. CASE arg = "-"
  <2>1. /\ logout' = Stderr /\ hook' = TRUE
        /\ UNCHANGED <<glogfn, syslog, streams, nopen>>
    BY <1>2 DEF OpenLog
  <2>2. LogTypeOK' /\ OneStream'
    BY <1>0, <2>1, Standard DEF LogInv, LogTypeOK, OneStream
  <2>3. OutputsApart' /\ RotatesFilesOnly'
    BY <1>0, <1>2, <2>1 DEF OutputsApart, RotatesFilesOnly
  <2> QED
    BY <2>2, <2>3 DEF LogInv
<1>3. CASE arg = "file"
  <2>1. PICK ok \in BOOLEAN :
          /\ OpenLogout(TRUE, ok)
          /\ streams' = streams \cup ({logout'} \ {Null}) /\ glogfn' = ok /\ hook' = ok
          /\ UNCHANGED syslog
    BY <1>3 DEF OpenLog
  <2>2. /\ logout' \in Stream /\ nopen' \in Nat /\ logout' # Stderr
        /\ logout'.to \in (IF ok THEN {"file"} ELSE {"devnull", "syslog"})
    BY <2>1, OpenLogoutOpens DEF LogInv
  <2>3. LogTypeOK'
    BY <1>0, <2>1, <2>2 DEF LogInv, LogTypeOK
  <2>4. OneStream'
    BY <1>0, <2>1, <2>2 DEF OneStream
  <2>5. OutputsApart' /\ RotatesFilesOnly'
    BY <1>0, <1>3, <2>1, <2>2 DEF OutputsApart, RotatesFilesOnly
  <2> QED
    BY <2>3, <2>4, <2>5 DEF LogInv
<1> QED
  BY <1>1, <1>2, <1>3

\* The end of the log, by ud_closelog() or at exit
LEMMA ClosingStep ==
  ASSUME LogInv, CloseLogout, streams' = streams \ {logout}, glogfn' = FALSE,
         phase' \in {"closed", "exited"}, UNCHANGED <<nopen, path, told, hook>>
  PROVE  LogInv'
<1>1. /\ logout' = Null /\ streams' \subseteq {Stderr}
      /\ wrong' = FALSE /\ syslog' = FALSE
  BY CloseLogoutCloses
<1>2. LogTypeOK' /\ OneStream'
  BY <1>1, Standard DEF LogInv, LogTypeOK, OneStream
<1>3. OutputsApart' /\ RotatesFilesOnly'
  BY <1>1 DEF OutputsApart, RotatesFilesOnly
<1> QED
  BY <1>2, <1>3 DEF LogInv

\* ud_rotlog(): what it closes is a file, what it opens is not.
LEMMA RotLogStep ==
  ASSUME LogInv, RotLog
  PROVE  LogInv'
<1>1. PICK ok \in BOOLEAN : OpenLogout(FALSE, ok)
  BY DEF RotLog
<1>2. /\ logout' \in Stream /\ nopen' \in Nat /\ logout' # Stderr
      /\ logout'.to \in {"devnull", "syslog"}
  BY <1>1, OpenLogoutOpens DEF LogInv
<1>3. /\ phase = "open" /\ told = "file" /\ logout.to = "file" /\ syslog = FALSE
      /\ glogfn' = FALSE /\ syslog' = FALSE
      /\ UNCHANGED <<path, told, phase, hook>>
  BY DEF LogInv, LogTypeOK, OutputsApart, RotLog, CanRotate
<1>4. logout \in streams /\ streams \ {Stderr} = {logout}
  BY <1>3, Standard DEF LogInv, OneStream
<1>5. wrong' = FALSE
  BY <1>4 DEF LogInv, LogTypeOK, OneStream, RotLog, ClosesOpen
<1>6. streams' = (streams \ {logout}) \cup ({logout'} \ {Null})
  BY DEF RotLog
<1>7. LogTypeOK' /\ OneStream'
  BY <1>2, <1>3, <1>4, <1>5, <1>6 DEF LogInv, LogTypeOK, OneStream
<1>8. OutputsApart' /\ RotatesFilesOnly'
  BY <1>2, <1>3 DEF OutputsApart, RotatesFilesOnly
<1> QED
  BY <1>7, <1>8 DEF LogInv

\* ud_logout(): a message may connect to syslog, never with a file open.
LEMMA LogOutStep ==
  ASSUME LogInv, LogOut
  PROVE  LogInv'
<1>1. /\ phase \in {"open", "closed"} /\ syslog' = (syslog \/ logout = Null)
      /\ UNCHANGED <<logout, glogfn, streams, nopen, path, told, phase, hook, wrong>>
  BY DEF LogOut
<1>2. glogfn => logout # Null
  BY Standard DEF LogInv, OutputsApart
<1>3. LogTypeOK' /\ OneStream' /\ RotatesFilesOnly'
  BY <1>1 DEF LogInv, LogTypeOK, OneStream, RotatesFilesOnly
<1>4. OutputsApart'
  BY <1>1, <1>2 DEF LogInv, LogTypeOK, OutputsApart
<1> QED
  BY <1>3, <1>4 DEF LogInv

LEMMA LogNext == LogInv /\ [Next]_vars => LogInv'
<1> SUFFICES ASSUME LogInv, [Next]_vars PROVE LogInv'
  OBVIOUS
<1>1. ASSUME NEW arg \in {"none", "-", "file"}, OpenLog(arg) PROVE LogInv'
  BY <1>1, OpenLogStep
<1>2. CASE CloseLog
  BY <1>2, ClosingStep DEF CloseLog
<1>3. CASE Exit
  <2>1. CASE ~ hook
    BY <1>3, <2>1 DEF Exit, LogInv, LogTypeOK, OneStream, OutputsApart, RotatesFilesOnly
  <2>2. CASE hook
    BY <1>3, <2>2, ClosingStep DEF Exit
  <2> QED
    BY <2>1, <2>2
<1>4. CASE RotLog
  BY <1>4, RotLogStep
<1>5. CASE Rename
  BY <1>5 DEF Rename, LogInv, LogTypeOK, OneStream, OutputsApart, RotatesFilesOnly
<1>6. CASE LogOut
  BY <1>6, LogOutStep
<1>7. CASE UNCHANGED vars
  BY <1>7 DEF vars, LogInv, LogTypeOK, OneStream, OutputsApart, RotatesFilesOnly
<1> QED
  BY <1>1, <1>2, <1>3, <1>4, <1>5, <1>6, <1>7 DEF Next

\* The stream that is open is the one messages go to, and none is closed
\* twice, however often the log is rotated and closed.
THEOREM OneStreamCorrect == Spec => []OneStream
<1>1. LogInv => OneStream
  BY DEF LogInv
<1> QED
  BY <1>1, LogInit, LogNext, PTL DEF Spec

\* If ud_openlog() succeeded, the log is closed at exit, every stream opened for
\* it as well as the connection to syslog.
THEOREM ClosedAtExitCorrect == Spec => []ClosedAtExit
<1>1. LogInv => ClosedAtExit
  BY DEF LogInv, OneStream, OutputsApart, ClosedAtExit
<1> QED
  BY <1>1, LogInit, LogNext, PTL DEF Spec

\* As long as the log is open, rotations leave syslog and standard error what
\* they are, and a log in a file is in a file as long as its name is known.
THEOREM RotatesFilesOnlyCorrect == Spec => []RotatesFilesOnly
<1>1. LogInv => RotatesFilesOnly
  BY DEF LogInv
<1> QED
  BY <1>1, LogInit, LogNext, PTL DEF Spec
=============================================================================
