------------------------------ MODULE UdSocket ------------------------------
(***************************************************************************)
(* The life of an unserding socket: what ud_socket() acquires one system   *)
(* call after the other, what its error paths give back, and what          *)
(* ud_close() releases.  Threads may be in these functions at the same     *)
(* time, for different sockets, and other parts of the process open and    *)
(* close descriptors of their own, which may get a number just released.   *)
(***************************************************************************)
EXTENDS Integers, FiniteSets

CONSTANTS
  Sock,  \* socket objects the application may have at a time
  Fd     \* descriptor numbers of the process

ASSUME FdAssumption == Fd \subseteq Nat

None == -1
Mode == {"PUB", "SUB", "PUBSUB"}

VARIABLES
  owner,   \* owner[f]: who has descriptor f open
  mapped,  \* the socket objects that are mapped
  joined,  \* descriptors that are members of the group
  sock     \* sock[h]: where h is in its life, its mode and its descriptors

vars == <<owner, mapped, joined, sock>>

\* Where a socket is: closed, in ud_socket() before the system call named,
\* at one of its error labels, open, or in ud_close() before a release.
PC == {"closed", "socket", "socket2", "bind_sub", "bind_pub", "mmap", "join",
       "munm_out", "clos2_out", "clos_out",
       "open", "close_send", "leave", "munmap", "close"}

TypeOK ==
  /\ owner \in [Fd -> {"free", "lib", "other"}]
  /\ mapped \subseteq Sock
  /\ joined \subseteq Fd
  /\ sock \in [Sock -> [pc : PC, mode : Mode, fd : Fd \cup {None},
                        fd_send : Fd \cup {None}]]

Init ==
  /\ owner = [f \in Fd |-> "free"]
  /\ mapped = {}
  /\ joined = {}
  /\ sock = [h \in Sock |-> [pc |-> "closed", mode |-> "PUB", fd |-> None,
                             fd_send |-> None]]

Subscribes(h) == sock[h].mode \in {"SUB", "PUBSUB"}
Publishes(h) == sock[h].mode \in {"PUB", "PUBSUB"}

Goto(h, pc) == sock' = [sock EXCEPT ![h].pc = pc]

\* close(2) releases the number whoever it belongs to.
CloseFd(f) ==
  /\ owner' = [owner EXCEPT ![f] = "free"]
  /\ joined' = joined \ {f}

-----------------------------------------------------------------------------
(* ud_socket().  A failing system call is the second disjunct. *)

\* The call; mode UD_NONE returns at once and is left out.
Open(h, mode) ==
  /\ sock[h].pc = "closed"
  /\ sock' = [sock EXCEPT ![h] = [pc |-> "socket", mode |-> mode, fd |-> None,
                                  fd_send |-> None]]
  /\ UNCHANGED <<owner, mapped, joined>>

\* s = s2 = mc6_socket()
Socket(h) ==
  /\ sock[h].pc = "socket"
  /\ \/ \E f \in Fd :
          /\ owner[f] = "free"
          /\ owner' = [owner EXCEPT ![f] = "lib"]
          /\ sock' = [sock EXCEPT ![h] =
               [@ EXCEPT !.fd = f, !.fd_send = f,
                         !.pc = IF sock[h].mode = "PUBSUB" THEN "socket2"
                                ELSE "bind_sub"]]
     \/ Goto(h, "closed") /\ UNCHANGED owner
  /\ UNCHANGED <<mapped, joined>>

\* s2 = mc6_socket(), for both modes at once
Socket2(h) ==
  /\ sock[h].pc = "socket2"
  /\ \/ \E f \in Fd :
          /\ owner[f] = "free"
          /\ owner' = [owner EXCEPT ![f] = "lib"]
          /\ sock' = [sock EXCEPT ![h] = [@ EXCEPT !.fd_send = f, !.pc = "bind_sub"]]
     \/ /\ sock' = [sock EXCEPT ![h] = [@ EXCEPT !.fd_send = None, !.pc = "clos_out"]]
        /\ UNCHANGED owner
  /\ UNCHANGED <<mapped, joined>>

\* mc6_set_sub(s) and mc6_set_pub(s2); either fails when its bind() does
Bind(h) ==
  /\ \/ sock[h].pc = "bind_sub" /\ Goto(h, "bind_pub")
     \/ sock[h].pc = "bind_sub" /\ Subscribes(h) /\ Goto(h, "clos2_out")
     \/ sock[h].pc = "bind_pub" /\ Goto(h, "mmap")
     \/ sock[h].pc = "bind_pub" /\ Publishes(h) /\ Goto(h, "clos2_out")
  /\ UNCHANGED <<owner, mapped, joined>>

\* mmap_mem()
Map(h) ==
  /\ sock[h].pc = "mmap"
  /\ \/ mapped' = mapped \cup {h} /\ Goto(h, "join")
     \/ Goto(h, "clos2_out") /\ UNCHANGED mapped
  /\ UNCHANGED <<owner, joined>>

\* mc6_join_group() as if on the sending descriptor
BugJoin(h) ==
  /\ sock[h].pc = "join"
  /\ Goto(h, "open")
  /\ joined' = joined \cup (IF Subscribes(h) THEN {sock[h].fd_send} ELSE {})
  /\ UNCHANGED <<owner, mapped>>
\* mc6_join_group(s); a publisher only connects, whatever comes of it
Join(h) ==
  /\ sock[h].pc = "join"
  /\ \/ Subscribes(h) /\ joined' = joined \cup {sock[h].fd} /\ Goto(h, "open")
     \/ Subscribes(h) /\ Goto(h, "munm_out") /\ UNCHANGED joined
     \/ ~ Subscribes(h) /\ Goto(h, "open") /\ UNCHANGED joined
  /\ UNCHANGED <<owner, mapped>>

\* munm_out:
MunmOut(h) ==
  /\ sock[h].pc = "munm_out"
  /\ mapped' = mapped \ {h}
  /\ Goto(h, "clos2_out")
  /\ UNCHANGED <<owner, joined>>

\* clos2_out: as if it closed s2 whatever it is (for mutation runs, like
\* every definition whose name starts with Bug)
BugClos2Out(h) ==
  /\ sock[h].pc = "clos2_out"
  /\ CloseFd(sock[h].fd_send)
  /\ Goto(h, "clos_out")
  /\ UNCHANGED mapped
\* clos2_out:
Clos2Out(h) ==
  /\ sock[h].pc = "clos2_out"
  /\ \/ /\ sock[h].fd # sock[h].fd_send /\ sock[h].fd_send >= 0
        /\ CloseFd(sock[h].fd_send)
     \/ /\ ~ (sock[h].fd # sock[h].fd_send /\ sock[h].fd_send >= 0)
        /\ UNCHANGED <<owner, joined>>
  /\ Goto(h, "clos_out")
  /\ UNCHANGED mapped

\* clos_out: and the return of NULL
ClosOut(h) ==
  /\ sock[h].pc = "clos_out"
  /\ CloseFd(sock[h].fd)
  /\ Goto(h, "closed")
  /\ UNCHANGED mapped

-----------------------------------------------------------------------------
(* ud_close() *)

\* The mode switch, as if a subscriber's only descriptor were closed as a
\* secondary one, and as if no mode had one
BugCloseEarly(h) ==
  /\ sock[h].pc = "open"
  /\ Goto(h, IF sock[h].mode \in {"PUBSUB", "SUB"} THEN "close_send" ELSE "munmap")
  /\ UNCHANGED <<owner, mapped, joined>>
BugCloseNoSend(h) ==
  /\ sock[h].pc = "open"
  /\ Goto(h, IF sock[h].mode = "PUB" THEN "munmap" ELSE "leave")
  /\ UNCHANGED <<owner, mapped, joined>>
\* The call, with its switch over the mode
Close(h) ==
  /\ sock[h].pc = "open"
  /\ Goto(h, CASE sock[h].mode = "PUBSUB" -> "close_send"
               [] sock[h].mode = "SUB" -> "leave"
               [] sock[h].mode = "PUB" -> "munmap")
  /\ UNCHANGED <<owner, mapped, joined>>

CloseSend(h) ==
  /\ sock[h].pc = "close_send"
  /\ CloseFd(sock[h].fd_send)
  /\ Goto(h, "leave")
  /\ UNCHANGED mapped

\* mc6_unset_sub() and mc6_leave_group()
Leave(h) ==
  /\ sock[h].pc = "leave"
  /\ joined' = joined \ {sock[h].fd}
  /\ Goto(h, "munmap")
  /\ UNCHANGED <<owner, mapped>>

Unmap(h) ==
  /\ sock[h].pc = "munmap"
  /\ mapped' = mapped \ {h}
  /\ Goto(h, "close")
  /\ UNCHANGED <<owner, joined>>

CloseMain(h) ==
  /\ sock[h].pc = "close"
  /\ CloseFd(sock[h].fd)
  /\ Goto(h, "closed")
  /\ UNCHANGED mapped

-----------------------------------------------------------------------------
(* The rest of the process *)

OtherOpen(f) ==
  /\ owner[f] = "free"
  /\ owner' = [owner EXCEPT ![f] = "other"]
  /\ UNCHANGED <<mapped, joined, sock>>

OtherClose(f) ==
  /\ owner[f] = "other"
  /\ owner' = [owner EXCEPT ![f] = "free"]
  /\ UNCHANGED <<mapped, joined, sock>>

Opening(h) ==
  \/ Socket(h) \/ Socket2(h) \/ Bind(h) \/ Map(h) \/ Join(h)
  \/ MunmOut(h) \/ Clos2Out(h) \/ ClosOut(h)

Closing(h) == CloseSend(h) \/ Leave(h) \/ Unmap(h) \/ CloseMain(h)

Next ==
  \/ \E h \in Sock : (\E mode \in Mode : Open(h, mode)) \/ Opening(h)
  \/ \E h \in Sock : Close(h) \/ Closing(h)
  \/ \E f \in Fd : OtherOpen(f) \/ OtherClose(f)

Spec == Init /\ [][Next]_vars

-----------------------------------------------------------------------------

\* The descriptors a socket has at each point of its life.
Held(h) ==
  CASE sock[h].pc \in {"closed", "socket"} -> {}
    [] sock[h].pc \in {"socket2", "clos_out", "leave", "munmap", "close"} -> {sock[h].fd}
    [] OTHER -> {sock[h].fd, sock[h].fd_send}

\* At every point of every call the library's descriptors are those its
\* sockets have, each one in the hands of one socket, and the mapped socket
\* objects are those past mmap() and not yet unmapped.
Ownership ==
  /\ \A h \in Sock : \A f \in Held(h) : f \in Fd /\ owner[f] = "lib"
  /\ \A f \in Fd : owner[f] = "lib" => \E h \in Sock : f \in Held(h)
  /\ \A g, h \in Sock : g # h => Held(g) \cap Held(h) = {}
  /\ \A h \in Sock :
       h \in mapped <=> sock[h].pc \in {"join", "munm_out", "open", "close_send",
                                     "leave", "munmap"}

Quiet(h) == sock[h].pc \in {"closed", "open"}

\* Nothing leaks and nothing is shared: with no call under way, what the
\* library has open and mapped is exactly what the open sockets have, and
\* every descriptor belongs to one of them only.
NoLeak ==
  (\A h \in Sock : Quiet(h)) =>
    LET opened == {h \in Sock : sock[h].pc = "open"}
    IN  /\ {f \in Fd : owner[f] = "lib"}
             = UNION {{sock[h].fd, sock[h].fd_send} : h \in opened}
        /\ mapped = opened
        /\ \A g, h \in opened : g # h =>
             {sock[g].fd, sock[g].fd_send} \cap {sock[h].fd, sock[h].fd_send} = {}

\* The library never closes a descriptor of somebody else, which is what
\* closing one of its own twice would come to.
OthersKept ==
  [][\A f \in Fd : owner[f] = "other" /\ owner'[f] # "other" => OtherClose(f)]_vars

\* A socket ud_socket() returned can do what its mode says: it is bound to
\* two descriptors if it sends and receives and to one otherwise, they are
\* open, and one that receives is a member of the group.
Usable ==
  \A h \in Sock : sock[h].pc = "open" =>
    /\ h \in mapped
    /\ \A f \in {sock[h].fd, sock[h].fd_send} : f \in Fd /\ owner[f] = "lib"
    /\ sock[h].fd # sock[h].fd_send <=> sock[h].mode = "PUBSUB"
    /\ sock[h].fd \in joined <=> Subscribes(h)
=============================================================================
