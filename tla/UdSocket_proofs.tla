--------------------------- MODULE UdSocket_proofs ---------------------------
(***************************************************************************)
(* Proofs about the life of a socket, for any number of sockets and any    *)
(* table of descriptors: who holds which descriptor is settled at every    *)
(* point of every call, error paths included, nothing leaks, nothing of    *)
(* others is closed, and a socket handed out is usable.                    *)
(***************************************************************************)
EXTENDS UdSocket, TLAPS

\* Points at which both descriptors are set: they differ for the mode that
\* sends and receives and for no other.
Both == {"bind_sub", "bind_pub", "mmap", "join", "munm_out", "clos2_out",
         "open", "close_send"}

\* Points before the group is joined.
Before == {"socket2", "bind_sub", "bind_pub", "mmap", "join"}

Shape ==
  \A h \in Sock :
    /\ sock[h].pc \in Both => (sock[h].fd # sock[h].fd_send <=> sock[h].mode = "PUBSUB")
    /\ sock[h].pc \in {"socket2", "close_send"} => sock[h].mode = "PUBSUB"

Membership ==
  /\ \A f \in joined : owner[f] = "lib"
  /\ \A h \in Sock : sock[h].pc \in Before => sock[h].fd \notin joined
  /\ \A h \in Sock : sock[h].pc = "open" => (sock[h].fd \in joined <=> Subscribes(h))

IInv == TypeOK /\ Ownership /\ Shape /\ Membership

-----------------------------------------------------------------------------

\* Nothing is held, mapped or joined at the start (no socket is open).
LEMMA InitIInv == Init => IInv
BY FdAssumption DEF Init, IInv, TypeOK, Ownership, Shape, Membership, Held, Both, Before,
   PC, Mode, None, Subscribes

\* One socket's step: if what it newly holds was free, what it no longer
\* holds is released, and everything else stays, ownership is settled again.
LEMMA OneHolder ==
  ASSUME IInv, NEW h \in Sock,
         Held(h)' \subseteq Fd,
         \A g \in Sock \ {h} : sock'[g] = sock[g],
         \A f \in Fd : owner'[f] =
           IF f \in Held(h)' THEN "lib" ELSE IF f \in Held(h) THEN "free" ELSE owner[f],
         \A f \in Held(h)' \ Held(h) : owner[f] = "free",
         \A g \in Sock \ {h} : g \in mapped' <=> g \in mapped,
         h \in mapped' <=> sock'[h].pc \in {"join", "munm_out", "open", "close_send",
                                            "leave", "munmap"}
  PROVE  Ownership'
<1>1. \A g \in Sock \ {h} : Held(g)' = Held(g)
  BY DEF Held
<1>2. \A g \in Sock \ {h} : Held(g) \cap Held(h)' = {}
  BY DEF IInv, Ownership
<1>3. \A g \in Sock : \A f \in Held(g)' : f \in Fd /\ owner'[f] = "lib"
  BY <1>1, <1>2 DEF IInv, Ownership
<1>4. \A f \in Fd : owner'[f] = "lib" => \E g \in Sock : f \in Held(g)'
  BY <1>1 DEF IInv, Ownership
<1>5. \A g, k \in Sock : g # k => Held(g)' \cap Held(k)' = {}
  BY <1>1, <1>2 DEF IInv, Ownership
<1>6. \A g \in Sock : g \in mapped' <=> sock'[g].pc \in {"join", "munm_out", "open",
                                           "close_send", "leave", "munmap"}
  BY DEF IInv, Ownership
<1> QED BY <1>3, <1>4, <1>5, <1>6 DEF Ownership

\* The same for the membership of the group, once ownership is settled.
LEMMA OneMember ==
  ASSUME IInv, NEW h \in Sock, Ownership',
         \A g \in Sock \ {h} : sock'[g] = sock[g],
         joined' \subseteq Fd,
         \A f \in Fd \ (Held(h) \cup Held(h)') : owner'[f] = owner[f],
         \A f \in Fd \ (Held(h) \cup Held(h)') : f \in joined' => f \in joined,
         \A f \in Fd \ (Held(h) \cup Held(h)') : f \in joined => f \in joined',
         \A f \in Held(h) \ Held(h)' : f \notin joined',
         sock'[h].pc \in Before => sock'[h].fd \notin joined',
         sock'[h].pc = "open" => (sock'[h].fd \in joined' <=> Subscribes(h)')
  PROVE  Membership'
<1>1. \A f \in joined' : owner'[f] = "lib"
  BY DEF IInv, Ownership, Membership
<1>2. ASSUME NEW g \in Sock \ {h}, sock[g].pc \in Before \/ sock[g].pc = "open"
      PROVE  sock[g].fd \in Fd \ (Held(h) \cup Held(h)')
  <2>1. sock[g].fd \in Held(g) /\ sock[g].fd \in Held(g)'
    BY <1>2 DEF Held, Before
  <2> QED BY <2>1, <1>2 DEF IInv, Ownership
<1>3. \A g \in Sock : sock'[g].pc \in Before => sock'[g].fd \notin joined'
  BY <1>2 DEF IInv, Membership
<1>4. ASSUME NEW g \in Sock \ {h}, sock[g].pc = "open"
      PROVE  sock'[g].fd \in joined' <=> Subscribes(g)'
  BY <1>2, <1>4 DEF IInv, Membership, Subscribes
<1>5. \A g \in Sock : sock'[g].pc = "open" => (sock'[g].fd \in joined' <=> Subscribes(g)')
  BY <1>4
<1> QED BY <1>1, <1>3, <1>5 DEF Membership

\* What a socket holds is in the table.
LEMMA HeldFd == ASSUME IInv, NEW h \in Sock PROVE Held(h) \subseteq Fd
BY DEF IInv, Ownership

-----------------------------------------------------------------------------

\* A step of h in terms of the fields of its record.
Becomes(h, pc, mode, fd, fd_send) ==
  /\ sock' \in [Sock -> [pc : PC, mode : Mode, fd : Fd \cup {None},
                         fd_send : Fd \cup {None}]]
  /\ sock'[h].pc = pc
  /\ sock'[h].mode = mode
  /\ sock'[h].fd = fd
  /\ sock'[h].fd_send = fd_send
  /\ \A g \in Sock \ {h} : sock'[g] = sock[g]

\* A jump changes where the socket is and nothing else.
LEMMA Jump ==
  ASSUME TypeOK, NEW h \in Sock, NEW pc \in PC, Goto(h, pc)
  PROVE  Becomes(h, pc, sock[h].mode, sock[h].fd, sock[h].fd_send)
BY DEF TypeOK, Goto, Becomes

\* A record of values of their types is an update of each field.
LEMMA Update ==
  ASSUME TypeOK, NEW h \in Sock, NEW pc \in PC, NEW mode \in Mode,
         NEW fd \in Fd \cup {None}, NEW fd_send \in Fd \cup {None},
         sock' = [sock EXCEPT ![h] =
                    [pc |-> pc, mode |-> mode, fd |-> fd, fd_send |-> fd_send]]
  PROVE  Becomes(h, pc, mode, fd, fd_send)
BY DEF TypeOK, Becomes

\* A step of h that neither opens nor closes a descriptor, and goes from one
\* place to another where h holds what it held.
LEMMA Passage ==
  ASSUME IInv, NEW h \in Sock, NEW pc \in PC, Goto(h, pc), owner' = owner,
         Held(h)' = Held(h),
         mapped' \subseteq Sock, 
         \A g \in Sock \ {h} : g \in mapped' <=> g \in mapped,
         h \in mapped' <=> pc \in {"join", "munm_out", "open", "close_send",
                                   "leave", "munmap"},
         joined' = joined,
         pc \in Before => sock[h].pc \in Before,
         pc = "open" => ~ Subscribes(h) /\ sock[h].fd \notin joined,
         pc \in Both => sock[h].pc \in Both,
         pc \in {"socket2", "close_send"} => sock[h].mode = "PUBSUB"
  PROVE  IInv'
<1>1. Becomes(h, pc, sock[h].mode, sock[h].fd, sock[h].fd_send)
  BY Jump DEF IInv
<1>2. TypeOK'
  BY <1>1 DEF IInv, TypeOK, Becomes
<1>3. Ownership'
  BY <1>1, OneHolder DEF Becomes, IInv, Ownership
<1>4. Shape'
  BY <1>1 DEF Becomes, IInv, Shape
<1>5. Membership'
  BY <1>1, <1>3, OneMember DEF Becomes, IInv, TypeOK, Membership, Subscribes
<1> QED BY <1>2, <1>3, <1>4, <1>5 DEF IInv

\* A step of h that closes f, one of its descriptors.
LEMMA Release ==
  ASSUME IInv, NEW h \in Sock, NEW pc \in PC, NEW f, f \in Held(h), Goto(h, pc),
         CloseFd(f), Held(h)' = Held(h) \ {f}, mapped' = mapped,
         pc \in {"clos_out", "leave", "closed"},
         pc = "leave" => sock[h].pc = "close_send",
         pc # "leave" => sock[h].pc \in {"clos2_out", "clos_out", "close"}
  PROVE  IInv'
<1>1. Becomes(h, pc, sock[h].mode, sock[h].fd, sock[h].fd_send)
  BY Jump DEF IInv
<1>2. TypeOK'
  BY <1>1 DEF IInv, TypeOK, Becomes, CloseFd
<1>3. Ownership'
  BY <1>1, OneHolder DEF Becomes, IInv, Ownership, TypeOK, CloseFd
<1>4. Shape'
  BY <1>1 DEF Becomes, IInv, Shape, Both
<1>5. Membership'
  <2>1. \A g \in Sock \ {h} : sock'[g] = sock[g]
    BY <1>1 DEF Becomes
  <2>2. /\ joined' \subseteq Fd
        /\ \A g \in Fd \ (Held(h) \cup Held(h)') :
             owner'[g] = owner[g] /\ (g \in joined' <=> g \in joined)
        /\ \A g \in Held(h) \ Held(h)' : g \notin joined'
    BY DEF IInv, TypeOK, CloseFd
  <2>3. sock'[h].pc \notin Before /\ sock'[h].pc # "open"
    BY <1>1 DEF Becomes, Before
  <2> QED BY <1>3, <2>1, <2>2, <2>3, OneMember
<1> QED BY <1>2, <1>3, <1>4, <1>5 DEF IInv

\* A step of h that takes a free descriptor.
LEMMA Acquire ==
  ASSUME IInv, NEW h \in Sock, NEW pc \in PC, NEW fd \in Fd, NEW fd_send \in Fd, NEW f \in Fd,
         owner[f] = "free", owner' = [owner EXCEPT ![f] = "lib"],
         Becomes(h, pc, sock[h].mode, fd, fd_send),
         Held(h)' = Held(h) \cup {f}, mapped' = mapped, joined' = joined,
         sock[h].pc \in {"socket", "socket2"}, pc \in {"socket2", "bind_sub"},
         sock[h].pc = "socket" => fd = f,
         sock[h].pc = "socket2" => fd = sock[h].fd,
         pc = "bind_sub" => (fd # fd_send <=> sock[h].mode = "PUBSUB"),
         pc = "socket2" => sock[h].mode = "PUBSUB"
  PROVE  IInv'
<1>2. TypeOK'
  BY DEF IInv, TypeOK, Becomes
<1>3. Ownership'
  BY OneHolder DEF Becomes, IInv, Ownership, TypeOK
<1>4. Shape'
  BY DEF Becomes, IInv, Shape, Both
<1>5. Membership'
  BY <1>3, OneMember, SMTT(30) DEF Becomes, IInv, TypeOK, Membership, Before, Ownership
<1> QED BY <1>2, <1>3, <1>4, <1>5 DEF IInv

-----------------------------------------------------------------------------
(* Every step preserves the invariant. *)

\* The call of ud_socket() starts with nothing in hand.
LEMMA OpenStep ==
  ASSUME IInv, NEW h \in Sock, NEW mode \in Mode, Open(h, mode)
  PROVE  IInv'
<1>1. Becomes(h, "socket", mode, None, None)
  BY Update DEF Open, IInv, PC
<1>2. Held(h)' = {} /\ Held(h) = {}
  BY <1>1 DEF Becomes, Held, Open
<1>3. TypeOK'
  BY <1>1 DEF Becomes, IInv, TypeOK, Open
<1>4. Ownership'
  BY <1>1, <1>2, OneHolder DEF Becomes, IInv, Ownership, Open
<1>5. Shape'
  BY <1>1 DEF Becomes, IInv, Shape, Both
<1>6. Membership'
  BY <1>1, <1>2, <1>4, OneMember DEF Becomes, IInv, TypeOK, Membership, Before, Open
<1> QED BY <1>3, <1>4, <1>5, <1>6 DEF IInv

\* The first descriptor is a free one, or the call ends with none.
LEMMA SocketStep ==
  ASSUME IInv, NEW h \in Sock, Socket(h)
  PROVE  IInv'
<1>1. sock[h].pc = "socket" /\ mapped' = mapped /\ joined' = joined /\ Held(h) = {}
  BY DEF Socket, Held
<1>2. ASSUME NEW f \in Fd, owner[f] = "free", owner' = [owner EXCEPT ![f] = "lib"],
             sock' = [sock EXCEPT ![h] =
               [@ EXCEPT !.fd = f, !.fd_send = f,
                         !.pc = IF sock[h].mode = "PUBSUB" THEN "socket2"
                                ELSE "bind_sub"]]
      PROVE  IInv'
  <2> DEFINE pc == IF sock[h].mode = "PUBSUB" THEN "socket2" ELSE "bind_sub"
  <2>1. Becomes(h, pc, sock[h].mode, f, f)
    BY <1>2 DEF IInv, TypeOK, Becomes, PC
  <2>2. Held(h)' = {f} 
    BY <2>1 DEF Held, Becomes
  <2> HIDE DEF pc
  <2>3. pc \in {"socket2", "bind_sub"} /\ (pc = "socket2" <=> sock[h].mode = "PUBSUB")
    BY DEF pc
  <2>4. Held(h)' = Held(h) \cup {f} /\ pc \in PC
    BY <1>1, <2>2, <2>3 DEF PC
  <2> QED BY <1>1, <1>2, <2>1, <2>3, <2>4, Acquire
<1>3. CASE Goto(h, "closed") /\ owner' = owner
  <2>1. Held(h)' = {}
    BY <1>3, Jump DEF IInv, Becomes, Held, PC
  <2> QED BY <1>1, <1>3, <2>1, Passage DEF IInv, TypeOK, Ownership, Before, Both, PC
<1> QED BY <1>2, <1>3 DEF Socket

\* So is the second, and when there is none the first is still held.
LEMMA Socket2Step ==
  ASSUME IInv, NEW h \in Sock, Socket2(h)
  PROVE  IInv'
<1>1. /\ sock[h].pc = "socket2" /\ mapped' = mapped /\ joined' = joined
      /\ Held(h) = {sock[h].fd} /\ sock[h].fd \in Fd /\ owner[sock[h].fd] = "lib"
      /\ sock[h].mode = "PUBSUB"
  BY DEF Socket2, Held, IInv, Ownership, Shape
<1>2. ASSUME NEW f \in Fd, owner[f] = "free", owner' = [owner EXCEPT ![f] = "lib"],
             sock' = [sock EXCEPT ![h] = [@ EXCEPT !.fd_send = f, !.pc = "bind_sub"]]
      PROVE  IInv'
  <2>1. Becomes(h, "bind_sub", sock[h].mode, sock[h].fd, f)
    BY <1>2 DEF IInv, TypeOK, Becomes, PC
  <2>2. Held(h)' = Held(h) \cup {f}
    BY <1>1, <2>1 DEF Held, Becomes
  <2> QED BY <1>1, <1>2, <2>1, <2>2, Acquire, ZenonT(30) DEF PC
<1>3. ASSUME sock' = [sock EXCEPT ![h] = [@ EXCEPT !.fd_send = None, !.pc = "clos_out"]],
             owner' = owner
      PROVE  IInv'
  <2>1. Becomes(h, "clos_out", sock[h].mode, sock[h].fd, None)
    BY <1>3 DEF IInv, TypeOK, Becomes, PC
  <2>2. Held(h)' = Held(h)
    BY <1>1, <2>1 DEF Held, Becomes
  <2>3. TypeOK'
    BY <1>1, <1>3, <2>1 DEF IInv, TypeOK, Becomes
  <2>4. Ownership'
    BY <1>1, <1>3, <2>1, <2>2, OneHolder DEF IInv, Ownership, Becomes
  <2>5. Shape'
    BY <2>1 DEF IInv, Shape, Becomes, Both
  <2>6. Membership'
    BY <1>1, <1>3, <2>1, <2>2, <2>4, OneMember
       DEF IInv, TypeOK, Membership, Becomes, Before
  <2> QED BY <2>3, <2>4, <2>5, <2>6 DEF IInv
<1> QED BY <1>2, <1>3 DEF Socket2

\* Binding changes no holding, whether it succeeds or not.
LEMMA BindStep ==
  ASSUME IInv, NEW h \in Sock, Bind(h)
  PROVE  IInv'
<1>1. PICK pc \in {"bind_pub", "mmap", "clos2_out"} :
        Goto(h, pc) /\ sock[h].pc \in {"bind_sub", "bind_pub"}
  BY DEF Bind
<1>2. Held(h)' = Held(h)
  BY <1>1, Jump DEF IInv, Becomes, Held, PC
<1>3. owner' = owner /\ mapped' = mapped /\ joined' = joined
  BY DEF Bind
<1> QED BY <1>1, <1>2, <1>3, Passage DEF IInv, TypeOK, Ownership, Before, Both, PC

\* Mapping either adds the object or goes where it is not expected.
LEMMA MapStep ==
  ASSUME IInv, NEW h \in Sock, Map(h)
  PROVE  IInv'
<1>1. sock[h].pc = "mmap" /\ owner' = owner /\ joined' = joined
  BY DEF Map
<1>2. PICK pc \in {"join", "clos2_out"} :
        Goto(h, pc) /\ mapped' = IF pc = "join" THEN mapped \cup {h} ELSE mapped
  BY DEF Map
<1>3. Held(h)' = Held(h)
  BY <1>1, <1>2, Jump DEF IInv, Becomes, Held, PC
<1> QED BY <1>1, <1>2, <1>3, Passage DEF IInv, TypeOK, Ownership, Before, Both, PC

\* Joining makes a subscriber's descriptor a member; failing keeps both.
LEMMA JoinStep ==
  ASSUME IInv, NEW h \in Sock, Join(h)
  PROVE  IInv'
<1>1. sock[h].pc = "join" /\ owner' = owner /\ mapped' = mapped
  BY DEF Join
<1>2. CASE Subscribes(h) /\ joined' = joined \cup {sock[h].fd} /\ Goto(h, "open")
  <2>1. Becomes(h, "open", sock[h].mode, sock[h].fd, sock[h].fd_send)
    BY <1>2, Jump DEF IInv, PC
  <2>2. Held(h)' = Held(h) /\ sock[h].fd \in Held(h)
    BY <1>1, <2>1 DEF Held, Becomes
  <2>3. Ownership'
    BY <1>1, <2>1, <2>2, OneHolder DEF IInv, Ownership, Becomes
  <2>4. sock[h].fd \in Fd /\ TypeOK'
    BY <1>1, <1>2, <2>1, <2>2 DEF IInv, TypeOK, Ownership, Becomes
  <2>5. Shape'
    BY <1>1, <2>1 DEF IInv, Shape, Becomes, Both
  <2>6. Membership'
    BY <1>1, <1>2, <2>1, <2>2, <2>3, <2>4, OneMember
       DEF IInv, TypeOK, Membership, Becomes, Before, Subscribes
  <2> QED BY <2>3, <2>4, <2>5, <2>6 DEF IInv
<1>3. ASSUME NEW pc \in {"munm_out", "open"}, Goto(h, pc), joined' = joined,
             pc = "open" => ~ Subscribes(h)
      PROVE  IInv'
  <2>1. Held(h)' = Held(h)
    BY <1>1, <1>3, Jump DEF IInv, Becomes, Held, PC
  <2>2. sock[h].fd \notin joined
    BY <1>1 DEF IInv, Membership, Before
  <2> QED BY <1>1, <1>3, <2>1, <2>2, Passage DEF IInv, TypeOK, Ownership, Before, Both, PC
<1> QED BY <1>2, <1>3 DEF Join

\* munm_out takes the mapping back.
LEMMA MunmOutStep ==
  ASSUME IInv, NEW h \in Sock, MunmOut(h)
  PROVE  IInv'
<1>1. Held(h)' = Held(h)
  BY Jump DEF MunmOut, IInv, Becomes, Held, PC
<1> QED BY <1>1, Passage DEF MunmOut, IInv, TypeOK, Ownership, Before, Both, PC

\* clos2_out closes the second descriptor where there is one.
LEMMA Clos2OutStep ==
  ASSUME IInv, NEW h \in Sock, Clos2Out(h)
  PROVE  IInv'
<1>1. /\ sock[h].pc = "clos2_out" /\ Goto(h, "clos_out") /\ mapped' = mapped
      /\ Held(h) = {sock[h].fd, sock[h].fd_send}
      /\ Held(h)' = {sock[h].fd}
  BY Jump DEF Clos2Out, IInv, Becomes, Held, PC
<1>2. CASE sock[h].fd # sock[h].fd_send /\ CloseFd(sock[h].fd_send)
  <2>1. CloseFd(sock[h].fd_send) /\ sock[h].fd_send \in Held(h)
    BY <1>1, <1>2
  <2>2. Held(h)' = Held(h) \ {sock[h].fd_send}
    BY <1>1, <1>2
  <2> QED BY <1>1, <2>1, <2>2, Release DEF PC, CloseFd
<1>3. CASE /\ ~ (sock[h].fd # sock[h].fd_send /\ sock[h].fd_send >= 0)
           /\ owner' = owner /\ joined' = joined
  <2>1. sock[h].fd_send \in Nat
    BY <1>1, HeldFd, FdAssumption
  <2>2. Held(h)' = Held(h)
    BY <1>1, <1>3, <2>1
  <2> QED BY <1>1, <1>3, <2>2, Passage DEF IInv, TypeOK, Ownership, Before, Both, PC
<1> QED BY <1>2, <1>3 DEF Clos2Out

\* clos_out closes the first one, the last thing in hand.
LEMMA ClosOutStep ==
  ASSUME IInv, NEW h \in Sock, ClosOut(h)
  PROVE  IInv'
<1>1. Held(h) = {sock[h].fd} /\ Held(h)' = {}
  BY Jump DEF ClosOut, IInv, Becomes, Held, PC
<1>2. sock[h].fd \in Held(h) /\ Held(h)' = Held(h) \ {sock[h].fd}
  BY <1>1
<1>3. /\ sock[h].pc = "clos_out" /\ mapped' = mapped
      /\ CloseFd(sock[h].fd) /\ Goto(h, "closed")
  BY DEF ClosOut
<1> QED BY <1>2, <1>3, Release DEF PC, CloseFd

\* ud_close() goes to the branch of the mode with everything in hand.
LEMMA CloseStep ==
  ASSUME IInv, NEW h \in Sock, Close(h)
  PROVE  IInv'
<1>1. PICK pc \in {"close_send", "leave", "munmap"} :
        Goto(h, pc) /\ (pc = "close_send" <=> sock[h].mode = "PUBSUB")
  BY DEF Close, IInv, TypeOK, Mode
<1>2. sock[h].pc = "open" /\ owner' = owner /\ mapped' = mapped /\ joined' = joined
  BY DEF Close
<1>3. sock[h].fd # sock[h].fd_send <=> sock[h].mode = "PUBSUB"
  BY <1>2 DEF IInv, Shape, Both
<1>4. Held(h)' = Held(h)
  BY <1>1, <1>2, <1>3, Jump DEF IInv, Becomes, Held, PC
<1> QED BY <1>1, <1>2, <1>4, Passage DEF IInv, TypeOK, Ownership, Before, Both, PC

\* The second descriptor of a socket that does both is closed first.
LEMMA CloseSendStep ==
  ASSUME IInv, NEW h \in Sock, CloseSend(h)
  PROVE  IInv'
<1>1. sock[h].pc = "close_send" /\ sock[h].fd # sock[h].fd_send
  BY DEF CloseSend, IInv, Shape, Both
<1>2. Held(h) = {sock[h].fd, sock[h].fd_send} /\ Held(h)' = {sock[h].fd}
  BY <1>1, Jump DEF CloseSend, IInv, Becomes, Held, PC
<1>3. sock[h].fd_send \in Held(h) /\ Held(h)' = Held(h) \ {sock[h].fd_send}
  BY <1>1, <1>2
<1>4. mapped' = mapped /\ CloseFd(sock[h].fd_send) /\ Goto(h, "leave")
  BY DEF CloseSend
<1> QED BY <1>1, <1>3, <1>4, Release DEF PC, CloseFd

\* Leaving is a passage but for the membership it ends.
LEMMA LeaveStep ==
  ASSUME IInv, NEW h \in Sock, Leave(h)
  PROVE  IInv'
<1>1. Becomes(h, "munmap", sock[h].mode, sock[h].fd, sock[h].fd_send)
  BY Jump DEF Leave, IInv, PC
<1>2. Held(h) = {sock[h].fd} /\ Held(h)' = Held(h)
  BY <1>1 DEF Leave, Becomes, Held
<1>3. TypeOK'
  BY <1>1 DEF Leave, Becomes, IInv, TypeOK
<1>4. Ownership'
  BY <1>1, <1>2, OneHolder DEF Leave, Becomes, IInv, Ownership
<1>5. Shape'
  BY <1>1 DEF Becomes, IInv, Shape, Both
<1>6. Membership'
  BY <1>1, <1>2, <1>3, <1>4, OneMember DEF Leave, Becomes, IInv, TypeOK, Membership, Before
<1> QED BY <1>3, <1>4, <1>5, <1>6 DEF IInv

\* Unmapping leaves one descriptor in hand.
LEMMA UnmapStep ==
  ASSUME IInv, NEW h \in Sock, Unmap(h)
  PROVE  IInv'
<1>1. Held(h)' = Held(h)
  BY Jump DEF Unmap, IInv, Becomes, Held, PC
<1> QED BY <1>1, Passage DEF Unmap, IInv, TypeOK, Ownership, Before, Both, PC

\* Its release is the end of the socket.
LEMMA CloseMainStep ==
  ASSUME IInv, NEW h \in Sock, CloseMain(h)
  PROVE  IInv'
<1>1. Held(h) = {sock[h].fd} /\ Held(h)' = {}
  BY Jump DEF CloseMain, IInv, Becomes, Held, PC
<1>2. sock[h].fd \in Held(h) /\ Held(h)' = Held(h) \ {sock[h].fd}
  BY <1>1
<1>3. /\ sock[h].pc = "close" /\ mapped' = mapped
      /\ CloseFd(sock[h].fd) /\ Goto(h, "closed")
  BY DEF CloseMain
<1> QED BY <1>2, <1>3, Release DEF PC, CloseFd

\* The rest of the process touches no descriptor of the library.
LEMMA OtherStep ==
  ASSUME IInv, NEW f \in Fd, OtherOpen(f) \/ OtherClose(f)
  PROVE  IInv'
<1>1. \A h \in Sock : Held(h)' = Held(h) /\ f \notin Held(h)
  BY DEF OtherOpen, OtherClose, Held, IInv, Ownership
<1>2. \A g \in Fd : owner'[g] = "lib" <=> owner[g] = "lib"
  BY DEF OtherOpen, OtherClose, IInv, TypeOK
<1>3. TypeOK' /\ Shape'
  BY DEF OtherOpen, OtherClose, IInv, TypeOK, Shape
<1>4. Ownership'
  BY <1>1, <1>2 DEF OtherOpen, OtherClose, IInv, Ownership
<1>5. Membership'
  BY <1>2 DEF OtherOpen, OtherClose, IInv, TypeOK, Membership, Subscribes
<1> QED BY <1>3, <1>4, <1>5 DEF IInv

\* So every step of the specification preserves it,
LEMMA NextIInv == ASSUME IInv, [Next]_vars PROVE IInv'
<1>1. CASE UNCHANGED vars
  <2>1. \A h \in Sock : Held(h)' = Held(h) /\ (Subscribes(h)' <=> Subscribes(h))
    BY <1>1 DEF vars, Held, Subscribes
  <2>2. TypeOK' /\ Shape'
    BY <1>1 DEF vars, IInv, TypeOK, Shape
  <2>3. Ownership' /\ Membership'
    BY <1>1, <2>1 DEF vars, IInv, Ownership, Membership
  <2> QED BY <2>2, <2>3 DEF IInv
<1>2. CASE Next
  BY <1>2, OpenStep, SocketStep, Socket2Step, BindStep, MapStep, JoinStep, MunmOutStep,
     Clos2OutStep, ClosOutStep, CloseStep, CloseSendStep, LeaveStep, UnmapStep,
     CloseMainStep, OtherStep DEF Next, Opening, Closing
<1> QED BY <1>1, <1>2

-----------------------------------------------------------------------------
(* The theorems. *)

\* and it holds throughout.
LEMMA AlwaysIInv == Spec => []IInv
BY InitIInv, NextIInv, PTL DEF Spec

\* Whatever fails and however the calls interleave, every descriptor of the
\* library is in the hands of exactly one socket, and the mapped objects are
\* those a call has mapped and not yet unmapped (ud_socket(), ud_close()).
THEOREM OwnershipCorrect == Spec => []Ownership
BY AlwaysIInv, PTL DEF IInv

\* With no call under way what is open and mapped is what the open sockets
\* have: no error path of ud_socket() and no branch of ud_close() leaks.
THEOREM NoLeakCorrect == Spec => []NoLeak
<1>1. IInv => NoLeak
  <2> SUFFICES ASSUME IInv, \A h \in Sock : Quiet(h) PROVE NoLeak
    BY DEF NoLeak
  <2> DEFINE opened == {h \in Sock : sock[h].pc = "open"}
  <2>1. \A h \in opened : Held(h) = {sock[h].fd, sock[h].fd_send}
    BY DEF Held
  <2>2. \A h \in Sock : h \notin opened => Held(h) = {}
    BY DEF Held, Quiet
  <2>3. {f \in Fd : owner[f] = "lib"} = UNION {{sock[h].fd, sock[h].fd_send} : h \in opened}
    BY <2>1, <2>2 DEF IInv, Ownership
  <2>4. mapped = opened
    BY DEF IInv, TypeOK, Ownership, Quiet
  <2>5. \A g, h \in opened : g # h =>
          {sock[g].fd, sock[g].fd_send} \cap {sock[h].fd, sock[h].fd_send} = {}
    BY <2>1 DEF IInv, Ownership
  <2> QED BY <2>3, <2>4, <2>5 DEF NoLeak
<1> QED BY <1>1, AlwaysIInv, PTL

\* A socket ud_socket() handed out has the descriptors its mode needs, open,
\* and is a member of the group exactly if it receives.
THEOREM UsableCorrect == Spec => []Usable
<1>1. IInv => Usable
  <2> SUFFICES ASSUME IInv, NEW h \in Sock, sock[h].pc = "open"
               PROVE  /\ h \in mapped
                      /\ \A f \in {sock[h].fd, sock[h].fd_send} : f \in Fd /\ owner[f] = "lib"
                      /\ sock[h].fd # sock[h].fd_send <=> sock[h].mode = "PUBSUB"
                      /\ sock[h].fd \in joined <=> Subscribes(h)
    BY DEF Usable
  <2>1. Held(h) = {sock[h].fd, sock[h].fd_send}
    BY DEF Held
  <2> QED BY <2>1 DEF IInv, Ownership, Shape, Both, Membership
<1> QED BY <1>1, AlwaysIInv, PTL

\* No step of the library closes a descriptor of somebody else: what it
\* closes is its own, closed once.
THEOREM OthersKeptCorrect == Spec => OthersKept
<1> DEFINE Kept == \A f \in Fd : owner[f] = "other" /\ owner'[f] # "other" => OtherClose(f)
<1>1. ASSUME IInv, [Next]_vars PROVE [Kept]_vars
  <2>1. CASE UNCHANGED vars
    BY <2>1
  <2>2. ASSUME NEW h \in Sock,
               (\E mode \in Mode : Open(h, mode)) \/ Opening(h) \/ Close(h) \/ Closing(h)
        PROVE  \A f \in Fd : owner[f] = "other" => owner'[f] = "other"
    <3>1. ASSUME NEW f \in Held(h), CloseFd(f)
          PROVE  \A g \in Fd : owner[g] = "other" => owner'[g] = "other"
      BY <1>1, <3>1 DEF CloseFd, IInv, TypeOK, Ownership
    <3>2. ASSUME NEW f \in Fd, owner[f] = "free", owner' = [owner EXCEPT ![f] = "lib"]
          PROVE  \A g \in Fd : owner[g] = "other" => owner'[g] = "other"
      BY <1>1, <3>2 DEF IInv, TypeOK
    <3>3. CASE Socket(h) \/ Socket2(h)
      BY <3>2, <3>3 DEF Socket, Socket2
    <3>4. CASE Clos2Out(h) \/ ClosOut(h) \/ CloseSend(h) \/ CloseMain(h)
      <4>1. \/ owner' = owner
            \/ \E f \in Held(h) : CloseFd(f)
        BY <3>4 DEF Clos2Out, ClosOut, CloseSend, CloseMain, Held
      <4> QED BY <3>1, <4>1
    <3>5. CASE UNCHANGED owner
      BY <3>5
    <3> QED BY <2>2, <3>3, <3>4, <3>5
        DEF Open, Opening, Closing, Bind, Map, Join, MunmOut, Close, Leave, Unmap
  <2>3. ASSUME NEW f \in Fd, OtherOpen(f) PROVE Kept
    BY <1>1, <2>3 DEF OtherOpen, IInv, TypeOK
  <2>4. ASSUME NEW f \in Fd, OtherClose(f) PROVE Kept
    BY <1>1, <2>4 DEF OtherClose, IInv, TypeOK
  <2>5. CASE Next
    BY <2>2, <2>3, <2>4, <2>5 DEF Next
  <2> QED BY <1>1, <2>1, <2>5
<1> QED BY <1>1, AlwaysIInv, PTL DEF Spec, OthersKept
=============================================================================
