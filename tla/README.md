# unserding in TLA+

unserding is a C library and a handful of programs for publishing and
subscribing over IPv6 multicast: small messages are packed into UDP packets,
nobody acknowledges anything, and a control channel lets peers PING each other.
This directory holds TLA+ modules for its parts, TLC configurations that check
them on small instances, and proofs that hold for every value of the constants.
Paths below are relative to the repository (`src/` is its source directory).

Run a check with `tlc -config packing.cfg UnserdingMC` and a proof with
`tlapm Unserding_proofs.tla`.


## 1. The system

| part | code | state it keeps | operations |
|---|---|---|---|
| messaging core | `src/unserding.c`, `ud-private.h` | per socket: a send packet with its fill `npk`, the service `svc` it is for and the next packet number `pno`; a receive packet with its length `nrd`, the read offset `nck`, the sender | `ud_pack_msg`, `ud_flush`, `ud_chck_msg`, `ud_dscrd`, `ud_pack_cmsg`, `ud_chck_cmsg`, `ud_get_aux` |
| socket life cycle | `src/unserding.c` | two descriptors, a mapping, a group membership, a mode | `ud_socket`, `ud_close` |
| PING and PONG | `src/svc-pong.c` | one static message buffer | `ud_pack_ping`, `ud_pack_pong`, `ud_chck_ping`, `mon_dec_ping` |
| ud-ping | `src/ud-ping.c` | the count left, a timer | timer and socket callbacks |
| ud-router | `src/ud-router.c` | the descriptor to forward to, a watcher on it, the second of the last attempt to connect | callbacks of a libev loop |
| ud-dealer | `src/ud-dealer.c` | a ring of eight TCP connections, a pipe where it is built to splice | callbacks of a libev loop |
| unsermon | `src/unsermon.c` | a two level map of decoders, sockets, times of activity and report | main, socket callback, `ud_mondec_reg`, `ud_mondec_dereg` |
| logger | `src/ud-logger.c` | a stream, the name of the file | `ud_openlog`, `ud_rotlog`, `ud_closelog`, `ud_logout` |
| daemonise, module loader, address and time helpers, block cipher, tests, script | see PROJECT.json | none that matters here | |

How they interact:

* An application calls the core. The core has no thread of its own, so a call
  is a step; but a call that *reads* may also *send*: `ud_chck_msg()` answers a
  PING, and the answer flushes whatever the same application had half packed.
* All sockets of a channel are in one multicast group and hear themselves.
* A program shares its descriptor table with everything else in the process.
* `ud-router` subscribes to a channel and copies its datagrams to `ud-dealer`,
  over UDP or TCP, which publishes them on another network.
* `unsermon` subscribes to several channels and hands packets to decoders that
  modules registered. The programs write their diagnostics through the logger.

What is hard about it: datagrams are lost, doubled, overtaken; `sendto()` fails;
system calls fail half way through opening a socket; callbacks of one poll run
in an order libev chooses and act on state another one has just changed; a TCP
peer goes away between a poll and a send; lengths are cut to octets; counters
wrap; static variables are shared by what looks independent.

What makes each part correct:

* core: packets are read where they were written, messages come out as they went
  in, nothing packed is lost before `sendto()` took it, every PING is answered
  once and answers end, packet numbers show losses;
* life cycle: nothing leaks, nothing is closed twice, what is handed out works;
* ping: `--count` attempts to send a request, every answer shown with its name, though one
  message is read an event and others use the port as well;
* bridge: no descriptor forgotten, nothing twice that was taken once, what is spliced in
  order, reconnecting throttled, dead connections let go;
* unsermon: the decoder registered last is used, every message is printed once and
  by the decoder of its own service, reports are neither too many nor too few; it closes
  what it opened if it comes to its end, which it does unless the control channel or all
  of the `--beef` channels could not be opened (section 5);
* logger: one stream, the one written to, closed once, never leaked while `ud_openlog()`
  succeeded.


## 2. The modules

Definitions whose name starts with `Bug` are mutated forms of the definition
below them. They are used by mutation runs only, never by a specification.

### Core

`UdWire` is the wire format. A payload is a function from byte offsets to
*cells*; a cell says whether a pack (type octet, length octet, data) starts
there, with which length and, as bookkeeping of the model, of which message. A
write covers the cells of the bytes it overwrites, and a shorter packet leaves
the rest of the receive buffer as it was, so stale and split packs can be seen.
A datagram carries its packet number modulo `PnoMod` and, for the properties only,
the number uncut (`nr`).

`Unserding` is the core. `snd[s]` and `rcv[s]` are the send and receive halves
of the socket structure, `inq[s]` the kernel's queue. Actions, one per call:

| action | code |
|---|---|
| `PackMsg` | `ud_pack_msg()` with `__msg_fits_p()`, `__svc_same_p()` and the flush it may start with |
| `Flush` | `ud_flush()`; a refused `sendto()` leaves everything as it is |
| `SendPing` | `ud_pack_pong(s, 0)`: a flush whose failure is ignored, then a control packet |
| `ChckFresh`, `ChckNext`, `ChckEnd` | the three cases of `ud_chck_msg()`: read a datagram, look at the next pack (with the answer to a PING), end of the packet |
| `Dscrd` | `ud_dscrd()` called by the application |
| `Lose`, `Duplicate`, `Reorder`, `ForeignSend` | the network |

The variables `accepted`, `left`, `delivered`, `pinged`, `ponged` are history:
no guard of the code's actions reads them, except that their lengths bound the
behaviour.

`PubSub` is what the core promises, in a handful of actions: ordered unreliable
multicast, with control messages in between that have no place in the order (`Hear`).
`Unserding!ImplementsPubSub` is the refinement, on an ordered network. `GapFree` says
what packet numbers are for: if they are equal or follow each other, and less than
`PnoMod` packets apart (`SaysNext`), for all that came from a publisher between one of
its messages and the next, the second message was packed right behind the first.

`PackReader` is what *reading* promises, on any network: whole datagrams, pack by
pack, in their order and under the datagram's service. It knows neither offsets nor
buffers. The packs of a datagram are a function from places, of which
only the order matters. `UnserdingReads` maps the core to it (`ImplementsReader`): the
packs still to be read are those at the heads that the receive buffer holds between
`nck` and `nrd`, and a place is an offset.
`UdPing` and `MonReader` are built on `PackReader`: the programs that subscribe are
modelled over what the core was shown to implement.

`UnserdingMC` declares the model values.

### Life cycle

`UdSocket` has one action per system call of `ud_socket()` and `ud_close()`,
each with its failure as a second disjunct, and an action per error label. Two
or more sockets may be in these calls at the same time, and the rest of the
process opens and closes descriptors, which get the numbers released.

### Bridge

`UdLink` is the unicast link (connections, streams, resets, the ICMP error of a
UDP socket), `UdRouter` the router's loop (a poll collects callbacks, `chk_cb`
runs first, the others in any order), `UdDealer` the dealer; `UdBridge` composes
them with a second router that takes connections too. Whether the link is UDP or
TCP is what the option says, and whether the dealer splices is how it was built:
`proto` and `spliced` are variables set at the start. A dealer that splices moves
what it reads into a static pipe and asks as many bytes of the pipe as it put in;
what the second `splice()` does not take stays there for the next time
(`SpliceChunk`; `SendChunk` is the callback with `recv()` and `send()`).
`Chunks` is what came out, one chunk a send, and behind it what is still in the pipe;
`piped` is the history of what went in, less what ended with a dealer.

A datagram is two pieces, `Bytes`. The router's loop (`src/ud-router.c:298`) sends the whole
buffer again unless all of it was taken: over UDP a `send()` takes all or nothing, on a
stream it may take a part. `Sent` is what up to `MAX_RETR` of them put into the stream; a
first piece that went alone carries the number of the `send()` it came from, so that a
piece sent again differs from one published again.

### Programs around it

`UdPing`: ud-ping with the payload of PING and PONG, over `PackReader`. A host is the
length of its name, which is all that packing a name can get wrong. `ptm_cb()` counts an
attempt to send whether or not the kernel takes the PING (`sent`, `refused`). `sub_cb()` looks
at one message an event; `ev_unloop()` ends the loop with the iteration it is in, so
callbacks that are pending then still run (`last`); others ping, publish packets of
two messages on the port, or send what is no packet (`Chatter`).
`MonDecmap`: unsermon's decoder map; `DecoderRegistry` is what it promises.
`MonReader`: unsermon from its modules to its lines. Modules register decoders,
svc-pong's first, while datagrams gather; then the callback of the socket reads until
`ud_chck_msg()` gives nothing and prints a line for each message. It extends
`MonDecmap` and `PackReader`, so `Round` is one call of the core and one look into the
map. `MonReaderMC` has its model values and payloads.
`MonActivity`: `mon_beef_actvty()`; `Unsermon` composes it with `main()`: the
sockets opened, the loop, what is closed at the end.
`UdLogger`: the logger with `atexit()`, files renamed under it, failing opens, of
`/dev/null` too, after which the logger takes the null pointer for syslog. `streams` are
the open streams with standard error among them, which the logger closes if told `-`.


## 3. What TLC checks

Every run lists its properties in PROJECT.json, together with one mutation per
property: a definition replaced by what a plausible slip in the code would make
of it, under which the run finds the property violated.

| run | properties | what it shows |
|---|---|---|
| `packing` | `TypeOK`, `FramingAgrees`, `Integrity`, `NoPackLost`, `NoUnsolicitedPong`, `ImplementsReader` | with every misbehaviour of network and `sendto()`, buffers stay in bounds, the reader never leaves the packs, and what comes out is what went in; offsets in a buffer used over and over come to reading whole packets pack by pack |
| `pings` | `NoUnsolicitedPong`, `EveryPingAnswered`, `NoPackLost`, `QueuedIsDelivered`, `PingsSettle` | two readers that PING each other and hear themselves answer each PING once, fall silent, and hand out everything the kernel keeps; the answer that flushes what the reader had half packed loses none of it |
| `ordered` | `GapFree`, `ImplementsPubSub` | packet numbers show every loss on an ordered network, though they wrap and control packets take some; the core refines `PubSub` |
| `sockets` | `Ownership`, `NoLeak`, `Usable`, `OthersKept` | no error path leaks or closes somebody else's descriptor |
| `bridge` | `TypeOK`, `OneWatchedConn`, `SlotsHoldOpen`, `NoDoubles`, `OneTryASecond`, `AsIsOverUDP`, `PipeInOrder`, `DeadConnDropped` | `ctx->dst`, the watcher and the open connection agree at every point of the loop; the ring loses no connection; retries double nothing that one `send()` took; a dealer that splices publishes the bytes it read in order, and loses none while it lives; a connection the dealer ended is let go |
| `ping` | `ExactCount`, `AnswersShown`, `NamesWhole`, `PongsShown`, `Stops` | the attempts are as many as the count, refused ones among them, although it wraps below zero at the end and a pending timer may run after a signal; names up to the limit come out whole; a PONG the kernel keeps is shown although one message is read an event |
| `decmap` | `PrintsWhatCame`, `RightDecoder`, `ImplementsRegistry`, `QueuedIsPrinted` | page and entry of a service never collide; each message that arrives is printed once, in order, by the decoder of its own service; none waits in the library's buffer when the callback returns, none waits in the kernel for ever |
| `monitor` | `DetachesAll`, `Reminded`, `ReportsApart` | activity comes with a report that is a minute old at most, reports are a minute apart at least; at the end all sockets are closed, or the control channel or every `--beef` channel could not be opened, and then it crashes |
| `log` | `OneStream`, `ClosedAtExit`, `RotatesFilesOnly` | opening, rotating, closing and `atexit()` in any order close every stream once, standard error too; rotations move a log in a file only |
| `empty_ping` | `EveryPingAnswered`, violated | a PING without payload is not answered |
| `bridge_stream` | `AsIs`, violated | over TCP datagrams are joined and cut |
| `log_rotate` | `ReopensFile`, violated | rotating loses the file |

### Bounds

* Core. `LenMod = 2` and `Cap = 5`: a packet holds two packs of which one is
  empty but not two full ones, so that filling, overflowing into a new packet and
  leaving room all happen; two services are what makes a publisher flush.
  `PnoMod = 3` wraps within a run. `ordered` takes four messages, a PING and a
  queue of two datagrams, so that packets are dropped and numbers come round again; a
  loss of `PnoMod` packets in a row is invisible by design, in the code at 65536, and
  `SaysNext` leaves it out. `packing` takes two messages, a PING, queues of two (the kernel drops
  the third) and one misbehaviour. The theorems of section 4 are about
  all sizes, so the bounds of `packing` are only there to find mistakes early.
* `sockets`: two sockets that need two descriptors each, four descriptors in all,
  so the last `socket()` may find none left.
* `bridge`: three connections for two slots, so the ring wraps and evicts, one at a time of
  them another router's (`MaxIdle`); two
  datagrams of two pieces, so a read can join and cut; two seconds, so the router
  reconnects once. A read takes two pieces at most in `bridge`, where cut and joined
  datagrams come of streams torn by a `send()`, and three in `bridge_stream`: more than a
  datagram, less than two. Two `send()`s of the code's three are what a retry takes, and one
  datagram may be torn (`MaxTorn`), which is enough to put a piece of it into the stream
  twice.
* `ping`: names of 1 and 58 octets, the limit being 58; a count of two; a queue of
  three datagrams; one packet of others, which is enough for a message that stays in
  the library's buffer behind the one looked at. The counter has 16 bits instead of 32.
* `monitor`: a minute is four seconds; sixteen seconds let reports and reminders
  follow one another; three channels and the control channel.
* `decmap`: two pages of two services, two decoders; PING and the PONG behind it are on
  the second page. Three datagrams and a queue of two, with payloads of two packs of
  which the second may be spoiled. The theorems have 256 services to a channel and any payloads.
* `log`: three streams, files and four messages.

Deadlock is checked where the model cannot stop (`sockets`). The others end when their bounds are reached, when a program exits, or when nothing
is left to read.

### Fairness

* `pings`: weak fairness of `ChckMsg` for every subscriber. The programs poll
  their socket, level triggered, and their callbacks call `ud_chck_msg()` until
  it returns -1 and again at the next event. Nothing is assumed of publishers or
  of the network, and sending succeeds in this run.
* `bridge`: weak fairness of the router's loop. As long as something is readable
  `poll()` returns. The dealer, the clock and the signals are not fair.
* `ping`: weak fairness of the socket's callback: libev calls it as long as the kernel
  keeps a datagram. `Stops` has weak fairness of the timer as its premise, and
  `PongsShown` holds without it.
* `decmap`: unsermon gets through its modules to the loop; the callback runs while
  the kernel keeps datagrams, and a callback goes on until it returns. Modules of the
  command line may register for ever as far as `PrintsWhatCame` goes, but `EvLoop` is
  fair. Nothing is assumed of the senders.


## 4. What is proved

TLAPS checks every proof; none is left out. Proofs need the assumptions on the
constants named in the modules (`WireAssumption`, `CoreAssumption`, `FdAssumption`,
`LinkAssumption`, `RouterAssumption`, `DealerAssumption`, `PingAssumption`,
`DecmapAssumption`, `MonReaderAssumption`, `ActivityAssumption`, `MonAssumption`,
`LoggerAssumption`), which TLC evaluates in the runs. What a theorem assumes beyond
them is in its statement.

**`Unserding_proofs`**, for any set of sockets, packet size, length octet, number
of packet numbers, queue length and any faults:

* `TypeCorrect`: buffers never overflow.
* `FramingCorrect`: `FramingAgrees`. The invariant must be strengthened: the send
  buffer is framed up to `npk`, every queued datagram up to its length and the
  read offset is at the head of a pack or at the end. A write at `npk` extends
  a framed prefix, a copy keeps it, and a step over a pack leads to the next.
* `NoPackLostCorrect`: messages in the send buffer and those sent are a partition
  of those packed. The invariant orders them by their place in the buffer.
* `IntegrityCorrect`: `Integrity`, if nobody packs for service 0 and no message is
  longer than the length octet can say. The invariant follows every cell, from the
  send buffer over the queues to the receive buffer, back to the message it was
  packed from, with the packet's service equal to the message's.
* `NoUnsolicitedPongCorrect`. That `ponged` stays below `pinged` is not inductive; what
  is: a PING packet has one pack or none, in the queues and in the receive buffer, and
  PONGs sent and the one still owed for the pack at `nck` are together no more than the
  PINGs read. Looking at the pack moves `nck` to the end of the packet, so the answer is
  not owed again.
* `EveryPingAnsweredCorrect`, the other direction, under `Plain`: sending works, PINGs
  have a payload and the application does not discard. Each of the three is needed
  (`empty_ping` shows one). The invariant bounds PINGs read by PONGs sent and the one
  owed.

Every step of the core changes the send states, the queues and the receive states
in few ways; the lemmas `NextSnd`, `NextQueues` and `NextRcv` say which, once, and
each invariant is proved from them.

**`PubSub_proofs`**, about the same constants:

* `PubSubCorrect`: the core refines `PubSub`, if nobody packs for service 0, no message
  is longer than the length octet can say, and the network neither doubles nor
  overtakes datagrams. The mapping is only that history variables are what they are;
  what must be shown is that each message handed out is later than those before. The
  invariant `FlowInv` has, for every publisher, counts `c[n]` of the messages that left
  it in front of its packet `n`. For every subscriber it puts what the queue holds of the
  publisher, the packet being read and what was handed out in one line (`Line`), in
  which packet numbers rise, and packet `n` is the messages from `c[n] + 1` to
  `c[n + 1]`. `BareInv` says that strangers' packets have nothing in them. Numbers that
  rise, counts that rise with them and packs in order give the promise.
* `GapFreeCorrect`, if subscribers do not discard and the network neither doubles nor
  overtakes. Two neighbours among the messages handed out are neighbours in `Line`, a
  least number among those in between would otherwise have been handed out
  (`Neighbours`); and two numbers less than a modulus apart are known by their residues
  (`Multiple`, `NextNumber`).
* `ReaderCorrect`: the core refines `PackReader`, on any network and without
  hypotheses. A buffer that is framed from `nck` to `nrd` has its next pack at `nck` and the
  rest behind it (`PacksStart`, `PacksBehind`); packets that are not of a publisher
  have no payload (`BareInv`), those that are have the messages of their sender
  (`NeatInv`), and queues are bounded (`QueueBound`).

**`UdSocket_proofs`**, for any number of sockets and descriptors: `Ownership`,
`NoLeak`, `Usable` and `OthersKept`. `Ownership` alone is not inductive: closing the
second descriptor is right only because it differs from the first exactly in mode
PUBSUB (`Shape`), and membership of the group is right only because a free
descriptor is a member of nothing (`Membership`). Each step is a passage, an
acquisition or a release, and each kind is treated once.

**`UdBridge_proofs`**, for any number of connections, slots and datagrams, over UDP or
TCP, spliced or not:

* `OneTryASecondCorrect`: the second of the last attempt is never ahead of the clock
  (`TriesInv`).
* `TypeCorrect`: the types, with what callbacks wait (`SubWaits`): a callback that
  acts on the connection needs that there is one.
* `OneWatchedConnCorrect`: inductive once the types are known; every callback is a step.
* `SlotsHoldOpenCorrect`: what is open on the dealer's side is in a slot and the other
  way round, and no two slots hold the same (`HoldInv`). An eviction and an accept
  that fails are one step, as in the code.
* `AsIsOverUDPCorrect`: over UDP only whole datagrams are ever on their way (`WholeInv`). It
  is about datagrams no longer than the buffers, as the library's are (section 6).
* `NoDoublesCorrect`: the router numbers what it reads (`NumInv`), and each piece that one
  `send()` took is in one place only, on its way on one connection, in a chunk or in the
  pipe (`SoleInv`). Whatever a step does, it moves pieces on one connection, adds some
  that were nowhere, or drops some (`Shift`), which keeps them apart. On a stream the first
  piece of a datagram may be there once for each `send()` that took a part, for
  the code sends the whole buffer again; that is all the property allows for.
* `PipeInOrderCorrect`: what was published, one chunk behind the other, and then what is in
  the pipe are all that was put in, byte for byte (`PipeInv`). It is conservation: a byte
  dropped, doubled or overtaken violates it. `FlattenSeq` is a recursive function of the
  library; what it gives for one sequence more (`FlattenAppend`) is proved from the least
  place where two of its graphs could differ (`LeastNat`).

**`MonReader_proofs`**:

* `DecmapImplements` and `ReaderImplementsRegistry`, for any number of pages and any
  decoders, with 256 services to a channel: the map has its type and implements
  `DecoderRegistry`, alone and under all that unsermon does. That page and entry
  determine the service is integer arithmetic; everything else follows from it.
* `RightDecoderCorrect` and `PrintsWhatCameCorrect`, for any modules, payloads and queue.
  `PrintInv`: what the library's buffer holds is the rest of the datagram taken last and
  the kernel's queue the last of those sent (`LastOf`), each under its own service
  (`Labelled`); lines are the messages passed, in order, each with the decoder its
  service had when the loop began, and nobody registers after that.

**`UdPing_proofs`**: `ExactCountCorrect`, for every count the counter can hold (`CountInv`:
count left, PINGs sent and PINGs refused add up as long as the timer may run, which it no longer
does once the counter has wrapped); `AnswersShownCorrect` and `NamesWholeCorrect` for names of up to 58 octets
(`ShownInv`, which asks nothing of the queue: what others send may be anything).

**`Unsermon_proofs`**: `RemindedCorrect` and `ReportsApartCorrect`, for any period and at any
second (`TimesInv`: `Reminded` with the types is inductive), and `DetachesAllCorrect`, for
any number of channels: which sockets are open at the end, and that only a missing control
channel, or no `--beef` channel out of some, makes it crash (`SlotsInv`).

**`UdLogger_proofs`**: `OneStreamCorrect`, `ClosedAtExitCorrect`, for processes whose
`ud_openlog()` succeeded, and `RotatesFilesOnlyCorrect`. The
invariant `LogInv` says of the stream at hand that it is the only one open, or one of
the process's own, and that the file's name is known only if a file was told, by which
the code tells its three outputs apart.

Model-checked only: the liveness properties `QueuedIsDelivered`, `PingsSettle`,
`PongsShown`, `Stops`, `DeadConnDropped` and `QueuedIsPrinted`; temporal reasoning under
fairness is beyond the prover. Each safety property that a run finds to hold is a theorem.
`AsIs` and `ReopensFile` do not hold, and `EveryPingAnswered` only under `Plain`.

What recursion over data would compute has been stated without it: a reader's packs are
a function from places instead of a sequence that is sorted, a line of unsermon is a
message with its place. Such a form says the same and can be proved about for buffers and
histories of any length. `PipeInOrder` alone speaks of what a recursive function computes.


## 5. Where the code and its words part

Three disagreements have runs of their own:

* `empty_ping`: `src/unserding.c:633` gives up on a packet without payload before it
  looks for control messages; the manual (`info/unserding.texi:276`) makes the reply
  mandatory and allows an empty request.
* `bridge_stream`: `src/ud-dealer.c:275` takes a `recv()` of a stream for a datagram,
  where the comment at line 280 says "redirect packet as is".
* `log_rotate`: `ud_rotlog()` (`src/ud-logger.c:120`) calls the function that forgets
  the file's name and then opens that name; messages go to `/dev/null` from then on.

Others are in the models as they are in the code, and kept out of the properties or
of the instances:

* Service 0 means "no service yet" (`src/unserding.c:565`): a message packed for it
  is handed out under the service of the next one in its packet. `Svcs = {0, 1}` in
  `packing.cfg` violates `Integrity`; the theorem excludes 0.
* A message longer than 255 octets is cut to its length modulo 256 and accepted
  (`src/unserding.c:572`). `DLens = {1, 2}` in `packing.cfg` violates `Integrity`.
* One short `splice()` shifts the ends of all datagrams behind it (`src/ud-dealer.c:254`): what
  stays in the pipe is published in front of the next one and as much of that one
  stays. While the dealer lives no byte it read is lost, doubled or overtaken, which is
  `PipeInOrder`; what is in the pipe when it ends is lost with it. That datagrams stay
  whole (`AsIs`) is claimed without splicing only. A pipe that
  fills up that way would block the dealer in the first `splice()`.
* A `send()` on the stream that takes a part of a datagram is followed by one of the whole
  buffer (`src/ud-router.c:298`), so the dealer reads the part twice; `NoDoubles` allows for
  that and the router does not tell.
* `ptm_cb()` does not look at what `ud_pack_pong()` returns (`src/ud-ping.c:93`) and has
  counted down already: of `--count` requests fewer go out if the kernel refuses some,
  where the option's help says "Send exactly NATNUM echo requests"
  (`src/ud-ping-clo.ggo`). `ExactCount` counts both.
* Told `-`, the logger closes the process's standard error at the end
  (`src/ud-logger.c:80`), and whatever is written there afterwards fails. After an
  `ud_openlog()` that failed nothing is closed at exit; and if `/dev/null` cannot be opened
  either (`:64`) messages go to syslog.
* `ud_close()` does not flush: messages packed and not flushed are gone with the socket
  (`src/unserding.c:451`); the module of the core does not close.
* `ud_chck_ping()` gives a pointer into a static buffer (`src/svc-pong.c:144`) which the next
  PING, PONG or answer overwrites. ud-ping prints at once, inside the same callback.
* `ud_dscrd()` with nothing buffered reads the next packet and leaves it buffered
  (`src/unserding.c:514`), where `src/unserding.h:169` speaks of discarding.
* A host name of more than 58 octets is sent with 59 and refused by the library's own
  reader (`src/svc-pong.c:88`, `:140`). `Hosts = {1, 59}` in `ping.cfg` violates
  `AnswersShown`.
* `mon_dec_ping()` (`src/svc-pong.c:183`) wants a message of exactly 64 octets, which
  those of hosts with ordinary names are not, and prints `?`.
* When the name of the dealer is not found `ud_router_socket()` frees a pointer never
  set and returns descriptor 0, which the router then forwards to and watches
  (`src/ud-router.c:217`; `RouterSocket`). A router that ends before it connected
  closes descriptor 0 (`:315`; `Down`).
* A datagram sent after the reset of the TCP connection and before the callback that
  sees it kills the router with SIGPIPE (`src/ud-router.c:298`; `Forward`).
* `last_act` and `last_rpt` are shared by all networks (`src/unsermon.c:318`), so one
  of two active networks may never be named; `Reminded` is about all of them together.
* unsermon's shutdown goes through slots whose socket could not be opened and looks
  into a null pointer (`src/unsermon.c:558`): that is so if the control channel or all of
  the `--beef` channels could not be opened. Phase `"crashed"` of `Unsermon`, in which sockets
  are still open; `DetachesAll` says that there is no other way to it.


## 6. What is not modelled, and why

* Core: `gethostname()` failing; the overflow of the packet number, an `int` of which 16
  bits go on the wire, after 2^31 packets (the model's is unbounded); a `sendto()` that takes part of a
  datagram, which UDP does not do; malformed payloads of other senders beyond an empty
  packet, a packet that is not unserding's and a payload that is no data pack. The
  wrappers `ud_pack()` and `ud_chck()` only copy.
* Life cycle: socket options and addresses; nothing depends on them.
* Bridge: one channel at a time in the router; the router's `sub_cb_splc()`, which its
  `main()` never installs; the parsing of the address option; how long a send waits on a
  full TCP buffer or a splice on a full pipe; the cut of a datagram longer than the buffers of
  `ETH_MTU` octets (`src/ud-router.c:293`, `src/ud-dealer.c:275`), which those of the library
  are not. A
  connection's number is not used again: a descriptor that is reused is another
  connection. A datagram is two pieces on a stream.
* ud-ping: `gethostname()` failing, the text of its lines, round trip times.
* unsermon: the text of a line, which decoders write (`mon_dec_ping()` among them), and
  the hex dump of services nobody decodes; a decoder is a value that can be told from
  others. One socket at a time reads: the callbacks of several share the map only,
  which nobody changes in the loop.
* svc-pong's set of server scores (`svc-pong.h:55-109`), used by no program here.
* daemonise, the module loader, address and time helpers: sequences of system calls
  or functions of one value, without state. `btea.c` is used by nothing.


## 7. Plan

Done in this order: wire format and core with its abstract specification and
proofs; life cycle with proofs; bridge; ud-ping; unsermon with the decoder map's
proof; logger; then reading as an abstract specification and the programs on top of
it, unsermon's modules and lines, the dealer that splices; proofs for the bridge,
unsermon, ud-ping, the logger and the answers to PINGs; the refinements of `PubSub` and
`PackReader`, packet numbers, the bridge's and unsermon's histories as theorems. Next,
most important first:

1. several channels in the router, which share the connection and the clock, with
   `OneWatchedConn` and `OneTryASecond` proved for any number of them;
2. the loop of unsermon with all its sockets, so that `Unsermon` and `MonReader`
   become one module and `Reminded` is about packets that come in;
3. `UdPing` and `MonReader` take `PackReader` as it is; a theorem that their
   subscribers' steps are steps of it would close the chain from the core to the lines.
