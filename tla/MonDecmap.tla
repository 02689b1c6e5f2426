------------------------------ MODULE MonDecmap ------------------------------
(***************************************************************************)
(* unsermon's map from services to the decoders of plugged in modules: an  *)
(* array of pages, one for two channels, mapped when first needed.         *)
(***************************************************************************)
EXTENDS Integers

CONSTANTS
  ChnSize,  \* services of a channel, 0x100 in UD_CHN()
  NPages,   \* countof(decmap)
  Decoder,  \* the decoders
  Null      \* no decoder, no page

ASSUME DecmapAssumption ==
  /\ ChnSize \in Nat \ {0} /\ NPages \in Nat \ {0}
  /\ Null \notin Decoder /\ Null \notin [0 .. (2 * ChnSize - 1) -> Decoder \cup {Null}]

VARIABLE decmap

Svc == 0 .. (2 * NPages * ChnSize - 1)
UD_CHN(svc) == svc \div ChnSize

\* The page of a service, with a page for each channel but as many as for half
\* of them (for mutation runs, like every definition whose name starts with
\* Bug)
BugPageOf(svc) == UD_CHN(svc) % NPages
\* decmap[chn / 2]
PageOf(svc) == UD_CHN(svc) \div 2

\* svc & ((1U << 9U) - 1)
Entry(svc) == svc % (2 * ChnSize)

Page == [0 .. (2 * ChnSize - 1) -> Decoder \cup {Null}]
EmptyPage == [e \in 0 .. (2 * ChnSize - 1) |-> Null]

\* Every page that is mapped has an entry for each service of two channels.
DecmapTypeOK == decmap \in [0 .. (NPages - 1) -> Page \cup {Null}]

DecmapInit == decmap = [p \in 0 .. (NPages - 1) |-> Null]

\* __mondec()
Mondec(svc) ==
  IF decmap[PageOf(svc)] = Null THEN Null ELSE decmap[PageOf(svc)][Entry(svc)]

\* dm, mapped if it was not
PageFor(svc) == IF decmap[PageOf(svc)] = Null THEN EmptyPage ELSE decmap[PageOf(svc)]

\* ud_mondec_reg(); it changes nothing if mmap() fails
Reg(svc, cb) ==
  decmap' = [decmap EXCEPT ![PageOf(svc)] = [PageFor(svc) EXCEPT ![Entry(svc)] = cb]]

\* ud_mondec_dereg(); it changes nothing if there is no page or no decoder
Dereg(svc) ==
  /\ decmap[PageOf(svc)] # Null
  /\ decmap[PageOf(svc)][Entry(svc)] # Null
  /\ decmap' = [decmap EXCEPT ![PageOf(svc)][Entry(svc)] = Null]

DecmapNext == \E svc \in Svc : Dereg(svc) \/ \E cb \in Decoder : Reg(svc, cb)

DecmapSpec == DecmapInit /\ [][DecmapNext]_decmap

-----------------------------------------------------------------------------

Registry == INSTANCE DecoderRegistry WITH reg <- [s \in Svc |-> Mondec(s)]

\* A service has the decoder registered for it last and no other, although
\* pages and entries are computed from different parts of the number.
ImplementsRegistry == Registry!Spec
=============================================================================
