--------------------------- MODULE DecoderRegistry ---------------------------
(***************************************************************************)
(* What unsermon's decoder map promises (unsermon.h): a decoder for each   *)
(* service, the one registered last, until it is deregistered.             *)
(***************************************************************************)
CONSTANTS Svc, Decoder, Null

VARIABLE reg

Init == reg = [s \in Svc |-> Null]

Reg(s, cb) == reg' = [reg EXCEPT ![s] = cb]
Dereg(s) == reg[s] # Null /\ reg' = [reg EXCEPT ![s] = Null]

Next == \E s \in Svc : Dereg(s) \/ \E cb \in Decoder : Reg(s, cb)

Spec == Init /\ [][Next]_reg
=============================================================================
