---------------------------- MODULE UnserdingMC ----------------------------
(***************************************************************************)
(* Instances of Unserding for TLC.  Two services, as two is what makes a   *)
(* publisher flush; the length octet has LenMod values and a packet holds  *)
(* two short messages but not two long ones.                               *)
(***************************************************************************)
EXTENDS UnserdingReads

CONSTANTS a, b
=============================================================================
