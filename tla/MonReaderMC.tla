---------------------------- MODULE MonReaderMC ----------------------------
(***************************************************************************)
(* An instance of MonReader for TLC.  Four services, two to a page, the    *)
(* last two of them PING and PONG; payloads of two messages, or spoiled    *)
(* behind the first.                                                       *)
(***************************************************************************)
EXTENDS MonReader

CONSTANTS d, e

MCBodies == {<<"data", "data">>, <<"data", "other">>}
=============================================================================
