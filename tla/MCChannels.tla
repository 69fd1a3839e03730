----------------------------- MODULE MCChannels -----------------------------
(***************************************************************************)
(* Three channels of the client and two of the server, so that the numbers *)
(* of the two sides differ, and one operation of each side that makes its  *)
(* queue of global requests slip.                                          *)
(***************************************************************************)
EXTENDS Channels

MCOpens == [client |-> 3, server |-> 2]
MCStrays == [client |-> 1, server |-> 1]
=============================================================================
