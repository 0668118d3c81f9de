------------------------------- MODULE MCMemory -------------------------------
(***************************************************************************)
(* An instance of ConnectionMemory for TLC: three connections, two slots   *)
(* and three descriptor numbers, so that an accept may be refused; a pool  *)
(* of one arena, blocks of four bytes with a header of one, and places of  *)
(* different alignment.                                                    *)
(***************************************************************************)
EXTENDS ConnectionMemory

CONSTANTS c1, c2, c3, w1

MCConnections == {c1, c2, c3}
OneWorker == {w1}
MCFds == 5 .. 7
MCPlaces == {2, 14, 24}
===============================================================================
