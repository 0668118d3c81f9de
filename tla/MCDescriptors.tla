---------------------------- MODULE MCDescriptors ----------------------------
(***************************************************************************)
(* Instances of Descriptors for TLC: fewer numbers than connections, so    *)
(* that they are reused.                                                   *)
(***************************************************************************)
EXTENDS Descriptors

CONSTANTS c1, c2, c3, c4, w1

MCConnections == {c1, c2, c3, c4}
OneWorker  == {w1}
MCFds == 5 .. 7
==============================================================================
