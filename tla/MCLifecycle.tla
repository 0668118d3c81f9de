----------------------------- MODULE MCLifecycle -----------------------------
(***************************************************************************)
(* Instances of Lifecycle for TLC: a single loop, and up to three workers. *)
(***************************************************************************)
EXTENDS Lifecycle

OneToThree == {1, 2, 3}
==============================================================================
