----------------------------- MODULE HttpMethods -----------------------------
(***************************************************************************)
(* The methods that routes are registered for (include/voie/types.h).      *)
(***************************************************************************)
EXTENDS Integers, Sequences

CONSTANT Methods     \* the http_method values, in their order

ASSUME MethodsAssumption == Methods \in Seq(STRING)
=============================================================================
