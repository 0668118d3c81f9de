------------------------------- MODULE MCUring -------------------------------
(***************************************************************************)
(* Instances of UringLoop for TLC: two clients that compete for slots.     *)
(***************************************************************************)
EXTENDS UringLoop

Req(h, e, k) == [hdr |-> h, last |-> e, kind |-> k]

TwoClients == {"a", "b"}

\* One pipelines a kept request with a body and a final one, the other is
\* refused at its first byte.
MixedStreams == [a |-> << Req(1, 2, "keep"), Req(1, 3, "close") >>,
                 b |-> << Req(1, 1, "malformed") >>]

\* Short streams for the questions that are about scheduling
ShortStreams == [a |-> << Req(1, 1, "keep"), Req(1, 2, "close") >>,
                 b |-> << Req(1, 1, "reject") >>]
==============================================================================
