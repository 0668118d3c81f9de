------------------------------- MODULE MCEpoll -------------------------------
(***************************************************************************)
(* Instances of EpollLoop for TLC: clients that compete for slots.         *)
(***************************************************************************)
EXTENDS EpollLoop

Req(h, e, k) == [hdr |-> h, last |-> e, kind |-> k]

\* Two clients: one pipelines a kept request and a final one, one is refused.
TwoClients == {"a", "b"}
TwoStreams == [a |-> << Req(1, 2, "keep"), Req(1, 3, "close") >>,
               b |-> << Req(1, 2, "tooLarge") >>]

\* Short streams for liveness
ShortStreams == [a |-> << Req(1, 1, "keep"), Req(1, 2, "close") >>,
                 b |-> << Req(1, 1, "reject") >>]
==============================================================================
