----------------------------- MODULE MCProtocol -----------------------------
(***************************************************************************)
(* An instance of ConnectionProtocol for TLC: a client that pipelines      *)
(* requests with and without body, of which the third does not fit into    *)
(* the receive buffer; there is more behind it.                            *)
(***************************************************************************)
EXTENDS ConnectionProtocol

MCClients == {"bloated"}

Req(h, e, k) == [hdr |-> h, last |-> e, kind |-> k]

MCStream == [bloated |-> << Req(1, 2, "keep"), Req(1, 3, "keep"),
                            Req(2, 7, "keep"), Req(1, 8, "keep") >>]
=============================================================================
