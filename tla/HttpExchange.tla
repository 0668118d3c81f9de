---------------------------- MODULE HttpExchange ----------------------------
(***************************************************************************)
(* What one connection promises the client at its other end: an abstract   *)
(* specification without buffers, slots or event loop, in the terms of     *)
(* what went over the wire.  The client Me writes a prefix of its stream   *)
(* and may finish or reset; the server answers request after request, each *)
(* with one whole response, only once it has the bytes that call for it,   *)
(* in the order of the stream, and nothing after a response that announced *)
(* Connection: close.  It hangs up on exactly four occasions.              *)
(***************************************************************************)
EXTENDS EventLoop

CONSTANT Me

VARIABLES sent,    \* bytes Me has written
          ended,   \* whether Me has ended its side: "no", "fin" or "rst"
          quiet,   \* the idle timeout has passed since the last activity
          got,     \* the last response begun: [req, unit]
          srv      \* the server's side: "none" (in the backlog), "open", "closed"

vars == <<sent, ended, quiet, got, srv>>

\* Bytes 1 .. n of the stream are enough to settle request k
Answerable(k, n) ==
    /\ k <= Len(Stream[Me])
    /\ LET r    == Stream[Me][k]
           here == n - EndOf(Me, k - 1)
       IN  \/ here >= Size(Me, k)
           \/ here >= RecvCap
           \/ here >= r.hdr /\ r.kind \in {"malformed", "tooLarge"}

\* The response to request k is the last one of the connection
Final(k) == k # 0 /\ (Stream[Me][k].kind # "keep" \/ Size(Me, k) > RecvCap)

\* The last response begun has been handed over completely
Whole(g) == g.unit = RespLen

Init == /\ sent = 0 /\ ended = "no" /\ quiet = FALSE
        /\ got = [req |-> 0, unit |-> RespLen]
        /\ srv = "none"

Write == /\ ended = "no" /\ sent < Total(Me)
         /\ sent' = sent + 1
         /\ UNCHANGED <<ended, quiet, got, srv>>

Finish == /\ ended = "no" /\ ended' = "fin"
          /\ UNCHANGED <<sent, quiet, got, srv>>

Reset == /\ ended # "rst" /\ ended' = "rst"
         /\ UNCHANGED <<sent, quiet, got, srv>>

Accept == /\ srv = "none" /\ srv' = "open"
          /\ UNCHANGED <<sent, ended, quiet, got>>

Refuse == /\ srv = "none" /\ srv' = "closed"
          /\ UNCHANGED <<sent, ended, quiet, got>>

TimePasses == /\ srv = "open" /\ quiet' = ~quiet
              /\ UNCHANGED <<sent, ended, got, srv>>

\* Begin the next response, or go on with the one begun; the last unit of a
\* final response is followed by the close.
Respond ==
    /\ srv = "open"
    /\ \E n \in 1 .. RespLen :
          \/ /\ Whole(got) /\ ~Final(got.req) /\ Answerable(got.req + 1, sent)
             /\ got' = [req |-> got.req + 1, unit |-> n]
          \/ /\ got.unit + n <= RespLen
             /\ got' = [got EXCEPT !.unit = @ + n]
    /\ srv' = IF Whole(got') /\ Final(got'.req) THEN "closed" ELSE "open"
    /\ quiet' \in {quiet, FALSE}
    /\ UNCHANGED <<sent, ended>>

\* The server gives up an exchange that is not complete: the client finished
\* and every request it completed is answered, or nothing came for too long
\* between two responses, or the connection broke.
HangUp ==
    /\ srv = "open" /\ srv' = "closed"
    /\ \/ ended = "fin" /\ Whole(got) /\ ~Answerable(got.req + 1, sent)
       \/ quiet /\ Whole(got)
       \/ ended = "rst"
    /\ quiet' = FALSE
    /\ UNCHANGED <<sent, ended, got>>

Next == Write \/ Finish \/ Reset \/ Accept \/ Refuse \/ TimePasses \/ Respond \/ HangUp

Spec == Init /\ [][Next]_vars
=============================================================================
