-------------------------- MODULE MCRequestHandling --------------------------
(***************************************************************************)
(* Instances of RequestHandling for TLC: every way in which a request can  *)
(* pass or fail the checks of process_request, and route tables with and   *)
(* without a handler of its own for HEAD and for OPTIONS.                  *)
(***************************************************************************)
EXTENDS RequestHandling

Plain == [version |-> 1, conn |-> "", host |-> TRUE, method |-> "GET",
          target |-> <<Slash>>, lengths |-> << >>, chunked |-> FALSE]

Methods == { [Plain EXCEPT !.method = m] : m \in Verbs \cup {"BREW"} }

Versions == { [Plain EXCEPT !.version = v, !.conn = c, !.host = h] :
                  v \in {0, 1}, c \in {"", "close", "keep-alive"}, h \in BOOLEAN }

\* Content-Length headers around MaxBody = 20 and SizeMax = 25: none, one of up
\* to two characters, or two
Values == BoundedSeq({48, 50, 53, 54, 97}, 2) \cup {<<50, 53, 48>>}

Framed ==
    { [Plain EXCEPT !.lengths = ls, !.chunked = c] :
          ls \in {<<v>> : v \in Values} \cup {<<v, w>> : v, w \in {<<50>>, <<48, 50>>, <<53>>}},
          c \in BOOLEAN }

\* Paths of up to four segments, empty ones among them, and segments that begin
\* with an escape, whole or cut off, or a plus, with a query behind
Paths(n) == { FlattenSeq(segs) : segs \in BoundedSeq(
                 { <<Slash>> \o s : s \in {<< >>, <<Dot>>, <<Dot, Dot>>, <<97>>} }, n) }
               \cup {<<97, Slash>>}

Encoded == {<<Plus>>} \cup { <<Percent>> \o e : e \in BoundedSeq({Percent, 48, 52, Plus}, 2) }

Escapes == { p \o <<Question, 97, Equals, Percent, 50>> :
                 p \in { slash \o e : slash \in {<<Slash>>, <<Slash, Slash>>}, e \in Encoded } \cup
                       { <<Slash>> \o e \o <<Slash, Percent, 52, 48>> :
                             e \in {<<Plus>>, <<Percent, 52>>, <<Percent, 52, 48>>} } }

Targeting(targets) == { [Plain EXCEPT !.target = t] : t \in targets }

Chains(get, head, options) == [m \in Verbs |->
    CASE m = "GET" -> get [] m = "HEAD" -> head [] m = "OPTIONS" -> options]

MCTables == {Chains(0, 0, 0), Chains(2, 0, 0), Chains(1, 2, 0), Chains(2, 0, 1)}

MCCases == (Methods \X MCTables)
             \cup (Versions \X {Chains(0, 0, 0), Chains(1, 2, 0)}) \cup (Framed \X {Chains(0, 0, 0)})
             \cup (Targeting(Paths(4)) \X {Chains(0, 0, 0)})
             \cup (Targeting(Paths(2) \cup Escapes) \X {Chains(1, 2, 0)})
=============================================================================
