--------------------------- MODULE RequestHandling ---------------------------
(***************************************************************************)
(* How one parsed request gets its response: the checks and the dispatch   *)
(* of process_request (src/event_loop.cpp), the chain of handlers it runs  *)
(* with their context (src/ctx.cpp), and build_response.                   *)
(*                                                                         *)
(* Handlers are the application's: each may call any operation of its      *)
(* context any number of times and in any order, return, throw, and catch  *)
(* what the handlers it called through next() throw.  A handler that has   *)
(* called next() waits for it: stack holds the positions in the chain of   *)
(* the handlers that have been entered and not left.                       *)
(*                                                                         *)
(* The router is reduced to what process_request asks of it: the length of *)
(* the chain that the path has for each method, 0 for none, and which      *)
(* segments of the path the route captures (see Router).                   *)
(***************************************************************************)
EXTENDS HttpParser

CONSTANTS Cases,       \* the requests, each with a table
          Codes,       \* arguments of status()
          Bodies,      \* arguments of text(), json(), ...
          MaxHeaders   \* entries of resp_headers_ (16 in the code)

Verbs == {"GET", "HEAD", "OPTIONS"}

Requests == [version : {0, 1}, conn : {"", "close", "keep-alive"}, host : BOOLEAN,
             method : Verbs \cup {"BREW"}, target : Seq(1 .. 255),
             lengths : Seq(Seq(1 .. 255)), chunked : BOOLEAN]

\* The length of the chain for each method
Tables == [Verbs -> Nat]

ASSUME HandlingAssumption ==
    /\ Cases \subseteq Requests \X Tables
    /\ Codes \subseteq Nat /\ MaxHeaders \in Nat /\ "" \notin Bodies

VARIABLES req, table,
          custom,     \* the set of "not_found" and "on_error" handlers there are
          phase,      \* "received", "parsed", "chain", "not_found", "on_error",
                      \* "done", or "escaped": an exception leaves process_request
          view,       \* the parsed request: text is the target in the receive
                      \* buffer, path the length of the path, params the spans
                      \* of the parameters, body the length of the body
          ctx,        \* the context of the running handlers
          stack,      \* positions of the active handlers, 0 for a custom one
          closeAfter, \* conn.should_close()
          response,   \* what the send buffer holds
          ran,        \* history: positions entered, in order
          promised,   \* history: what the first terminal call of ctx asked for
          failed      \* history: a handler threw and nobody in the chain caught it

vars == <<req, table, custom, view, phase, ctx, stack, closeAfter, response, ran, promised, failed>>
given == <<req, table, custom, view>>

\* role says whose context it is; it is not in the code
NewCtx(role, count, head) ==
    [role |-> role, status |-> 200, headers |-> {}, body |-> "", sent |-> FALSE,
     prebuilt |-> FALSE, head |-> head, index |-> 0, count |-> count]

NoResponse == [from |-> "nobody", status |-> 0, headers |-> {}, body |-> "", close |-> FALSE]

Nothing == [status |-> 0, headers |-> {}, body |-> ""]

Init == /\ \E c \in Cases : req = c[1] /\ table = c[2]
        /\ view = [text |-> req.target, path |-> 0, params |-> << >>, body |-> Invalid]
        /\ custom \in SUBSET {"not_found", "on_error"}
        /\ phase = "received" /\ ctx = NewCtx("none", 0, FALSE) /\ stack = << >>
        /\ closeAfter = FALSE /\ response = NoResponse
        /\ ran = << >> /\ promised = Nothing /\ failed = FALSE

-----------------------------------------------------------------------------
(* Responses                                                               *)

ShouldClose == req.conn = "close" \/ (req.version = 0 /\ req.conn # "keep-alive")

\* build_response
Built(c) == [from |-> c.role, status |-> c.status, headers |-> c.headers,
             body |-> IF c.head THEN "" ELSE c.body, close |-> closeAfter]

\* Mutant: the connection is not marked for closing
ErrorResponseKeepsAlive(code) ==
    /\ response' = [from |-> "server", status |-> code, headers |-> {},
                    body |-> "error", close |-> TRUE]
    /\ UNCHANGED closeAfter /\ phase' = "done"

\* send_error_response: it always closes
ErrorResponse(code) ==
    /\ response' = [from |-> "server", status |-> code, headers |-> {},
                    body |-> "error", close |-> TRUE]
    /\ closeAfter' = TRUE /\ phase' = "done"

-----------------------------------------------------------------------------
(* process_request up to the first handler                                 *)

\* parse_request; the query begins behind the first "?"
Parse == /\ phase = "received" /\ ParseError(req.lengths, req.chunked) = 0
         /\ view' = [view EXCEPT !.path = First(view.text, 1, Len(view.text), {Question}) - 1,
                                 !.body = DeclaredLength(req.lengths)]
         /\ phase' = "parsed" /\ closeAfter' = ShouldClose
         /\ UNCHANGED <<req, table, custom, ctx, stack, response, ran, promised, failed>>

RefuseMessage ==
    /\ phase = "received" /\ ParseError(req.lengths, req.chunked) # 0
    /\ ErrorResponse(ParseError(req.lengths, req.chunked))
    /\ UNCHANGED <<given, ctx, stack, ran, promised, failed>>

Normalized == Normalize(view.text, view.path)

\* The code of the check that refuses the request, 0 if all let it pass
Refusal == IF req.version = 1 /\ ~req.host    THEN 400
           ELSE IF req.method \notin Verbs    THEN 501
           ELSE IF Normalized.len = Invalid   THEN 400
           ELSE 0

Refuse == /\ phase = "parsed" /\ Refusal # 0
          /\ ErrorResponse(Refusal)
          /\ UNCHANGED <<given, ctx, stack, ran, promised, failed>>

\* HEAD falls back to GET
Fallback == req.method = "HEAD" /\ table["HEAD"] = 0 /\ table["GET"] > 0
Matched  == table[req.method] > 0 \/ Fallback

\* Where the segment ends that i lies in; the path is the first len bytes
SegmentEnd(text, len, i) == First(text, i, len, {Slash}) - 1

\* What a route may capture of a path, as a function from where each span begins
\* to where it ends.  A parameter takes the rest of a segment (from where an edge
\* of the trie ended, see Router); the last one may be a catch-all and takes all.
Spans(text, len) ==
    LET Apart(S) == \A i, j \in S : i < j => SegmentEnd(text, len, i) < j
        Params(S) == [i \in S |-> SegmentEnd(text, len, i)]
        CatchAll(S) == [i \in S |-> IF i = Max(S) THEN len ELSE SegmentEnd(text, len, i)]
        Starts == {S \in SUBSET {i \in 2 .. len : text[i] # Slash} : Apart(S)}
    IN  {Params(S) : S \in Starts} \cup {CatchAll(S) : S \in Starts \ {{}}}

\* What becomes of a normalised path n whose route captures these spans: they
\* are decoded in place, one after the other
Captured(n, spans) ==
    LET Step(s, span) == LET d == Decode(s.text, span)
                         IN  [s EXCEPT !.text = d.text, !.params = Append(@, d.span), !.ok = d.ok]
        after[i \in 0 .. n.len] ==
          IF i = 0 THEN [text |-> n.text, len |-> n.len, params |-> << >>, ok |-> TRUE]
          ELSE LET s == after[i - 1]
               IN  IF s.ok /\ i \in DOMAIN spans THEN Step(s, <<i, spans[i]>>) ELSE s
    IN  after[n.len]

Captures == {Captured(Normalized, spans) : spans \in Spans(Normalized.text, Normalized.len)}

\* A route, and its parameters decode: the first handler is entered
EnterChain ==
    /\ phase = "parsed" /\ Refusal = 0 /\ Matched
    /\ \E c \in Captures :
          /\ c.ok
          /\ view' = [view EXCEPT !.text = c.text, !.params = c.params, !.path = c.len]
    /\ ctx' = [NewCtx("route", table[IF Fallback THEN "GET" ELSE req.method], Fallback)
                  EXCEPT !.index = 1]
    /\ stack' = <<1>> /\ ran' = <<1>> /\ phase' = "chain"
    /\ UNCHANGED <<req, table, custom, closeAfter, response, promised, failed>>

\* A parameter decodes to a string with a NUL
RefuseParam ==
    /\ phase = "parsed" /\ Refusal = 0 /\ Matched
    /\ \E c \in Captures : ~c.ok
    /\ ErrorResponse(400)
    /\ UNCHANGED <<given, ctx, stack, ran, promised, failed>>

AnswerOptions ==
    /\ phase = "parsed" /\ Refusal = 0 /\ ~Matched
    /\ req.method = "OPTIONS" /\ \E v \in Verbs : table[v] > 0
    /\ response' = Built([NewCtx("server", 0, FALSE) EXCEPT !.headers = {"Allow"},
                                                             !.status = 204])
    /\ phase' = "done"
    /\ UNCHANGED <<given, ctx, stack, closeAfter, ran, promised, failed>>

NotFound ==
    /\ phase = "parsed" /\ Refusal = 0 /\ ~Matched
    /\ ~(req.method = "OPTIONS" /\ \E v \in Verbs : table[v] > 0)
    /\ IF "not_found" \in custom
       THEN /\ ctx' = NewCtx("not_found", 0, FALSE) /\ stack' = <<0>>
            /\ view' = [view EXCEPT !.text = Normalized.text, !.path = Normalized.len]
            /\ phase' = "not_found"
            /\ UNCHANGED <<closeAfter, response>>
       ELSE ErrorResponse(404) /\ UNCHANGED <<view, ctx, stack>>
    /\ UNCHANGED <<req, table, custom, ran, promised, failed>>

-----------------------------------------------------------------------------
(* What the handler on top of the stack may do                             *)

Active == phase \in {"chain", "not_found", "on_error"}

\* Mutant: handler_index_ is not advanced
CallNextAgain ==
    /\ Active /\ ctx.index < ctx.count
    /\ stack' = Append(stack, ctx.index + 1)
    /\ ran' = Append(ran, ctx.index + 1)
    /\ UNCHANGED <<given, phase, ctx, closeAfter, response, promised, failed>>

\* next(): does nothing at the end of the chain
CallNext ==
    /\ Active /\ ctx.index < ctx.count
    /\ ctx' = [ctx EXCEPT !.index = @ + 1]
    /\ stack' = Append(stack, ctx'.index)
    /\ ran' = Append(ran, ctx'.index)
    /\ UNCHANGED <<given, phase, closeAfter, response, promised, failed>>

\* A call that changes the context only
Change(c) == /\ Active /\ ctx' = c
             /\ UNCHANGED <<given, phase, stack, closeAfter, response, ran, failed>>

\* Mutant: there is always room
WithHeaderAlways(c, name) == [c EXCEPT !.headers = @ \cup {name}]

\* set(): overwrites the header if it is there, drops it if there is no room
WithHeader(c, name) ==
    IF Cardinality(c.headers \cup {name}) > MaxHeaders
    THEN c
    ELSE [c EXCEPT !.headers = @ \cup {name}]

\* Mutant: response_sent_ is not looked at
WithBodyAlways(c, body) == [c EXCEPT !.body = body, !.sent = TRUE]

\* send(): only the first call of a terminal operation sets the body
WithBody(c, body) == IF c.sent THEN c ELSE [c EXCEPT !.body = body, !.sent = TRUE]

\* The first terminal call of a context is a promise to the client
Promise(c) == IF ctx.sent THEN UNCHANGED promised
              ELSE promised' = [status |-> c.status, headers |-> c.headers, body |-> c.body]

SetStatus(code) == Change([ctx EXCEPT !.status = code]) /\ UNCHANGED promised

SetHeader == Change(WithHeader(ctx, "X")) /\ UNCHANGED promised

Send(body) == LET c == WithBody(ctx, body) IN Change(c) /\ Promise(c)

NoContent ==
    LET c == IF ctx.sent THEN ctx ELSE [ctx EXCEPT !.status = 204, !.body = "", !.sent = TRUE]
    IN  Change(c) /\ Promise(c)

\* Status and Location change even after another terminal call
Redirect ==
    LET c == WithBody(WithHeader([ctx EXCEPT !.status = 302], "Location"), "")
    IN  Change(c) /\ Promise(c)

\* send_prebuilt() with the bytes of prebuilt() (voie.h): they go to the send
\* buffer as they are, and say "keep-alive"
SendPrebuilt(body) ==
    /\ Active /\ ~ctx.sent
    /\ ctx' = [ctx EXCEPT !.sent = TRUE, !.prebuilt = TRUE]
    /\ response' = [from |-> ctx.role, status |-> 200, headers |-> {},
                    body |-> body, close |-> FALSE]
    /\ promised' = [status |-> 200, headers |-> {}, body |-> body]
    /\ UNCHANGED <<given, phase, stack, closeAfter, ran, failed>>

\* The top handler returns; with the last one the response is built
Return ==
    /\ Active /\ stack' = Front(stack)
    /\ IF stack' = << >>
       THEN /\ phase' = "done"
            /\ response' = IF ctx.prebuilt THEN response ELSE Built(ctx)
       ELSE UNCHANGED <<phase, response>>
    /\ UNCHANGED <<given, ctx, closeAfter, ran, promised, failed>>

\* It throws, and the handler at position k of the stack catches
Caught(k) ==
    /\ Active /\ k \in 1 .. Len(stack) - 1
    /\ stack' = SubSeq(stack, 1, k)
    /\ UNCHANGED <<given, phase, ctx, closeAfter, response, ran, promised, failed>>

\* Mutant: the error handler goes on with the context of the route
FailKeepsContext ==
    /\ phase = "chain" /\ failed' = TRUE
    /\ IF "on_error" \in custom
       THEN /\ phase' = "on_error" /\ stack' = <<0>>
            /\ UNCHANGED <<ctx, closeAfter, response, promised>>
       ELSE ErrorResponse(500) /\ stack' = << >> /\ UNCHANGED <<ctx, promised>>
    /\ UNCHANGED <<given, ran>>

\* The chain throws: the error handler gets a context of its own, in which
\* nothing says that the request was a HEAD
Fail ==
    /\ phase = "chain" /\ failed' = TRUE
    /\ IF "on_error" \in custom
       THEN /\ ctx' = NewCtx("on_error", 0, FALSE) /\ stack' = <<0>>
            /\ phase' = "on_error" /\ promised' = Nothing
            /\ UNCHANGED <<closeAfter, response>>
       ELSE ErrorResponse(500) /\ stack' = << >> /\ UNCHANGED <<ctx, promised>>
    /\ UNCHANGED <<given, ran>>

\* Nothing catches what a custom handler throws
Escape ==
    /\ phase \in {"not_found", "on_error"}
    /\ phase' = "escaped" /\ stack' = << >>
    /\ UNCHANGED <<given, ctx, closeAfter, response, ran, promised, failed>>

Next == \/ Parse \/ RefuseMessage \/ Refuse \/ EnterChain \/ RefuseParam
        \/ AnswerOptions \/ NotFound
        \/ CallNext \/ SetHeader \/ NoContent \/ Redirect \/ Return \/ Fail \/ Escape
        \/ \E code \in Codes : SetStatus(code)
        \/ \E body \in Bodies : Send(body) \/ SendPrebuilt(body)
        \/ \E k \in 1 .. Len(stack) : Caught(k)

Spec == Init /\ [][Next]_vars

-----------------------------------------------------------------------------
(* Properties                                                              *)

Route == IF Fallback THEN "GET" ELSE req.method

(***************************************************************************)
(* Type invariant.  A context has at most MaxHeaders headers and has not   *)
(* gone past the end of its chain, and only a handler that is in the chain *)
(* is on the stack (resp_header_count_, handler_index_).                   *)
(***************************************************************************)
TypeOK ==
    /\ phase \in {"received", "parsed", "chain", "not_found", "on_error", "done", "escaped"}
    /\ stack \in Seq(0 .. ctx.count) /\ (Active <=> stack # << >>)
    /\ ctx.index \in 0 .. ctx.count
    /\ Cardinality(ctx.headers) <= MaxHeaders
    /\ closeAfter \in BOOLEAN /\ ctx.prebuilt \in BOOLEAN /\ ctx.head \in BOOLEAN
    /\ ctx.prebuilt => ctx.sent

(***************************************************************************)
(* However often each handler calls next(), and whatever is thrown and     *)
(* caught on the way, the handlers of a chain run in order, each at most   *)
(* once (ctx::next).                                                       *)
(***************************************************************************)
HandlersInOrder ==
    /\ ran = [i \in 1 .. Len(ran) |-> i]
    /\ ran # << >> => Len(ran) <= table[Route]

(***************************************************************************)
(* The response says "Connection: close" exactly when the connection will  *)
(* be closed after it, unless a handler sent a prebuilt one                *)
(* (set_close_after_send before the handlers, build_response and           *)
(* send_error_response after them).                                        *)
(***************************************************************************)
CloseIsAnnounced == phase = "done" /\ ~ctx.prebuilt => response.close = closeAfter

(***************************************************************************)
(* The body that the client gets is that of the first terminal call of the *)
(* context that was answered from, whatever was called after it, by any    *)
(* handler of the chain; a HEAD that fell back to GET gets none            *)
(* (response_sent_, mark_head_request).                                    *)
(***************************************************************************)
FirstBodyStands ==
    phase = "done" /\ promised # Nothing /\ response.from # "server" =>
        response.body = IF ctx.head /\ ~ctx.prebuilt THEN "" ELSE promised.body

(***************************************************************************)
(* When the chain has failed, the client gets the error handler's response *)
(* or a 500, never the response that the failed handlers had prepared,     *)
(* prebuilt ones included; and when nothing failed the response is not an  *)
(* error handler's (the catch of process_request).                         *)
(***************************************************************************)
FailureIsAnswered ==
    phase = "done" =>
        IF failed
        THEN response.from = (IF "on_error" \in custom THEN "on_error" ELSE "server")
        ELSE response.from # "on_error"

(***************************************************************************)
(* A request is accepted with exactly the length that each of its          *)
(* Content-Length headers says, and is refused only if one is not a        *)
(* number, does not fit, or two differ, or it is too long for the server,  *)
(* or chunked (the digits and the overflow tests of parse_request).        *)
(***************************************************************************)
\* The number that digits stand for, each at its place
Decimal(value) ==
    LET place[k \in 0 .. Len(value)] == IF k = 0 THEN 1 ELSE 10 * place[k - 1]
        sum[i \in 0 .. Len(value)] ==
          IF i = 0 THEN 0 ELSE sum[i - 1] + (value[i] - 48) * place[Len(value) - i]
    IN  sum[Len(value)]

LengthIsDeclared ==
    LET values     == Range(req.lengths)
        declared   == {Decimal(value) : value \in values}
        acceptable == /\ ~req.chunked
                      /\ \A value \in values : Range(value) \subseteq Digits
                      /\ \A m, n \in declared : m = n
                      /\ \A n \in declared : n <= SizeMax /\ (MaxBody > 0 => n <= MaxBody)
    IN  IF view.body # Invalid
        THEN acceptable /\ declared \subseteq {view.body} /\ (declared = {} => view.body = 0)
        ELSE phase = "done" => ~acceptable

(***************************************************************************)
(* What the path is, told by its segments: a name stays unless a later     *)
(* ".." takes it back, and the path is refused if a ".." has no name left  *)
(* to take.                                                                *)
(***************************************************************************)
PathOf(text) == SubSeq(text, 1, First(text, 1, Len(text), {Question}) - 1)

\* The segment that i lies in, from i
Segment(path, i) == SubSeq(path, i, SegmentEnd(path, Len(path), i))

\* Where the segments begin, those that are ".." and those that are names
Begins(path) == {i \in 2 .. Len(path) : path[i] # Slash /\ path[i - 1] = Slash}
Ups(path)    == {i \in Begins(path) : Segment(path, i) = <<Dot, Dot>>}
Names(path)  == {i \in Begins(path) : Segment(path, i) \notin {<<Dot>>, <<Dot, Dot>>}}

Sinks(path, i, j) == Cardinality(Ups(path) \cap (i .. j)) > Cardinality(Names(path) \cap (i .. j))

Leaves(path) == \E j \in 1 .. Len(path) : Sinks(path, 1, j)

Kept(path) == {k \in Names(path) : \A j \in k + 1 .. Len(path) : ~Sinks(path, k + 1, j)}

\* Segments, each with a slash before it
Joined(path, begins) ==
    LET joined[i \in 0 .. Len(path)] ==
          IF i = 0 THEN << >>
          ELSE IF i \in begins THEN joined[i - 1] \o <<Slash>> \o Segment(path, i)
          ELSE joined[i - 1]
    IN  joined[Len(path)]

Resolved(path) ==
    Joined(path, Kept(path))
        \o (IF Last(path) = Slash \/ Kept(path) = {} THEN <<Slash>> ELSE << >>)

(***************************************************************************)
(* A request whose path does not begin with a slash, or leaves the root,   *)
(* reaches no handler; the not-found handler sees every other path         *)
(* resolved, and the query as it was sent (normalize_path_inplace).        *)
(***************************************************************************)
PathIsResolved ==
    LET path == PathOf(req.target)
    IN  /\ Active => path # << >> /\ Head(path) = Slash /\ ~Leaves(path)
        /\ phase = "not_found" => /\ SubSeq(view.text, 1, view.path) = Resolved(path)
                                  /\ SubSeq(view.text, Len(path) + 1, Len(view.text))
                                       = SubSeq(req.target, Len(path) + 1, Len(req.target))

\* A string with its escapes and pluses decoded
Decoded(s) ==
    LET escapes == {i \in 1 .. Len(s) : IsEscape(s, i, Len(s))}
        decoded[i \in 0 .. Len(s)] ==
          IF i = 0 THEN << >>
          ELSE IF i - 1 \in escapes \/ i - 2 \in escapes THEN decoded[i - 1]
          ELSE Append(decoded[i - 1], IF i \in escapes THEN Escaped(s, i)
                                      ELSE IF s[i] = Plus THEN Space ELSE s[i])
    IN  decoded[Len(s)]

\* The parameters are what these spans of the path decode to, and path() is the
\* path outside of them.
ParamsOf(path, spans) ==
    LET params == Range(view.params)
    IN  /\ {p[1] : p \in params} = DOMAIN spans
        /\ \A p \in params : /\ Bytes(view.text, p) = Decoded(SubSeq(path, p[1], spans[p[1]]))
                             /\ NUL \notin Range(Bytes(view.text, p))
        /\ view.path = Len(path)
        /\ \A i \in 1 .. Len(path) :
              view.text[i] = path[i] \/ \E k \in DOMAIN spans : i \in k .. spans[k]

(***************************************************************************)
(* The handlers of a route get what it captures of the path, with escapes   *)
(* and pluses decoded and no NUL in them, although each was decoded inside *)
(* the buffer that holds the next; outside of them path() is the resolved  *)
(* path, and a query parameter is that of the request (url_decode_inplace, *)
(* ctx::param, ctx::path, ctx::query).                                     *)
(***************************************************************************)
ParamsAreDecoded ==
    phase = "chain" =>
        LET path == Resolved(PathOf(req.target))
            Query(text) == QueryParam(SubSeq(text, Len(PathOf(req.target)) + 2, Len(text)), <<97>>)
        IN  /\ \E spans \in Spans(path, Len(path)) : ParamsOf(path, spans)
            /\ Query(view.text) = Query(req.target)
=============================================================================
