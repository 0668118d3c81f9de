------------------------- MODULE RequestHandlingProofs -------------------------
(***************************************************************************)
(* Theorems about RequestHandling, for every set of requests, every table  *)
(* of chain lengths, every argument a handler may use and every limit on   *)
(* headers.                                                                *)
(***************************************************************************)
EXTENDS RequestHandling, FiniteSetTheorems, SequenceTheorems, WellFoundedInduction, TLAPS

(***************************************************************************)
(* The inductive invariant, in named parts.                                *)
(***************************************************************************)

\* Types of the context and of what is read from the environment
Roles == {"none", "route", "not_found", "on_error"}

HeaderNames == {"X", "Location"}

ContextType ==
    [role : Roles, status : Nat, headers : SUBSET HeaderNames, body : Bodies \cup {""},
     sent : BOOLEAN, prebuilt : BOOLEAN, head : BOOLEAN, index : Nat, count : Nat]

Sound(c) == /\ c \in ContextType
            /\ c.prebuilt => c.sent
            /\ c.index <= c.count
            /\ IsFiniteSet(c.headers) /\ Cardinality(c.headers) <= MaxHeaders

Typed ==
    /\ req \in Requests /\ table \in Tables
    /\ phase \in {"received", "parsed", "chain", "not_found", "on_error", "done", "escaped"}
    /\ closeAfter \in BOOLEAN /\ failed \in BOOLEAN
    /\ Sound(ctx)

\* Whose context it is, in each phase, and how far its chain has got
Whose ==
    /\ phase = "chain" => ctx.role = "route" /\ ctx.count = table[Route]
    /\ phase \in {"not_found", "on_error"} => ctx.role = phase /\ ctx.count = 0
    /\ phase = "on_error" => "on_error" \in custom

\* Which handlers have run
Ran ==
    /\ HandlersInOrder
    /\ ran \in Seq(Nat)
    /\ phase \in {"received", "parsed"} => ran = << >>
    /\ phase = "chain" => Len(ran) = ctx.index

\* A response that is in the send buffer already is the context's own
Prebuilt == Active /\ ctx.prebuilt => response.from = ctx.role

\* Failure is remembered exactly from where it happens
Failing ==
    /\ phase \in {"received", "parsed", "chain", "not_found"} => ~failed
    /\ phase = "on_error" => failed

\* The body that was promised is in the context, or in the send buffer
Promised ==
    /\ phase \in {"received", "parsed"} => promised = Nothing
    /\ Active => IF ~ctx.sent      THEN promised = Nothing
                 ELSE IF ctx.prebuilt THEN response.body = promised.body
                 ELSE ctx.body = promised.body

IInv == /\ Typed /\ Whose /\ Ran /\ Prebuilt /\ Failing /\ Promised
        /\ CloseIsAnnounced /\ FirstBodyStands /\ FailureIsAnswered

-----------------------------------------------------------------------------
(* The context                                                             *)

\* A context that is made has no headers and has sent nothing.
LEMMA NewCtxSound ==
    ASSUME NEW role \in Roles, NEW n \in Nat, NEW h \in BOOLEAN
    PROVE  /\ Sound(NewCtx(role, n, h))
           /\ NewCtx(role, n, h).role = role /\ NewCtx(role, n, h).count = n
           /\ NewCtx(role, n, h).index = 0
           /\ ~NewCtx(role, n, h).sent /\ ~NewCtx(role, n, h).prebuilt
  <1>1. IsFiniteSet({}) /\ Cardinality({}) = 0
    BY FS_EmptySet
  <1>2. MaxHeaders \in Nat
    BY HandlingAssumption
  <1> QED BY <1>1, <1>2, SMT DEF NewCtx, Sound, ContextType

\* set() leaves all but the headers alone, and keeps to their limit.
LEMMA WithHeaderSound ==
    ASSUME NEW c, Sound(c), NEW name \in HeaderNames
    PROVE  /\ Sound(WithHeader(c, name))
           /\ WithHeader(c, name).role = c.role /\ WithHeader(c, name).count = c.count
           /\ WithHeader(c, name).index = c.index /\ WithHeader(c, name).body = c.body
           /\ WithHeader(c, name).sent = c.sent /\ WithHeader(c, name).prebuilt = c.prebuilt
  <1> DEFINE hs == c.headers \cup {name}
             d  == [c EXCEPT !.headers = @ \cup {name}]
  <1>1. d \in ContextType /\ d.headers = hs
    BY DEF Sound, ContextType
  <1>2. CASE Cardinality(hs) > MaxHeaders
    BY <1>2 DEF WithHeader
  <1>3. CASE ~(Cardinality(hs) > MaxHeaders)
    <2>1. WithHeader(c, name) = d
      BY <1>3 DEF WithHeader
    <2>2. IsFiniteSet(hs) /\ Cardinality(hs) \in Nat /\ MaxHeaders \in Nat
      BY FS_AddElement, FS_CardinalityType, HandlingAssumption DEF Sound
    <2>3. Cardinality(hs) <= MaxHeaders
      BY <1>3, <2>2
    <2>4. /\ d.role = c.role /\ d.count = c.count /\ d.index = c.index /\ d.body = c.body
          /\ d.sent = c.sent /\ d.prebuilt = c.prebuilt
      BY DEF Sound, ContextType
    <2>5. Sound(d)
      BY <1>1, <2>2, <2>3, <2>4 DEF Sound
    <2> QED BY <2>1, <2>4, <2>5
  <1> QED BY <1>2, <1>3

-----------------------------------------------------------------------------
(* What the handlers do                                                    *)

\* An operation of the context keeps the invariant if it leaves the chain
\* alone and the promise is what the context or the send buffer holds.
LEMMA ChangeKeeps ==
    ASSUME IInv, NEW c, Sound(c), Change(c),
           c.role = ctx.role, c.index = ctx.index, c.count = ctx.count,
           c.prebuilt = ctx.prebuilt,
           IF ~c.sent THEN promised' = Nothing
           ELSE IF c.prebuilt THEN response.body = promised'.body
           ELSE c.body = promised'.body
    PROVE  IInv'
  <1>1. /\ ctx' = c /\ phase \in {"chain", "not_found", "on_error"}
        /\ UNCHANGED <<req, table, custom, phase, stack, closeAfter, response, ran, failed>>
    BY DEF Change, Active, given
  <1>2. Typed'
    BY <1>1 DEF IInv, Typed
  <1>3. Whose'
    BY <1>1 DEF IInv, Whose, Route, Fallback
  <1>4. Ran'
    BY <1>1 DEF IInv, Ran, HandlersInOrder, Route, Fallback
  <1>5. Prebuilt' /\ Failing'
    BY <1>1 DEF IInv, Prebuilt, Failing, Active
  <1>6. Promised'
    BY <1>1 DEF Promised, Active
  <1>7. CloseIsAnnounced' /\ FirstBodyStands' /\ FailureIsAnswered'
    BY <1>1 DEF CloseIsAnnounced, FirstBodyStands, FailureIsAnswered
  <1> QED BY <1>2, <1>3, <1>4, <1>5, <1>6, <1>7 DEF IInv

\* The terminal operations: only the first sets the body and is the promise.
LEMMA TerminalKeeps ==
    ASSUME IInv, NEW c, Sound(c), Change(c), Promise(c), c.sent,
           c.role = ctx.role, c.index = ctx.index, c.count = ctx.count,
           c.prebuilt = ctx.prebuilt, ctx.sent => c.body = ctx.body
    PROVE  IInv'
  <1>1. Active /\ Promised /\ Sound(ctx)
    BY DEF IInv, Change, Typed
  <1>2. CASE ctx.sent
    <2>1. promised' = promised
      BY <1>2 DEF Promise
    <2>2. IF c.prebuilt THEN response.body = promised'.body ELSE c.body = promised'.body
      BY <1>1, <1>2, <2>1 DEF Promised
    <2> QED BY <2>2, ChangeKeeps
  <1>3. CASE ~ctx.sent
    <2>1. promised'.body = c.body
      BY <1>3 DEF Promise
    <2>2. ~c.prebuilt
      BY <1>1, <1>3 DEF Sound
    <2> QED BY <2>1, <2>2, ChangeKeeps
  <1> QED BY <1>2, <1>3

\* status() and set(): no promise is made or broken.
LEMMA SetStatusKeeps == ASSUME IInv, NEW code \in Codes, SetStatus(code) PROVE IInv'
  <1> DEFINE c == [ctx EXCEPT !.status = code]
  <1>1. Sound(ctx) /\ code \in Nat
    BY HandlingAssumption DEF IInv, Typed, Tables, Requests
  <1>2. /\ Sound(c) /\ c.role = ctx.role /\ c.index = ctx.index /\ c.count = ctx.count
        /\ c.prebuilt = ctx.prebuilt /\ c.sent = ctx.sent /\ c.body = ctx.body
    BY <1>1 DEF Sound, ContextType
  <1>3. Change(c) /\ promised' = promised
    BY DEF SetStatus
  <1>4. IF ~c.sent THEN promised' = Nothing
        ELSE IF c.prebuilt THEN response.body = promised'.body
        ELSE c.body = promised'.body
    BY <1>2, <1>3 DEF IInv, Promised, Change
  <1> HIDE DEF c
  <1> QED BY <1>2, <1>3, <1>4, ChangeKeeps

\* set() does not touch the promise.
LEMMA SetHeaderKeeps == ASSUME IInv, SetHeader PROVE IInv'
  <1> DEFINE c == WithHeader(ctx, "X")
  <1>1. Sound(ctx)
    BY DEF IInv, Typed
  <1>2. /\ Sound(c) /\ c.role = ctx.role /\ c.index = ctx.index /\ c.count = ctx.count
        /\ c.prebuilt = ctx.prebuilt /\ c.sent = ctx.sent /\ c.body = ctx.body
    <2>1. "X" \in HeaderNames
      BY DEF HeaderNames
    <2>2. Sound(WithHeader(ctx, "X"))
      BY <1>1, <2>1, WithHeaderSound, Zenon
    <2> QED BY <1>1, <2>1, <2>2, WithHeaderSound, Zenon
  <1>3. Change(c) /\ promised' = promised
    BY DEF SetHeader
  <1>4. IF ~c.sent THEN promised' = Nothing
        ELSE IF c.prebuilt THEN response.body = promised'.body
        ELSE c.body = promised'.body
    BY <1>2, <1>3 DEF IInv, Promised, Change
  <1> HIDE DEF c
  <1> QED BY <1>2, <1>3, <1>4, ChangeKeeps

\* send() sets the body once.
LEMMA WithBodySound ==
    ASSUME NEW c, Sound(c), NEW body \in Bodies \cup {""}
    PROVE  /\ Sound(WithBody(c, body)) /\ WithBody(c, body).sent
           /\ WithBody(c, body).role = c.role /\ WithBody(c, body).count = c.count
           /\ WithBody(c, body).index = c.index /\ WithBody(c, body).prebuilt = c.prebuilt
           /\ c.sent => WithBody(c, body).body = c.body
  BY DEF WithBody, Sound, ContextType

\* text(), json(), no_content() and redirect() keep the invariant.
LEMMA SendKeeps == ASSUME IInv, NEW body \in Bodies, Send(body) PROVE IInv'
  <1>1. Sound(ctx)
    BY DEF IInv, Typed
  <1> QED BY <1>1, WithBodySound, TerminalKeeps DEF Send

\* no_content() after another terminal call changes nothing.
LEMMA NoContentKeeps == ASSUME IInv, NoContent PROVE IInv'
  <1> DEFINE c == IF ctx.sent THEN ctx ELSE [ctx EXCEPT !.status = 204, !.body = "", !.sent = TRUE]
  <1>1. Sound(ctx)
    BY DEF IInv, Typed
  <1>2. /\ Sound(c) /\ c.sent /\ c.role = ctx.role /\ c.index = ctx.index /\ c.count = ctx.count
        /\ c.prebuilt = ctx.prebuilt
        /\ ctx.sent => c.body = ctx.body
    BY <1>1, ZenonT(60) DEF Sound, ContextType
  <1>3. Change(c) /\ Promise(c)
    BY DEF NoContent
  <1> HIDE DEF c
  <1> QED BY <1>2, <1>3, TerminalKeeps

\* redirect() changes status and headers always, the body only if it comes first.
LEMMA RedirectKeeps == ASSUME IInv, Redirect PROVE IInv'
  <1> DEFINE a == [ctx EXCEPT !.status = 302]
             b == WithHeader(a, "Location")
             c == WithBody(b, "")
  <1>1. Sound(ctx)
    BY DEF IInv, Typed
  <1>0. a \in ContextType /\ a.headers = ctx.headers
    <2>1. 302 \in Nat
      OBVIOUS
    <2>2. ctx \in ContextType
      BY <1>1 DEF Sound
    <2>3. a \in ContextType
      BY <2>1, <2>2, ZenonT(60) DEF ContextType
    <2>4. a.headers = ctx.headers
      BY <2>1, <2>2 DEF ContextType
    <2> QED BY <2>3, <2>4
  <1>2. /\ Sound(a) /\ a.role = ctx.role /\ a.index = ctx.index /\ a.count = ctx.count
        /\ a.prebuilt = ctx.prebuilt /\ a.sent = ctx.sent /\ a.body = ctx.body
    BY <1>0, <1>1, ZenonT(60) DEF Sound, ContextType
  <1>3. Change(c) /\ Promise(c)
    BY DEF Redirect
  <1> HIDE DEF a
  <1>4. /\ Sound(b) /\ b.role = a.role /\ b.index = a.index /\ b.count = a.count
        /\ b.prebuilt = a.prebuilt /\ b.sent = a.sent /\ b.body = a.body
    <2>1. "Location" \in HeaderNames
      BY DEF HeaderNames
    <2>2. Sound(WithHeader(a, "Location"))
      BY <1>2, <2>1, WithHeaderSound, Zenon
    <2> QED BY <1>2, <2>1, <2>2, WithHeaderSound, Zenon
  <1> HIDE DEF b
  <1>5. /\ Sound(c) /\ c.sent /\ c.role = b.role /\ c.index = b.index /\ c.count = b.count
        /\ c.prebuilt = b.prebuilt
        /\ b.sent => c.body = b.body
    BY <1>4, WithBodySound
  <1> HIDE DEF c
  <1> QED BY <1>2, <1>3, <1>4, <1>5, TerminalKeeps

\* send_prebuilt() promises what it puts into the send buffer.
LEMMA SendPrebuiltKeeps == ASSUME IInv, NEW body \in Bodies, SendPrebuilt(body) PROVE IInv'
  <1>1. /\ ctx' = [ctx EXCEPT !.sent = TRUE, !.prebuilt = TRUE]
        /\ phase \in {"chain", "not_found", "on_error"}
        /\ response'.from = ctx.role /\ response'.body = body /\ promised'.body = body
        /\ UNCHANGED <<req, table, custom, phase, stack, closeAfter, ran, failed>>
    BY DEF SendPrebuilt, Active, given
  <1>2. /\ Sound(ctx') /\ ctx'.role = ctx.role /\ ctx'.index = ctx.index
        /\ ctx'.count = ctx.count /\ ctx'.sent /\ ctx'.prebuilt
    BY <1>1 DEF IInv, Typed, Sound, ContextType
  <1>3. Typed'
    BY <1>1, <1>2 DEF IInv, Typed, Sound, ContextType
  <1>4. Whose'
    BY <1>1, <1>2 DEF IInv, Whose, Route, Fallback
  <1>5. Ran'
    BY <1>1, <1>2 DEF IInv, Ran, HandlersInOrder, Route, Fallback
  <1>6. Prebuilt' /\ Failing'
    BY <1>1, <1>2 DEF IInv, Prebuilt, Failing, Active
  <1>7. Promised'
    BY <1>1, <1>2 DEF Promised, Active
  <1>8. CloseIsAnnounced' /\ FirstBodyStands' /\ FailureIsAnswered'
    BY <1>1 DEF CloseIsAnnounced, FirstBodyStands, FailureIsAnswered
  <1> QED BY <1>3, <1>4, <1>5, <1>6, <1>7, <1>8 DEF IInv

-----------------------------------------------------------------------------
(* The rest of process_request                                             *)

\* A step to a phase in which no handler is active, with a context that is
\* left alone, keeps all parts but those about the response.
LEMMA InactiveKeeps ==
    ASSUME IInv, phase' \in {"parsed", "done", "escaped"}, phase' = "parsed" => phase = "received",
           UNCHANGED <<req, table, custom, ctx, ran, promised>>, closeAfter' \in BOOLEAN,
           failed' \in BOOLEAN, phase' = "parsed" => ~failed',
           CloseIsAnnounced', FirstBodyStands', FailureIsAnswered'
    PROVE  IInv'
  <1>1. Typed'
    BY DEF IInv, Typed, given
  <1>2. Whose'
    BY DEF Whose
  <1>3. Ran'
    BY DEF IInv, Ran, HandlersInOrder, Route, Fallback, given
  <1>4. Prebuilt' /\ Failing'
    BY DEF Prebuilt, Failing, Active
  <1>5. Promised'
    BY DEF IInv, Promised, Active
  <1> QED BY <1>1, <1>2, <1>3, <1>4, <1>5 DEF IInv

\* send_error_response, before or after the chain, keeps the invariant: what it
\* sends is the server's own.
LEMMA ErrorResponseKeeps ==
    ASSUME IInv, NEW code, ErrorResponse(code), UNCHANGED <<req, table, custom, ctx, ran, promised>>,
           failed' \in BOOLEAN, failed' => "on_error" \notin custom
    PROVE  IInv'
  <1>1. /\ phase' = "done" /\ closeAfter' = TRUE
        /\ response'.close = TRUE /\ response'.from = "server"
    BY DEF ErrorResponse
  <1>2. CloseIsAnnounced' /\ FirstBodyStands' /\ FailureIsAnswered'
    BY <1>1 DEF CloseIsAnnounced, FirstBodyStands, FailureIsAnswered, given
  <1> QED BY <1>1, <1>2, InactiveKeeps

\* should_close() decides from the request alone.
LEMMA ParseKeeps == ASSUME IInv, Parse PROVE IInv'
  <1>1. /\ phase = "received" /\ phase' = "parsed"
        /\ UNCHANGED <<req, table, custom, ctx, ran, promised, failed>>
    BY DEF Parse
  <1>2. closeAfter' \in BOOLEAN
    BY DEF Parse, ShouldClose
  <1>3. ~failed' /\ failed' \in BOOLEAN
    BY <1>1 DEF IInv, Failing, Typed
  <1>4. CloseIsAnnounced' /\ FirstBodyStands' /\ FailureIsAnswered'
    BY <1>1 DEF CloseIsAnnounced, FirstBodyStands, FailureIsAnswered
  <1> QED BY <1>1, <1>2, <1>3, <1>4, InactiveKeeps

\* Each of the checks of process_request that refuse a request keeps it.
LEMMA RefusalKeeps == ASSUME IInv, RefuseMessage \/ Refuse \/ RefuseParam PROVE IInv'
  <1>1. /\ \E code : ErrorResponse(code)
        /\ UNCHANGED <<req, table, custom, ctx, ran, promised, failed>>
    BY DEF RefuseMessage, Refuse, RefuseParam, given
  <1>2. ~failed /\ failed \in BOOLEAN
    BY DEF IInv, Typed, Failing, RefuseMessage, Refuse, RefuseParam, given
  <1> QED BY <1>1, <1>2, ErrorResponseKeeps

\* The answer to OPTIONS is the server's own.
LEMMA AnswerOptionsKeeps == ASSUME IInv, AnswerOptions PROVE IInv'
  <1>1. /\ phase = "parsed" /\ phase' = "done"
        /\ UNCHANGED <<req, table, custom, ctx, ran, promised, failed, closeAfter>>
        /\ response'.close = closeAfter /\ response'.from = "server"
    BY DEF AnswerOptions, Built, NewCtx, given
  <1>2. ~failed /\ failed \in BOOLEAN /\ closeAfter \in BOOLEAN
    BY <1>1 DEF IInv, Failing, Typed
  <1>3. CloseIsAnnounced' /\ FirstBodyStands' /\ FailureIsAnswered'
    BY <1>1, <1>2 DEF CloseIsAnnounced, FirstBodyStands, FailureIsAnswered
  <1> QED BY <1>1, <1>2, <1>3, InactiveKeeps

\* Entering the chain of a route, and a custom handler, starts a new context.
LEMMA EnterChainKeeps == ASSUME IInv, EnterChain PROVE IInv'
  <1> DEFINE new == NewCtx("route", table[Route], Fallback)
  <1>1. /\ phase = "parsed" /\ phase' = "chain"
        /\ ctx' = [new EXCEPT !.index = 1] /\ ran' = <<1>>
        /\ UNCHANGED <<req, table, custom, closeAfter, response, promised, failed>>
        /\ Refusal = 0 /\ Matched
    BY DEF EnterChain, Route
  <1>2. Route \in Verbs /\ table[Route] \in Nat /\ table[Route] > 0
    <2>1. req.method \in Verbs
      BY <1>1 DEF Refusal
    <2>2. table \in [Verbs -> Nat]
      BY HandlingAssumption DEF IInv, Typed, Tables, Requests
    <2> QED BY <1>1, <2>1, <2>2 DEF Route, Matched, Fallback, Verbs
  <1>3. Fallback \in BOOLEAN
    BY DEF Fallback
  <1>4. /\ Sound(new) /\ new.role = "route" /\ new.count = table[Route] /\ new.index = 0
        /\ ~new.sent /\ ~new.prebuilt
    BY <1>2, <1>3, NewCtxSound DEF Roles
  <1> HIDE DEF new
  <1>5. /\ ctx' \in ContextType /\ ctx'.index = 1 /\ ctx'.headers = new.headers
        /\ ctx'.role = "route" /\ ctx'.count = table[Route] /\ ~ctx'.sent /\ ~ctx'.prebuilt
    BY <1>1, <1>4 DEF Sound, ContextType
  <1>6. Sound(ctx')
    BY <1>2, <1>4, <1>5 DEF Sound
  <1>7. Typed' /\ Whose'
    BY <1>1, <1>5, <1>6 DEF IInv, Typed, Whose, Route, Fallback, given
  <1>8. Ran'
    BY <1>1, <1>2, <1>5 DEF Ran, HandlersInOrder, Route, Fallback, given
  <1>9. Prebuilt' /\ Failing' /\ Promised'
    BY <1>1, <1>5 DEF IInv, Prebuilt, Failing, Promised, Active
  <1>10. CloseIsAnnounced' /\ FirstBodyStands' /\ FailureIsAnswered'
    BY <1>1 DEF CloseIsAnnounced, FirstBodyStands, FailureIsAnswered
  <1> QED BY <1>7, <1>8, <1>9, <1>10 DEF IInv

\* A custom handler starts with a context of its own, in which nothing is sent.
LEMMA CustomKeeps ==
    ASSUME IInv, NEW role \in {"not_found", "on_error"}, role \in custom,
           ctx' = NewCtx(role, 0, FALSE), phase' = role,
           UNCHANGED <<req, table, custom, closeAfter, ran>>, promised' = Nothing,
           failed' = (role = "on_error")
    PROVE  IInv'
  <1>1. /\ Sound(ctx') /\ ctx'.role = role /\ ctx'.count = 0
        /\ ~ctx'.sent /\ ~ctx'.prebuilt
    <2>1. role \in Roles /\ 0 \in Nat /\ FALSE \in BOOLEAN
      BY DEF Roles
    <2> QED BY <2>1, NewCtxSound
  <1>2. Typed' /\ Whose'
    BY <1>1 DEF IInv, Typed, Whose, given
  <1>3. Ran'
    BY DEF IInv, Ran, HandlersInOrder, Route, Fallback, given
  <1>4. Prebuilt' /\ Failing' /\ Promised'
    BY <1>1 DEF Prebuilt, Failing, Promised, Active
  <1>5. CloseIsAnnounced' /\ FirstBodyStands' /\ FailureIsAnswered'
    BY DEF CloseIsAnnounced, FirstBodyStands, FailureIsAnswered
  <1> QED BY <1>2, <1>3, <1>4, <1>5 DEF IInv

\* No route: the not-found handler or a 404.
LEMMA NotFoundKeeps == ASSUME IInv, NotFound PROVE IInv'
  <1>1. ~failed /\ failed \in BOOLEAN /\ promised = Nothing /\ failed' = failed
        /\ UNCHANGED <<req, table, custom, ran, promised>>
    BY DEF IInv, Typed, Failing, Promised, NotFound, given
  <1>2. CASE "not_found" \in custom
    BY <1>1, <1>2, CustomKeeps DEF NotFound, given
  <1>3. CASE "not_found" \notin custom
    BY <1>1, <1>3, ErrorResponseKeeps DEF NotFound, given
  <1> QED BY <1>2, <1>3

\* An exception out of the chain is answered by the error handler or a 500.
LEMMA FailKeeps == ASSUME IInv, Fail PROVE IInv'
  <1>1. CASE "on_error" \in custom
    BY <1>1, CustomKeeps DEF Fail, given
  <1>2. CASE "on_error" \notin custom
    BY <1>2, ErrorResponseKeeps DEF Fail, given
  <1> QED BY <1>1, <1>2

\* An exception of a custom handler ends the request without a response.
LEMMA EscapeKeeps == ASSUME IInv, Escape PROVE IInv'
  <1>1. /\ phase' = "escaped"
        /\ UNCHANGED <<req, table, custom, ctx, ran, promised, failed, closeAfter>>
    BY DEF Escape, given
  <1>2. failed \in BOOLEAN /\ closeAfter \in BOOLEAN
    BY DEF IInv, Typed
  <1>3. CloseIsAnnounced' /\ FirstBodyStands' /\ FailureIsAnswered'
    BY <1>1 DEF CloseIsAnnounced, FirstBodyStands, FailureIsAnswered
  <1> QED BY <1>1, <1>2, <1>3, InactiveKeeps

-----------------------------------------------------------------------------
(* The chain                                                               *)

\* next() enters the handler after the last one entered.
LEMMA CallNextKeeps == ASSUME IInv, CallNext PROVE IInv'
  <1>1. /\ ctx' = [ctx EXCEPT !.index = @ + 1] /\ ctx.index < ctx.count
        /\ phase \in {"chain", "not_found", "on_error"}
        /\ ran' = Append(ran, ctx'.index)
        /\ UNCHANGED <<req, table, custom, phase, closeAfter, response, promised, failed>>
    BY DEF CallNext, Active, given
  <1>2. Sound(ctx)
    BY DEF IInv, Typed
  <1>3. /\ Sound(ctx') /\ ctx'.index = ctx.index + 1 /\ ctx'.role = ctx.role
        /\ ctx'.count = ctx.count /\ ctx'.sent = ctx.sent /\ ctx'.prebuilt = ctx.prebuilt
        /\ ctx'.body = ctx.body
    <2>1. ctx \in ContextType /\ ctx.index \in Nat /\ ctx.count \in Nat
      BY <1>2 DEF Sound, ContextType
    <2>2. ctx.index + 1 \in Nat /\ ctx.index + 1 <= ctx.count
      BY <1>1, <2>1
    <2>3. /\ ctx' \in ContextType /\ ctx'.index = ctx.index + 1 /\ ctx'.role = ctx.role
          /\ ctx'.count = ctx.count /\ ctx'.sent = ctx.sent /\ ctx'.prebuilt = ctx.prebuilt
          /\ ctx'.body = ctx.body /\ ctx'.headers = ctx.headers
      BY <1>1, <2>1, <2>2 DEF ContextType
    <2>4. Sound(ctx')
      BY <1>2, <2>2, <2>3 DEF Sound
    <2> QED BY <2>3, <2>4
  <1>4. Typed' /\ Whose'
    BY <1>1, <1>3 DEF IInv, Typed, Whose, Route, Fallback
  <1>5. phase = "chain" /\ ctx.count = table[Route] /\ Len(ran) = ctx.index
    <2>1. ctx.index \in Nat /\ ctx.count \in Nat
      BY <1>2 DEF Sound, ContextType
    <2>2. ctx.count # 0
      BY <1>1, <2>1
    <2> QED BY <1>1, <2>2 DEF IInv, Whose, Ran
  <1>6. Ran'
    <2>1. ran \in Seq(Nat) /\ ctx.index \in Nat /\ ctx.count \in Nat
      BY <1>2 DEF IInv, Ran, Sound, ContextType
    <2>2. /\ Len(ran') = Len(ran) + 1 /\ ran' \in Seq(Nat)
          /\ \A i \in 1 .. Len(ran) : ran'[i] = ran[i]
          /\ ran'[Len(ran) + 1] = Len(ran) + 1
      BY <1>1, <1>3, <1>5, <2>1
    <2>3. \A i \in 1 .. Len(ran') : ran'[i] = i
      BY <2>1, <2>2, SMTT(30) DEF IInv, Ran, HandlersInOrder
    <2>4. ran' = [i \in 1 .. Len(ran') |-> i]
      BY <2>2, <2>3
    <2>5. Len(ran') <= table[Route]
      BY <1>1, <1>5, <2>1, <2>2
    <2>6. HandlersInOrder'
      BY <1>1, <2>4, <2>5 DEF HandlersInOrder, Route, Fallback
    <2> QED BY <1>1, <1>3, <1>5, <2>2, <2>6 DEF Ran
  <1>7. Prebuilt' /\ Failing' /\ Promised'
    BY <1>1, <1>3 DEF IInv, Prebuilt, Failing, Promised, Active
  <1>8. CloseIsAnnounced' /\ FirstBodyStands' /\ FailureIsAnswered'
    BY <1>1 DEF CloseIsAnnounced, FirstBodyStands, FailureIsAnswered
  <1> QED BY <1>4, <1>6, <1>7, <1>8 DEF IInv

\* A step that touches nothing but the stack
LEMMA StackKeeps ==
    ASSUME IInv,
           UNCHANGED <<req, table, custom, phase, ctx, closeAfter, response, ran, promised, failed>>
    PROVE  IInv'
  BY DEF IInv, Typed, Whose, Ran, HandlersInOrder, Prebuilt, Failing, Promised, Active,
         CloseIsAnnounced, FirstBodyStands, FailureIsAnswered, Route, Fallback, given

\* With the last handler the response goes out: the prebuilt one or the one
\* built from the context.
LEMMA ReturnKeeps == ASSUME IInv, Return PROVE IInv'
  <1>1. CASE stack' # << >>
    BY <1>1, StackKeeps DEF Return, given
  <1>2. CASE stack' = << >>
    <2>1. /\ phase \in {"chain", "not_found", "on_error"} /\ phase' = "done"
          /\ UNCHANGED <<req, table, custom, ctx, closeAfter, ran, promised, failed>>
          /\ ctx.prebuilt => response' = response
          /\ ~ctx.prebuilt => /\ response'.from = ctx.role /\ response'.close = closeAfter
                              /\ response'.body = IF ctx.head THEN "" ELSE ctx.body
      <3>1. /\ phase \in {"chain", "not_found", "on_error"} /\ phase' = "done"
            /\ UNCHANGED <<req, table, custom, ctx, closeAfter, ran, promised, failed>>
        BY <1>2 DEF Return, Active, given
      <3>2. response' = IF ctx.prebuilt THEN response ELSE Built(ctx)
        BY <1>2 DEF Return, given
      <3> QED BY <3>1, <3>2 DEF Built
    <2>2. /\ failed \in BOOLEAN /\ closeAfter \in BOOLEAN
          /\ ctx.prebuilt => ctx.sent
      BY DEF IInv, Typed, Sound
    <2>3. response'.from = ctx.role
      BY <2>1 DEF IInv, Prebuilt, Active
    <2>4. CloseIsAnnounced'
      BY <2>1 DEF CloseIsAnnounced
    <2>5. FirstBodyStands'
      BY <2>1, <2>2 DEF IInv, FirstBodyStands, Promised, Active
    <2>6. FailureIsAnswered'
      BY <2>1, <2>3 DEF IInv, FailureIsAnswered, Failing, Whose, given
    <2> QED BY <2>1, <2>2, <2>4, <2>5, <2>6, InactiveKeeps
  <1> QED BY <1>1, <1>2

-----------------------------------------------------------------------------
(* The stack                                                               *)

\* The handlers that are active are positions of the running chain
Stacked == stack \in Seq(0 .. ctx.count) /\ (Active <=> stack # << >>)

\* A sequence cut behind its k-th element.
LEMMA Cut ==
    ASSUME NEW S, NEW s \in Seq(S), NEW k \in 0 .. Len(s)
    PROVE  SubSeq(s, 1, k) \in Seq(S) /\ Len(SubSeq(s, 1, k)) = k
  BY SMT

\* The operations of a context do not touch the length of its chain.
LEMMA CountStays ==
    ASSUME IInv, UNCHANGED <<phase, stack>>, ctx'.count = ctx.count, Stacked
    PROVE  Stacked'
  BY DEF Stacked, Active

\* A new context is made together with the stack of its first handler.
LEMMA FirstOnStack ==
    ASSUME NEW n \in Nat, stack' = <<n>>, ctx'.count \in Nat, n <= ctx'.count,
           phase' \in {"chain", "not_found", "on_error"}
    PROVE  Stacked'
  <1>1. n \in 0 .. ctx'.count
    OBVIOUS
  <1>2. stack' \in Seq(0 .. ctx'.count) /\ stack' # << >>
    BY <1>1
  <1> QED BY <1>2 DEF Stacked, Active

\* Where no handler is active the stack is empty.
LEMMA EmptyStack ==
    ASSUME stack' = << >>, phase' \in {"parsed", "done", "escaped"}
    PROVE  Stacked'
  BY DEF Stacked, Active

\* Each step before the chain leaves the stack empty or enters one handler.
LEMMA DispatchStacks ==
    ASSUME IInv, Stacked,
           \/ Parse \/ RefuseMessage \/ Refuse \/ RefuseParam \/ AnswerOptions
           \/ NotFound \/ EnterChain \/ Fail \/ Escape
    PROVE  Stacked'
  <1>1. phase \in {"received", "parsed"} => stack = << >>
    BY DEF Stacked, Active
  <1>2. CASE Parse \/ RefuseMessage \/ Refuse \/ RefuseParam \/ AnswerOptions \/ Escape
    BY <1>1, <1>2, EmptyStack
       DEF Parse, RefuseMessage, Refuse, RefuseParam, AnswerOptions, Escape, ErrorResponse
  <1>3. ASSUME NEW role \in {"not_found", "on_error"}, ctx' = NewCtx(role, 0, FALSE),
               stack' = << 0 >>, phase' = role
        PROVE  Stacked'
    <2>1. ctx'.count = 0
      BY <1>3 DEF NewCtx
    <2>2. ctx'.count \in Nat /\ 0 <= ctx'.count /\ 0 \in Nat
      BY <2>1
    <2>3. phase' \in {"chain", "not_found", "on_error"}
      BY <1>3
    <2> QED BY <1>3, <2>2, <2>3, FirstOnStack, Zenon
  <1>4. CASE NotFound
    <2>1. CASE "not_found" \in custom
      BY <1>3, <1>4, <2>1 DEF NotFound
    <2>2. CASE "not_found" \notin custom
      BY <1>1, <1>4, <2>2, EmptyStack DEF NotFound, ErrorResponse
    <2> QED BY <2>1, <2>2
  <1>5. CASE Fail
    <2>1. CASE "on_error" \in custom
      BY <1>3, <1>5, <2>1 DEF Fail
    <2>2. CASE "on_error" \notin custom
      BY <1>5, <2>2, EmptyStack DEF Fail, ErrorResponse
    <2> QED BY <2>1, <2>2
  <1>6. CASE EnterChain
    <2>1. IInv'
      BY <1>6, EnterChainKeeps
    <2>2. ctx'.index = 1 /\ stack' = <<1>> /\ phase' = "chain"
      BY <1>6 DEF EnterChain, NewCtx
    <2>3. ctx'.count \in Nat /\ 1 <= ctx'.count
      BY <2>1, <2>2 DEF IInv, Typed, Sound, ContextType
    <2> QED BY <2>2, <2>3, FirstOnStack
  <1> QED BY <1>2, <1>4, <1>5, <1>6

\* next() pushes the position it enters; returning and catching pop.
LEMMA ChainStacks ==
    ASSUME IInv, Stacked, CallNext \/ Return \/ \E k \in 1 .. Len(stack) : Caught(k)
    PROVE  Stacked'
  <1>0. ctx \in ContextType /\ ctx.index \in Nat /\ ctx.count \in Nat
    BY DEF IInv, Typed, Sound, ContextType
  <1>1. CASE CallNext
    <2>1. /\ ctx'.index = ctx.index + 1 /\ ctx'.count = ctx.count
          /\ stack' = Append(stack, ctx'.index) /\ phase' = phase /\ Active
          /\ ctx.index < ctx.count
      BY <1>0, <1>1 DEF CallNext, ContextType
    <2>2. ctx.index + 1 \in 0 .. ctx.count
      BY <1>0, <2>1
    <2> QED BY <2>1, <2>2 DEF Stacked, Active
  <1>2. CASE Return
    <2>1. /\ stack' = Front(stack) /\ ctx' = ctx /\ Active
          /\ stack' = << >> => phase' = "done"
          /\ stack' # << >> => phase' = phase
      BY <1>2 DEF Return
    <2>2. stack' \in Seq(0 .. ctx.count)
      <3>1. stack \in Seq(0 .. ctx.count) /\ stack # << >>
        BY <2>1, Zenon DEF Stacked
      <3>2. Len(stack) - 1 \in 0 .. Len(stack)
        BY <3>1
      <3>3. SubSeq(stack, 1, Len(stack) - 1) \in Seq(0 .. ctx.count)
        BY <3>1, <3>2, Cut, Zenon
      <3> QED BY <2>1, <3>3 DEF Front
    <2> QED BY <2>1, <2>2 DEF Stacked, Active
  <1>3. ASSUME NEW k \in 1 .. Len(stack), Caught(k) PROVE Stacked'
    <2>1. /\ stack' = SubSeq(stack, 1, k) /\ ctx' = ctx /\ phase' = phase /\ Active
          /\ k \in 1 .. Len(stack) - 1
      BY <1>3 DEF Caught
    <2>2. stack \in Seq(0 .. ctx.count)
      BY DEF Stacked
    <2>3. stack' \in Seq(0 .. ctx.count) /\ stack' # << >>
      <3>1. k \in 0 .. Len(stack) /\ k > 0
        BY <2>1, <2>2
      <3>2. SubSeq(stack, 1, k) \in Seq(0 .. ctx.count) /\ Len(SubSeq(stack, 1, k)) = k
        BY <2>2, <3>1, Cut, Zenon
      <3> QED BY <2>1, <3>1, <3>2
    <2> QED BY <2>1, <2>3 DEF Stacked, Active
  <1> QED BY <1>1, <1>2, <1>3

\* The other operations change no more of the chain than the context's answer.
LEMMA AnswerStacks ==
    ASSUME IInv, Stacked,
           \/ SetHeader \/ NoContent \/ Redirect
           \/ \E code \in Codes : SetStatus(code)
           \/ \E body \in Bodies : Send(body) \/ SendPrebuilt(body)
    PROVE  Stacked'
  <1>0. ctx \in ContextType
    BY DEF IInv, Typed, Sound
  <1>1. UNCHANGED <<phase, stack>>
    BY DEF SetHeader, NoContent, Redirect, SetStatus, Send, SendPrebuilt, Change
  <1>2. ctx'.count = ctx.count
    BY <1>0, ZenonT(60) DEF SetHeader, NoContent, Redirect, SetStatus, Send, SendPrebuilt, Change,
                WithHeader, WithBody, ContextType
  <1> QED BY <1>1, <1>2, CountStays

-----------------------------------------------------------------------------
(* The theorems                                                            *)

\* The invariant holds when a request has been received.
LEMMA InvInit == Init => IInv
  <1> SUFFICES ASSUME Init PROVE IInv
    OBVIOUS
  <1>1. Sound(ctx)
    BY NewCtxSound DEF Init, Roles
  <1>0. req \in Requests /\ table \in Tables
    BY HandlingAssumption DEF Init
  <1>2. Typed /\ Whose /\ Prebuilt /\ Failing
    BY <1>0, <1>1 DEF Init, Typed, Whose, Prebuilt, Failing, Active
  <1>3. Ran
    BY DEF Init, Ran, HandlersInOrder
  <1>4. Promised /\ CloseIsAnnounced /\ FirstBodyStands /\ FailureIsAnswered
    BY DEF Init, Promised, Active, CloseIsAnnounced, FirstBodyStands, FailureIsAnswered
  <1> QED BY <1>2, <1>3, <1>4 DEF IInv

\* Every step of process_request, of a handler and of build_response keeps it.
LEMMA InvStep == IInv /\ [Next]_vars => IInv'
  <1> SUFFICES ASSUME IInv, [Next]_vars PROVE IInv'
    OBVIOUS
  <1>1. CASE Parse \/ RefuseMessage \/ Refuse \/ RefuseParam \/ AnswerOptions \/ NotFound
    BY <1>1, ParseKeeps, RefusalKeeps, AnswerOptionsKeeps, NotFoundKeeps
  <1>2. CASE EnterChain \/ CallNext \/ Return \/ Fail \/ Escape
    BY <1>2, EnterChainKeeps, CallNextKeeps, ReturnKeeps, FailKeeps, EscapeKeeps
  <1>3. CASE SetHeader \/ NoContent \/ Redirect
    BY <1>3, SetHeaderKeeps, NoContentKeeps, RedirectKeeps
  <1>4. ASSUME NEW code \in Codes, SetStatus(code) PROVE IInv'
    BY <1>4, SetStatusKeeps
  <1>5. ASSUME NEW body \in Bodies, Send(body) \/ SendPrebuilt(body) PROVE IInv'
    BY <1>5, SendKeeps, SendPrebuiltKeeps
  <1>6. ASSUME NEW k, Caught(k) PROVE IInv'
    BY <1>6, StackKeeps DEF Caught, given
  <1>7. CASE UNCHANGED vars
    BY <1>7, StackKeeps DEF vars, given
  <1> QED BY <1>1, <1>2, <1>3, <1>4, <1>5, <1>6, <1>7 DEF Next

\* The invariant of all the theorems below.
THEOREM Invariance == Spec => []IInv
  BY InvInit, InvStep, PTL DEF Spec

\* However often each handler calls next() (ctx::next), and whatever is thrown
\* and caught on the way, the handlers of a chain of any length run in order,
\* each at most once.
THEOREM AlwaysInOrder == Spec => []HandlersInOrder
  <1>1. IInv => HandlersInOrder
    BY DEF IInv, Ran
  <1> QED BY <1>1, Invariance, PTL

\* What build_response and send_error_response announce about closing is what
\* set_close_after_send has made of the connection.
THEOREM CloseAlwaysAnnounced == Spec => []CloseIsAnnounced
  <1>1. IInv => CloseIsAnnounced
    BY DEF IInv
  <1> QED BY <1>1, Invariance, PTL

\* The body of the first terminal call is the one that goes out
\* (response_sent_).
THEOREM FirstBodyAlwaysStands == Spec => []FirstBodyStands
  <1>1. IInv => FirstBodyStands
    BY DEF IInv
  <1> QED BY <1>1, Invariance, PTL

\* After an exception out of the chain the client never gets what the chain
\* had prepared (the catch of process_request).
THEOREM FailureAlwaysAnswered == Spec => []FailureIsAnswered
  <1>1. IInv => FailureIsAnswered
    BY DEF IInv
  <1> QED BY <1>1, Invariance, PTL

\* The type invariant: only handlers of the running chain are active, and the
\* context keeps to its limits (resp_header_count_, handler_index_).
THEOREM AlwaysTyped == Spec => []TypeOK
  <1>1. Init => Stacked
    <2> SUFFICES ASSUME Init PROVE Stacked
      OBVIOUS
    <2>1. stack = << >> /\ phase = "received"
      BY DEF Init
    <2>2. stack \in Seq(0 .. ctx.count)
      BY <2>1
    <2>3. ~Active
      BY <2>1 DEF Active
    <2> QED BY <2>1, <2>2, <2>3, Zenon DEF Stacked
  <1>2. IInv /\ Stacked /\ [Next]_vars => Stacked'
    <2> SUFFICES ASSUME IInv, Stacked, [Next]_vars PROVE Stacked'
      OBVIOUS
    <2>1. CASE UNCHANGED vars
      BY <2>1, CountStays DEF vars
    <2> QED BY <2>1, DispatchStacks, ChainStacks, AnswerStacks DEF Next
  <1>3. IInv /\ Stacked => TypeOK
    <2> SUFFICES ASSUME IInv, Stacked PROVE TypeOK
      OBVIOUS
    <2>0. /\ ctx \in ContextType /\ ctx.index <= ctx.count
          /\ Cardinality(ctx.headers) <= MaxHeaders /\ closeAfter \in BOOLEAN
          /\ ctx.prebuilt => ctx.sent
      BY DEF IInv, Typed, Sound
    <2>3. /\ ctx.index \in Nat /\ ctx.count \in Nat
          /\ ctx.prebuilt \in BOOLEAN /\ ctx.head \in BOOLEAN
      BY <2>0 DEF ContextType
    <2>1. ctx.index \in 0 .. ctx.count
      BY <2>0, <2>3
    <2>2. phase \in {"received", "parsed", "chain", "not_found", "on_error", "done", "escaped"}
      BY DEF IInv, Typed
    <2> QED BY <2>0, <2>1, <2>2, <2>3, Zenon DEF Stacked, TypeOK
  <1> QED BY <1>1, <1>2, <1>3, Invariance, PTL DEF Spec

-----------------------------------------------------------------------------
(* Induction and recursion over numbers                                    *)

\* A set that has 0, and with n also n + 1, has every natural number.
LEMMA Induction ==
    ASSUME NEW S, 0 \in S, \A n \in Nat : n \in S => n + 1 \in S
    PROVE  Nat \subseteq S
  <1> DEFINE T == Nat \ S
             Less == OpToRel(LAMBDA x, y : x < y, Nat)
  <1>1. ASSUME T # {} PROVE FALSE
    <2>1. PICK n \in T : \A m \in T : <<m, n>> \notin Less
      <3>1. IsWellFoundedOn(Less, Nat)
        BY NatLessThanWellFounded
      <3> HIDE DEF Less
      <3> QED BY <1>1, <3>1, WFMin
    <2>2. n \in Nat /\ n # 0 /\ n \notin S
      OBVIOUS
    <2>3. n - 1 \in Nat /\ <<n - 1, n>> \in Less /\ (n - 1) + 1 = n
      BY <2>2 DEF OpToRel
    <2>4. n - 1 \in S
      BY <2>1, <2>3
    <2> QED BY <2>2, <2>3, <2>4
  <1> QED BY <1>1

\* The step of number i takes a value of V to one of V
Steps(step, N, V) == step \in [(1 .. N) \X V -> V]

\* The values that such steps go through
Goes(f, init, step, N, V) ==
    /\ f \in [0 .. N -> V] /\ f[0] = init
    /\ \A i \in 1 .. N : f[i] = step[<<i, f[i - 1]>>]

\* Any number of steps can be taken.
LEMMA Recursion ==
    ASSUME NEW V, NEW N \in Nat, NEW init \in V, NEW step, Steps(step, N, V)
    PROVE  \E f : Goes(f, init, step, N, V)
  <1> DEFINE To(f, n) == f[0] = init /\ \A i \in 1 .. n : f[i] = step[<<i, f[i - 1]>>]
             Upto == {n \in Nat : n <= N => \E f \in [0 .. n -> V] : To(f, n)}
  <1>0. step \in [(1 .. N) \X V -> V]
    BY DEF Steps
  <1>1. 0 \in Upto
    <2> DEFINE f == [i \in 0 .. 0 |-> init]
    <2>1. f \in [0 .. 0 -> V] /\ To(f, 0)
      OBVIOUS
    <2> QED BY <2>1
  <1>2. ASSUME NEW n \in Nat, n \in Upto PROVE n + 1 \in Upto
    <2> SUFFICES ASSUME n + 1 <= N PROVE \E f \in [0 .. n + 1 -> V] : To(f, n + 1)
      OBVIOUS
    <2>1. PICK f \in [0 .. n -> V] : To(f, n)
      BY <1>2
    <2> DEFINE v == step[<<n + 1, f[n]>>]
               h == [i \in 0 .. n + 1 |-> IF i = n + 1 THEN v ELSE f[i]]
    <2>2. v \in V
      <3>1. <<n + 1, f[n]>> \in (1 .. N) \X V
        BY <2>1
      <3> QED BY <1>0, <3>1
    <2>3. h \in [0 .. n + 1 -> V]
      <3> HIDE DEF v
      <3>1. \A i \in 0 .. n + 1 : i = n + 1 \/ i \in 0 .. n
        OBVIOUS
      <3> QED BY <2>2, <3>1
    <2>4. \A i \in 0 .. n : h[i] = f[i]
      OBVIOUS
    <2>5. h[n + 1] = v
      OBVIOUS
    <2> HIDE DEF h
    <2>6. ASSUME NEW i \in 1 .. n + 1 PROVE h[i] = step[<<i, h[i - 1]>>]
      <3>1. CASE i \in 1 .. n
        <4>1. i \in 0 .. n /\ i - 1 \in 0 .. n
          BY <3>1
        <4>2. f[i] = step[<<i, f[i - 1]>>]
          BY <2>1, <3>1
        <4> QED BY <2>4, <4>1, <4>2
      <3>2. CASE i = n + 1
        <4>1. i - 1 = n /\ n \in 0 .. n
          BY <3>2
        <4> QED BY <2>4, <2>5, <3>2, <4>1
      <3> QED BY <3>1, <3>2
    <2>7. h[0] = init
      BY <2>1, <2>4
    <2>8. To(h, n + 1)
      BY <2>6, <2>7
    <2> QED BY <2>3, <2>8
  <1>3. N \in Upto
    <2> HIDE DEF Upto
    <2> QED BY <1>1, <1>2, Induction
  <1> QED BY <1>3 DEF Goes

-----------------------------------------------------------------------------
(* Content-Length                                                          *)

\* parse_request goes from digit to digit.
LEMMA LengthSteps ==
    ASSUME NEW value \in Seq(1 .. 255)
    PROVE  \E n \in [0 .. Len(value) -> Nat \cup {Invalid}] :
              /\ n[0] = 0 /\ LengthIn(value) = n[Len(value)]
              /\ \A i \in 1 .. Len(value) : n[i] = WithDigit(n[i - 1], value[i])
  <1> DEFINE L == Len(value)
             V == Nat \cup {Invalid}
             Step(f, i) == IF i = 0 THEN 0 ELSE WithDigit(f[i - 1], value[i])
             n[i \in 0 .. L] == IF i = 0 THEN 0 ELSE WithDigit(n[i - 1], value[i])
             step == [x \in (1 .. L) \X V |-> WithDigit(x[2], value[x[1]])]
  <1>1. L \in Nat /\ \A i \in 1 .. L : value[i] \in 1 .. 255
    <2> DEFINE B == 1 .. 255
    <2> HIDE DEF B
    <2>1. \A s \in Seq(B) : Len(s) \in Nat /\ \A i \in 1 .. Len(s) : s[i] \in B
      OBVIOUS
    <2> QED BY <2>1 DEF B
  <1>0. 0 \in V
    OBVIOUS
  <1>2. LengthIn(value) = n[L] /\ n = CHOOSE f : f = [i \in 0 .. L |-> Step(f, i)]
    BY DEF LengthIn
  <1> HIDE DEF n, L
  <1>3. ASSUME NEW k \in V, NEW d \in 1 .. 255 PROVE WithDigit(k, d) \in V
    BY <1>3, ParserAssumption DEF WithDigit, Digits, Invalid
  <1>4. \A x \in (1 .. L) \X V : WithDigit(x[2], value[x[1]]) \in V
    <2> HIDE DEF V
    <2> QED BY <1>1, <1>3
  <1>5. Steps(step, L, V)
    <2> HIDE DEF V
    <2> QED BY <1>4 DEF Steps
  <1> HIDE DEF V
  <1>6. PICK f \in [0 .. L -> V] : f[0] = 0 /\ \A i \in 1 .. L : f[i] = step[<<i, f[i - 1]>>]
    <2>1. L \in Nat
      BY <1>1
    <2> HIDE DEF step
    <2>2. PICK f : Goes(f, 0, step, L, V)
      BY <1>0, <1>5, <2>1, Recursion
    <2> QED BY <2>2 DEF Goes
  <1>7. \A i \in 1 .. L : f[i] = WithDigit(f[i - 1], value[i])
    <2> TAKE i \in 1 .. L
    <2>1. <<i, f[i - 1]>> \in (1 .. L) \X V
      BY <1>1
    <2> QED BY <1>6, <2>1
  <1>8. f = [i \in 0 .. L |-> Step(f, i)]
    <2>1. ASSUME NEW i \in 0 .. L PROVE f[i] = Step(f, i)
      BY <1>6, <1>7
    <2> HIDE DEF Step
    <2> QED BY <2>1
  <1>9. n = [i \in 0 .. L |-> Step(n, i)]
    <2> HIDE DEF Step
    <2> QED BY <1>2, <1>8
  <1>10. \A i \in 0 .. L : n[i] = Step(n, i)
    <2> HIDE DEF Step
    <2> QED BY <1>9
  <1>11. n[0] = 0 /\ \A i \in 1 .. L : n[i] = WithDigit(n[i - 1], value[i])
    BY <1>1, <1>10
  <1>12. \A i \in 0 .. L : n[i] \in V
    <2> DEFINE Good == {i \in Nat : i <= L => n[i] \in V}
    <2>1. 0 \in Good
      BY <1>0, <1>11
    <2>2. ASSUME NEW i \in Nat, i \in Good PROVE i + 1 \in Good
      <3> SUFFICES ASSUME i + 1 <= L PROVE n[i + 1] \in V
        OBVIOUS
      <3>1. n[i] \in V /\ i + 1 \in 1 .. L /\ (i + 1) - 1 = i
        BY <1>1, <2>2
      <3>2. n[i + 1] = WithDigit(n[i], value[i + 1])
        BY <1>11, <3>1
      <3>3. value[i + 1] \in 1 .. 255
        BY <1>1, <3>1
      <3> QED BY <1>3, <3>1, <3>2, <3>3
    <2>3. Nat \subseteq Good
      <3> HIDE DEF Good
      <3> QED BY <2>1, <2>2, Induction
    <2> QED BY <1>1, <2>3
  <1>13. n \in [0 .. L -> V]
    <2> HIDE DEF Step
    <2> QED BY <1>9, <1>12
  <1> QED BY <1>2, <1>11, <1>13 DEF L, V

\* The places of a number are powers of ten, and its digits add up.
LEMMA DecimalSteps ==
    ASSUME NEW value \in Seq(1 .. 255)
    PROVE  \E place \in [0 .. Len(value) -> Nat \ {0}], sum \in [0 .. Len(value) -> Int] :
              /\ place[0] = 1 /\ \A k \in 1 .. Len(value) : place[k] = 10 * place[k - 1]
              /\ sum[0] = 0 /\ Decimal(value) = sum[Len(value)]
              /\ \A i \in 1 .. Len(value) :
                    sum[i] = sum[i - 1] + (value[i] - 48) * place[Len(value) - i]
  <1> DEFINE L == Len(value)
             P == Nat \ {0}
             PStep(f, k) == IF k = 0 THEN 1 ELSE 10 * f[k - 1]
             place[k \in 0 .. L] == IF k = 0 THEN 1 ELSE 10 * place[k - 1]
             pstep == [x \in (1 .. L) \X P |-> 10 * x[2]]
             Step(f, i) == IF i = 0 THEN 0 ELSE f[i - 1] + (value[i] - 48) * place[L - i]
             sum[i \in 0 .. L] ==
                 IF i = 0 THEN 0 ELSE sum[i - 1] + (value[i] - 48) * place[L - i]
             step == [x \in (1 .. L) \X Int |-> x[2] + (value[x[1]] - 48) * place[L - x[1]]]
  <1>1. L \in Nat /\ \A i \in 1 .. L : value[i] \in Int
    <2> DEFINE B == 1 .. 255
    <2>0. \A b \in B : b \in Int
      OBVIOUS
    <2> HIDE DEF B
    <2>1. \A s \in Seq(B) : Len(s) \in Nat /\ \A i \in 1 .. Len(s) : s[i] \in B
      OBVIOUS
    <2>2. value \in Seq(B)
      BY DEF B
    <2> QED BY <2>0, <2>1, <2>2
  <1>2. Decimal(value) = sum[L]
    BY DEF Decimal
  <1>3. place = CHOOSE f : f = [k \in 0 .. L |-> PStep(f, k)]
    OBVIOUS
  <1>4. sum = CHOOSE f : f = [i \in 0 .. L |-> Step(f, i)]
    OBVIOUS
  <1> HIDE DEF place, sum, L
  <1>5. place \in [0 .. L -> P] /\ place[0] = 1 /\ \A k \in 1 .. L : place[k] = 10 * place[k - 1]
    <2>0. 1 \in P /\ \A x \in P : 10 * x \in P
      OBVIOUS
    <2>1. Steps(pstep, L, P)
      <3>1. \A x \in (1 .. L) \X P : 10 * x[2] \in P
        <4> HIDE DEF P
        <4> QED BY <2>0
      <3> HIDE DEF P
      <3> QED BY <3>1 DEF Steps
    <2> HIDE DEF P
    <2>2. PICK f : Goes(f, 1, pstep, L, P)
      <3> HIDE DEF pstep
      <3> QED BY <1>1, <2>0, <2>1, Recursion
    <2>3. /\ f \in [0 .. L -> P] /\ f[0] = 1
          /\ \A k \in 1 .. L : f[k] = 10 * f[k - 1]
      <3>1. /\ f \in [0 .. L -> P] /\ f[0] = 1
            /\ \A k \in 1 .. L : f[k] = pstep[<<k, f[k - 1]>>]
        <4> HIDE DEF pstep
        <4> QED BY <2>2 DEF Goes
      <3>2. ASSUME NEW k \in 1 .. L PROVE f[k] = 10 * f[k - 1]
        <4>1. <<k, f[k - 1]>> \in (1 .. L) \X P
          BY <1>1, <3>1
        <4> QED BY <3>1, <4>1
      <3> QED BY <3>1, <3>2
    <2>4. f = [k \in 0 .. L |-> PStep(f, k)]
      <3>1. ASSUME NEW k \in 0 .. L PROVE f[k] = PStep(f, k)
        BY <2>3
      <3> HIDE DEF PStep
      <3> QED BY <2>3, <3>1
    <2>5. place = [k \in 0 .. L |-> PStep(place, k)]
      <3> HIDE DEF PStep
      <3> QED BY <1>3, <2>4
    <2>6. \A k \in 0 .. L : place[k] = PStep(place, k)
      <3> HIDE DEF PStep
      <3> QED BY <2>5
    <2>7. place[0] = 1 /\ \A k \in 1 .. L : place[k] = 10 * place[k - 1]
      BY <1>1, <2>6
    <2>8. \A k \in 0 .. L : place[k] \in P
      <3> DEFINE Good == {k \in Nat : k <= L => place[k] \in P}
      <3>1. 0 \in Good
        BY <2>0, <2>7
      <3>2. ASSUME NEW k \in Nat, k \in Good PROVE k + 1 \in Good
        <4> SUFFICES ASSUME k + 1 <= L PROVE place[k + 1] \in P
          OBVIOUS
        <4>1. place[k] \in P /\ k + 1 \in 1 .. L /\ (k + 1) - 1 = k
          BY <1>1, <3>2
        <4> QED BY <2>0, <2>7, <4>1
      <3>3. Nat \subseteq Good
        <4> HIDE DEF Good
        <4> QED BY <3>1, <3>2, Induction
      <3> QED BY <1>1, <3>3
    <2> HIDE DEF PStep
    <2> QED BY <2>5, <2>7, <2>8
  <1>6. sum \in [0 .. L -> Int] /\ sum[0] = 0
        /\ \A i \in 1 .. L : sum[i] = sum[i - 1] + (value[i] - 48) * place[L - i]
    <2>0. \A i \in 1 .. L : value[i] \in Int /\ place[L - i] \in Int
      BY <1>1, <1>5
    <2>1. \A s \in Int, i \in 1 .. L : s + (value[i] - 48) * place[L - i] \in Int
      BY <2>0
    <2>2. Steps(step, L, Int)
      <3>1. \A x \in (1 .. L) \X Int : x[2] + (value[x[1]] - 48) * place[L - x[1]] \in Int
        BY <2>1
      <3> QED BY <3>1 DEF Steps
    <2>3. PICK f : Goes(f, 0, step, L, Int)
      <3>1. 0 \in Int
        OBVIOUS
      <3> HIDE DEF step
      <3> QED BY <1>1, <2>2, <3>1, Recursion
    <2>4. /\ f \in [0 .. L -> Int] /\ f[0] = 0
          /\ \A i \in 1 .. L : f[i] = f[i - 1] + (value[i] - 48) * place[L - i]
      <3>1. /\ f \in [0 .. L -> Int] /\ f[0] = 0
            /\ \A i \in 1 .. L : f[i] = step[<<i, f[i - 1]>>]
        <4> HIDE DEF step
        <4> QED BY <2>3 DEF Goes
      <3>2. ASSUME NEW i \in 1 .. L PROVE f[i] = f[i - 1] + (value[i] - 48) * place[L - i]
        <4>1. <<i, f[i - 1]>> \in (1 .. L) \X Int
          BY <1>1, <3>1
        <4> QED BY <3>1, <4>1
      <3> QED BY <3>1, <3>2
    <2>5. f = [i \in 0 .. L |-> Step(f, i)]
      <3>1. ASSUME NEW i \in 0 .. L PROVE f[i] = Step(f, i)
        BY <2>4
      <3> HIDE DEF Step
      <3> QED BY <2>4, <3>1
    <2>6. sum = [i \in 0 .. L |-> Step(sum, i)]
      <3> HIDE DEF Step
      <3> QED BY <1>4, <2>5
    <2>7. \A i \in 0 .. L : sum[i] = Step(sum, i)
      <3> HIDE DEF Step
      <3> QED BY <2>6
    <2>8. sum[0] = 0 /\ \A i \in 1 .. L : sum[i] = sum[i - 1] + (value[i] - 48) * place[L - i]
      BY <1>1, <2>7
    <2>9. \A i \in 0 .. L : sum[i] \in Int
      <3> DEFINE Good == {i \in Nat : i <= L => sum[i] \in Int}
      <3>1. 0 \in Good
        BY <2>8
      <3>2. ASSUME NEW i \in Nat, i \in Good PROVE i + 1 \in Good
        <4> SUFFICES ASSUME i + 1 <= L PROVE sum[i + 1] \in Int
          OBVIOUS
        <4>1. sum[i] \in Int /\ i + 1 \in 1 .. L /\ (i + 1) - 1 = i
          BY <1>1, <3>2
        <4>2. sum[i + 1] = sum[i] + (value[i + 1] - 48) * place[L - (i + 1)]
          BY <2>8, <4>1
        <4> QED BY <2>1, <4>1, <4>2
      <3>3. Nat \subseteq Good
        <4> HIDE DEF Good
        <4> QED BY <3>1, <3>2, Induction
      <3> QED BY <1>1, <3>3
    <2> HIDE DEF Step
    <2> QED BY <2>6, <2>8, <2>9
  <1> QED BY <1>2, <1>5, <1>6 DEF L, P

\* A byte at a time: beyond SizeMax, or after a byte that is no digit, the
\* number stays invalid.
LEMMA WithDigitExact ==
    ASSUME NEW n \in Nat \cup {Invalid}, NEW b \in 1 .. 255
    PROVE  WithDigit(n, b) = IF n # Invalid /\ b \in Digits /\ n * 10 + (b - 48) <= SizeMax
                             THEN n * 10 + (b - 48) ELSE Invalid
  <1>1. CASE n = Invalid \/ b \notin Digits
    BY <1>1 DEF WithDigit
  <1>2. CASE n \in Nat /\ n # Invalid /\ b \in Digits
    <2>1. b - 48 \in Nat /\ SizeMax \in Nat /\ SizeMax \div 10 \in Nat
      BY <1>2, ParserAssumption DEF Digits
    <2>2. n > SizeMax \div 10 => n * 10 > SizeMax
      BY <1>2, <2>1
    <2>3. n * 10 > SizeMax - (b - 48) <=> ~(n * 10 + (b - 48) <= SizeMax)
      BY <1>2, <2>1
    <2>4. n * 10 > SizeMax => ~(n * 10 + (b - 48) <= SizeMax)
      BY <1>2, <2>1
    <2>5. WithDigit(n, b) = IF n > SizeMax \div 10 \/ n * 10 > SizeMax - (b - 48)
                            THEN Invalid ELSE n * 10 + b - 48
      BY <1>2 DEF WithDigit
    <2>6. n * 10 + b - 48 = n * 10 + (b - 48)
      BY <1>2, <2>1 DEF Digits
    <2> QED BY <1>2, <2>2, <2>3, <2>4, <2>5, <2>6
  <1> QED BY <1>1, <1>2

\* parse_request reads a value of any length as the number its digits stand
\* for, and refuses exactly the values that are no number up to SIZE_MAX.
LEMMA LengthExact ==
    ASSUME NEW value \in Seq(1 .. 255)
    PROVE  /\ LengthIn(value) = IF Range(value) \subseteq Digits /\ Decimal(value) <= SizeMax
                                THEN Decimal(value) ELSE Invalid
           /\ Range(value) \subseteq Digits => Decimal(value) \in Nat
  <1> DEFINE L == Len(value)
  <1>1. L \in Nat /\ DOMAIN value = 1 .. L /\ \A i \in 1 .. L : value[i] \in 1 .. 255
    <2> DEFINE B == 1 .. 255
    <2> HIDE DEF B
    <2>1. \A s \in Seq(B) : /\ Len(s) \in Nat /\ DOMAIN s = 1 .. Len(s)
                            /\ \A i \in 1 .. Len(s) : s[i] \in B
      OBVIOUS
    <2> QED BY <2>1 DEF B
  <1>2. PICK n \in [0 .. L -> Nat \cup {Invalid}] :
           /\ n[0] = 0 /\ LengthIn(value) = n[L]
           /\ \A i \in 1 .. L : n[i] = WithDigit(n[i - 1], value[i])
    BY LengthSteps
  <1>3. PICK place \in [0 .. L -> Nat \ {0}], sum \in [0 .. L -> Int] :
           /\ place[0] = 1 /\ \A k \in 1 .. L : place[k] = 10 * place[k - 1]
           /\ sum[0] = 0 /\ Decimal(value) = sum[L]
           /\ \A i \in 1 .. L : sum[i] = sum[i - 1] + (value[i] - 48) * place[L - i]
    BY DecimalSteps
  <1> HIDE DEF L
  <1> DEFINE Clean(i) == \A j \in 1 .. i : value[j] \in Digits
             Right(i) == IF ~Clean(i) THEN n[i] = Invalid
                         ELSE IF n[i] = Invalid THEN sum[i] > SizeMax
                         ELSE n[i] <= SizeMax /\ sum[i] = n[i] * place[L - i]
             Good == {i \in Nat : i <= L => Right(i)}
  <1>4. 0 \in Good
    <2>1. 0 <= SizeMax /\ 0 # Invalid
      BY ParserAssumption DEF Invalid
    <2>2. place[L - 0] \in Nat
      BY <1>1, <1>3
    <2>3. 0 = 0 * place[L - 0]
      BY <2>2
    <2> QED BY <1>2, <1>3, <2>1, <2>3
  <1>5. ASSUME NEW i \in Nat, i \in Good PROVE i + 1 \in Good
    <2> SUFFICES ASSUME i + 1 <= L PROVE Right(i + 1)
      OBVIOUS
    <2>1. i + 1 \in 1 .. L /\ (i + 1) - 1 = i /\ i <= L /\ i \in 0 .. L
      BY <1>1
    <2>2. Right(i)
      BY <1>5, <2>1
    <2> DEFINE b == value[i + 1]
               t == place[L - (i + 1)]
               p == place[L - i]
    <2>3. b \in 1 .. 255 /\ n[i] \in Nat \cup {Invalid}
      BY <1>1, <1>2, <2>1
    <2>4. n[i + 1] = IF n[i] # Invalid /\ b \in Digits /\ n[i] * 10 + (b - 48) <= SizeMax
                     THEN n[i] * 10 + (b - 48) ELSE Invalid
      <3>1. n[i + 1] = WithDigit(n[i], b)
        BY <1>2, <2>1
      <3> HIDE DEF b
      <3> QED BY <2>3, <3>1, WithDigitExact
    <2>5. sum[i + 1] = sum[i] + (b - 48) * t /\ sum[i] \in Int
      BY <1>3, <2>1
    <2>6. t \in Nat /\ t >= 1 /\ p = 10 * t
      <3>1. L - (i + 1) \in 0 .. L /\ L - i \in 1 .. L /\ (L - i) - 1 = L - (i + 1)
        BY <1>1, <2>1
      <3> QED BY <1>3, <3>1
    <2>7. Clean(i + 1) <=> Clean(i) /\ b \in Digits
      <3>1. \A j \in 1 .. i + 1 : j \in 1 .. i \/ j = i + 1
        OBVIOUS
      <3>2. \A j \in 1 .. i : j \in 1 .. i + 1
        OBVIOUS
      <3>3. i + 1 \in 1 .. i + 1
        OBVIOUS
      <3> QED BY <3>1, <3>2, <3>3
    <2>8. SizeMax \in Nat
      BY ParserAssumption
    <2> HIDE DEF Clean, b, t, p
    <2>9. CASE ~Clean(i + 1)
      BY <2>2, <2>4, <2>7, <2>9
    <2>10. CASE Clean(i + 1) /\ n[i] = Invalid
      <3>1. sum[i] > SizeMax /\ b \in Digits /\ n[i + 1] = Invalid
        BY <2>2, <2>4, <2>7, <2>10
      <3>2. b - 48 \in Nat
        BY <2>3, <3>1 DEF Digits
      <3>3. (b - 48) * t \in Nat
        BY <2>6, <3>2
      <3>4. sum[i + 1] > SizeMax
        BY <2>5, <2>8, <3>1, <3>3
      <3> QED BY <2>10, <3>1, <3>4
    <2>11. CASE Clean(i + 1) /\ n[i] # Invalid
      <3>0. n[i] \in Nat
        BY <2>3, <2>11
      <3>1. sum[i] = n[i] * p /\ b \in Digits
        BY <2>2, <2>7, <2>11 DEF p
      <3>2. b - 48 \in Nat
        BY <2>3, <3>1 DEF Digits
      <3>3. PICK x, a, d : x = n[i] * 10 + (b - 48) /\ a = n[i] /\ d = b - 48
        OBVIOUS
      <3>4. x \in Nat /\ a \in Nat /\ d \in Nat /\ x = a * 10 + d
        BY <3>0, <3>2, <3>3
      <3>5. sum[i + 1] = x * t
        <4>1. sum[i + 1] = a * (10 * t) + d * t
          BY <2>5, <2>6, <3>1, <3>3
        <4>2. a * (10 * t) + d * t = (a * 10 + d) * t
          BY <2>6, <3>4
        <4> QED BY <3>4, <4>1, <4>2
      <3>6. CASE x <= SizeMax
        <4>1. n[i + 1] = x /\ x # Invalid
          BY <2>4, <2>11, <3>1, <3>3, <3>4, <3>6 DEF Invalid
        <4> QED BY <2>11, <3>5, <3>6, <4>1 DEF t
      <3>7. CASE ~(x <= SizeMax)
        <4>1. n[i + 1] = Invalid
          BY <2>4, <3>3, <3>7
        <4>2. x * t >= x
          BY <2>6, <3>4
        <4>3. sum[i + 1] > SizeMax
          BY <2>6, <2>8, <3>4, <3>5, <3>7, <4>2
        <4> QED BY <2>11, <4>1, <4>3
      <3> QED BY <3>6, <3>7
    <2> QED BY <2>9, <2>10, <2>11
  <1>6. Right(L)
    <2>1. Nat \subseteq Good
      <3> HIDE DEF Good
      <3> QED BY <1>4, <1>5, Induction
    <2> QED BY <1>1, <2>1
  <1>7. Clean(L) <=> Range(value) \subseteq Digits
    BY <1>1, ZenonT(60) DEF Range
  <1>8. L - L = 0 /\ n[L] \in Nat \cup {Invalid} /\ sum[L] \in Int /\ L \in 0 .. L
    BY <1>1, <1>2, <1>3
  <1> HIDE DEF Clean
  <1>9. CASE ~Clean(L)
    BY <1>2, <1>6, <1>7, <1>9
  <1>10. CASE Clean(L) /\ n[L] = Invalid
    BY <1>2, <1>3, <1>6, <1>7, <1>8, <1>10, ParserAssumption
  <1>11. CASE Clean(L) /\ n[L] # Invalid
    <2>1. sum[L] = n[L] /\ n[L] <= SizeMax
      BY <1>3, <1>6, <1>8, <1>11
    <2>2. n[L] \in Nat
      BY <1>8, <1>11
    <2> QED BY <1>2, <1>3, <1>7, <1>11, <2>1, <2>2
  <1> QED BY <1>9, <1>10, <1>11

\* The body's length that a request has been accepted with, or will be refused
\* for
Lengths ==
    /\ \E t, p, q, b : view = [text |-> t, path |-> p, params |-> q, body |-> b]
    /\ \/ phase = "received" /\ view.body = Invalid
       \/ phase = "done" /\ view.body = Invalid /\ ParseError(req.lengths, req.chunked) # 0
       \/ /\ phase # "received" /\ ParseError(req.lengths, req.chunked) = 0
          /\ view.body = DeclaredLength(req.lengths)

\* Only parse_request changes it.
LEMMA LengthsStep == ASSUME Lengths, [Next]_vars PROVE Lengths'
  <1>1. PICK t, p, q, b : view = [text |-> t, path |-> p, params |-> q, body |-> b]
    BY DEF Lengths
  <1>2. CASE Parse
    <2>1. view' = [text |-> t, path |-> First(t, 1, Len(t), {Question}) - 1, params |-> q,
                   body |-> DeclaredLength(req.lengths)]
      BY <1>1, <1>2 DEF Parse
    <2>2. /\ view'.body = DeclaredLength(req.lengths) /\ req' = req /\ phase' = "parsed"
          /\ ParseError(req.lengths, req.chunked) = 0
      BY <1>2, <2>1 DEF Parse
    <2> QED BY <2>1, <2>2 DEF Lengths
  <1>3. CASE RefuseMessage
    BY <1>3 DEF RefuseMessage, ErrorResponse, given, Lengths
  <1>4. ASSUME view' = view, req' = req, phase # "received", phase' # "received",
               phase = "done" => phase' = "done"
        PROVE  Lengths'
    BY <1>4 DEF Lengths
  <1>5. CASE Refuse \/ RefuseParam \/ AnswerOptions
    BY <1>4, <1>5 DEF Refuse, RefuseParam, AnswerOptions, ErrorResponse, given
  <1>6. CASE EnterChain \/ NotFound
    <2>1. /\ phase = "parsed" /\ phase' # "received" /\ req' = req
          /\ \E u, l, r : view' = [text |-> u, path |-> l, params |-> r, body |-> b]
      <3>1. CASE EnterChain
        <4>1. PICK c : view' = [view EXCEPT !.text = c.text, !.params = c.params, !.path = c.len]
          BY <3>1 DEF EnterChain
        <4>2. view' = [text |-> c.text, path |-> c.len, params |-> c.params, body |-> b]
          BY <1>1, <4>1
        <4> QED BY <3>1, <4>2 DEF EnterChain
      <3>2. CASE NotFound
        <4>1. view' = view \/ view' = [view EXCEPT !.text = Normalized.text, !.path = Normalized.len]
          BY <3>2 DEF NotFound
        <4>2. \E u, l : view' = [text |-> u, path |-> l, params |-> q, body |-> b]
          <5>1. CASE view' = view
            BY <1>1, <5>1
          <5>2. CASE view' = [view EXCEPT !.text = Normalized.text, !.path = Normalized.len]
            BY <1>1, <5>2
          <5> QED BY <4>1, <5>1, <5>2
        <4> QED BY <3>2, <4>2 DEF NotFound, ErrorResponse
      <3> QED BY <1>6, <3>1, <3>2
    <2>2. PICK u, l, r : view' = [text |-> u, path |-> l, params |-> r, body |-> b]
      BY <2>1
    <2>3. view'.body = view.body
      BY <1>1, <2>2
    <2> QED BY <2>1, <2>2, <2>3 DEF Lengths
  <1>7. CASE CallNext \/ SetHeader \/ NoContent \/ Redirect \/ Return \/ Fail \/ Escape
    BY <1>4, <1>7 DEF CallNext, SetHeader, NoContent, Redirect, Return, Fail, Escape, ErrorResponse,
                      Change, Active, given
  <1>8. ASSUME NEW code, SetStatus(code) PROVE Lengths'
    BY <1>4, <1>8 DEF SetStatus, Change, Active, given
  <1>9. ASSUME NEW body, Send(body) \/ SendPrebuilt(body) PROVE Lengths'
    BY <1>4, <1>9 DEF Send, SendPrebuilt, Change, Active, given
  <1>10. ASSUME NEW k, Caught(k) PROVE Lengths'
    BY <1>4, <1>10 DEF Caught, Active, given
  <1>11. CASE UNCHANGED vars
    BY <1>11 DEF vars, Lengths
  <1> QED BY <1>2, <1>3, <1>5, <1>6, <1>7, <1>8, <1>9, <1>10, <1>11 DEF Next

\* parse_request decides by what the headers say.
LEMMA LengthsDeclared == ASSUME req \in Requests, Lengths PROVE LengthIsDeclared
  <1> DEFINE ls         == req.lengths
             values     == Range(ls)
             declared   == {Decimal(value) : value \in values}
             acceptable == /\ ~req.chunked
                           /\ \A value \in values : Range(value) \subseteq Digits
                           /\ \A m, n \in declared : m = n
                           /\ \A n \in declared : n <= SizeMax /\ (MaxBody > 0 => n <= MaxBody)
  <1>1. /\ Len(ls) \in Nat /\ DOMAIN ls = 1 .. Len(ls) /\ ls \in Seq(Seq(1 .. 255))
        /\ \A i \in 1 .. Len(ls) : ls[i] \in Seq(1 .. 255)
        /\ values = {ls[i] : i \in 1 .. Len(ls)}
        /\ req.chunked \in BOOLEAN
    <2> DEFINE W == Seq(1 .. 255)
    <2>1. req.lengths \in Seq(W) /\ req.chunked \in BOOLEAN
      BY DEF Requests
    <2> HIDE DEF W
    <2>2. \A s \in Seq(W) : /\ Len(s) \in Nat /\ DOMAIN s = 1 .. Len(s)
                            /\ \A i \in 1 .. Len(s) : s[i] \in W
      OBVIOUS
    <2> QED BY <2>1, <2>2 DEF W, Range
  <1>2. ASSUME NEW i \in 1 .. Len(ls)
        PROVE  /\ LengthIn(ls[i]) = IF Range(ls[i]) \subseteq Digits /\ Decimal(ls[i]) <= SizeMax
                                    THEN Decimal(ls[i]) ELSE Invalid
               /\ Range(ls[i]) \subseteq Digits => Decimal(ls[i]) \in Nat /\ Decimal(ls[i]) # Invalid
               /\ ls[i] \in values /\ Decimal(ls[i]) \in declared
    <2>1. \A d \in Nat : d # Invalid
      BY DEF Invalid
    <2>2. ls[i] \in values /\ Decimal(ls[i]) \in declared
      BY <1>1
    <2>3. ls[i] \in Seq(1 .. 255)
      BY <1>1
    <2> QED BY <2>1, <2>2, <2>3, LengthExact
  <1>3. ASSUME ls = << >>
        PROVE  declared = {} /\ values = {} /\ DeclaredLength(ls) = 0
    <2>1. Len(ls) = 0
      BY <1>3
    <2>2. values = {}
      BY <1>1, <2>1
    <2> QED BY <1>3, <2>2 DEF DeclaredLength
  <1>4. ls # << >> => 1 \in 1 .. Len(ls)
    BY <1>1
  <1>5. ASSUME acceptable
        PROVE  /\ DeclaredLength(ls) \in Nat /\ DeclaredLength(ls) # Invalid
               /\ MaxBody > 0 => DeclaredLength(ls) <= MaxBody
    <2>1. CASE ls = << >>
      BY <1>3, <2>1, ParserAssumption DEF Invalid
    <2>2. CASE ls # << >>
      <3>1. \A i \in 1 .. Len(ls) : Range(ls[i]) \subseteq Digits /\ Decimal(ls[i]) <= SizeMax
        BY <1>2, <1>5
      <3>2. \A i \in 1 .. Len(ls) : LengthIn(ls[i]) = Decimal(ls[i])
        BY <1>2, <3>1
      <3>3. \A i \in 1 .. Len(ls) : Decimal(ls[i]) = Decimal(ls[1])
        BY <1>2, <1>4, <1>5, <2>2
      <3>4. DeclaredLength(ls) = Decimal(ls[1])
        BY <1>4, <2>2, <3>2, <3>3 DEF DeclaredLength
      <3>5. /\ Decimal(ls[1]) \in Nat /\ Decimal(ls[1]) # Invalid
            /\ MaxBody > 0 => Decimal(ls[1]) <= MaxBody
        BY <1>2, <1>4, <1>5, <2>2, <3>1
      <3> QED BY <3>4, <3>5
    <2> QED BY <2>1, <2>2
  <1>6. ASSUME acceptable PROVE ParseError(ls, req.chunked) = 0
    <2>1. ~(MaxBody > 0 /\ DeclaredLength(ls) > MaxBody)
      BY <1>5, <1>6, ParserAssumption
    <2> QED BY <1>5, <1>6, <2>1 DEF ParseError
  <1>7. ASSUME ParseError(ls, req.chunked) = 0
        PROVE  /\ acceptable /\ DeclaredLength(ls) # Invalid
               /\ declared \subseteq {DeclaredLength(ls)} /\ (declared = {} => DeclaredLength(ls) = 0)
    <2>1. ~req.chunked /\ DeclaredLength(ls) # Invalid /\ ~(MaxBody > 0 /\ DeclaredLength(ls) > MaxBody)
      BY <1>1, <1>7 DEF ParseError
    <2>2. CASE ls = << >>
      BY <1>3, <2>1, <2>2
    <2>3. CASE ls # << >>
      <3>1. \A i \in 1 .. Len(ls) : LengthIn(ls[i]) = DeclaredLength(ls)
        BY <2>1, <2>3 DEF DeclaredLength
      <3>2. \A i \in 1 .. Len(ls) : /\ Range(ls[i]) \subseteq Digits
                                    /\ Decimal(ls[i]) = DeclaredLength(ls)
                                    /\ Decimal(ls[i]) <= SizeMax /\ Decimal(ls[i]) \in Nat
        BY <1>2, <2>1, <3>1
      <3>3. declared = {DeclaredLength(ls)}
        <4>1. \A d \in declared : d = DeclaredLength(ls)
          BY <1>1, <3>2
        <4>2. Decimal(ls[1]) \in declared
          BY <1>2, <1>4, <2>3
        <4> QED BY <4>1, <4>2
      <3>4. /\ DeclaredLength(ls) \in Nat /\ DeclaredLength(ls) <= SizeMax
            /\ MaxBody > 0 => DeclaredLength(ls) <= MaxBody
        BY <1>4, <2>1, <2>3, <3>2, ParserAssumption
      <3>5. \A value \in values : Range(value) \subseteq Digits
        BY <1>1, <3>2
      <3> HIDE DEF values
      <3> QED BY <2>1, <3>3, <3>4, <3>5
    <2> QED BY <2>2, <2>3
  <1>8. \/ view.body = Invalid /\ phase # "done"
        \/ view.body = Invalid /\ ~acceptable
        \/ /\ view.body # Invalid /\ acceptable
           /\ declared \subseteq {view.body} /\ (declared = {} => view.body = 0)
    <2>1. CASE phase = "received" /\ view.body = Invalid
      BY <2>1
    <2>2. CASE view.body = Invalid /\ ParseError(ls, req.chunked) # 0
      BY <1>6, <2>2
    <2>3. CASE ParseError(ls, req.chunked) = 0 /\ view.body = DeclaredLength(ls)
      BY <1>7, <2>3
    <2> QED BY <2>1, <2>2, <2>3 DEF Lengths
  <1> QED BY <1>8, Zenon DEF LengthIsDeclared

\* A request is accepted with exactly the length that each of its Content-Length
\* headers says, whatever headers it has and of whatever length, and refused
\* only for what is wrong with them (the digits and overflow tests of
\* parse_request).
THEOREM LengthAlwaysDeclared == Spec => []LengthIsDeclared
  <1>1. Init => Lengths
    <2> SUFFICES ASSUME Init PROVE Lengths
      OBVIOUS
    <2>1. view = [text |-> req.target, path |-> 0, params |-> << >>, body |-> Invalid]
          /\ phase = "received"
      BY DEF Init
    <2>2. view.body = Invalid
      BY <2>1
    <2> QED BY <2>1, <2>2 DEF Lengths
  <1>2. IInv /\ Lengths => LengthIsDeclared
    BY LengthsDeclared DEF IInv, Typed
  <1> QED BY <1>1, <1>2, LengthsStep, Invariance, PTL DEF Spec

-----------------------------------------------------------------------------
(* Bytes of a string                                                       *)

LEMMA LeastOf ==
    ASSUME NEW T, T \subseteq Nat, T # {}
    PROVE  Min(T) \in T /\ \A y \in T : Min(T) <= y
  <1> DEFINE Less == OpToRel(LAMBDA x, y : x < y, Nat)
  <1>1. PICK n \in T : \A m \in T : <<m, n>> \notin Less
    <2>1. IsWellFoundedOn(Less, Nat)
      BY NatLessThanWellFounded
    <2> HIDE DEF Less
    <2> QED BY <2>1, WFMin
  <1>2. \A m \in T : n <= m
    <2>1. ASSUME NEW m \in T PROVE ~(m < n)
      <3>1. m \in Nat /\ n \in Nat /\ <<m, n>> \notin Less
        BY <1>1
      <3> QED BY <3>1 DEF OpToRel
    <2>2. \A m \in T : m \in Nat /\ n \in Nat
      OBVIOUS
    <2> QED BY <2>1, <2>2
  <1> HIDE DEF Less
  <1> QED BY <1>1, <1>2 DEF Min

LEMMA GreatestOf ==
    ASSUME NEW n \in Nat, NEW T, T \subseteq 0 .. n, T # {}
    PROVE  Max(T) \in T /\ \A y \in T : y <= Max(T)
  <1> DEFINE D == {n - t : t \in T}
  <1>1. D \subseteq Nat /\ D # {}
    <2>1. \A t \in 0 .. n : n - t \in Nat
      OBVIOUS
    <2>2. \A t \in T : n - t \in Nat
      BY <2>1
    <2> QED BY <2>2
  <1>2. Min(D) \in D /\ \A y \in D : Min(D) <= y
    <2> HIDE DEF D
    <2> QED BY <1>1, LeastOf
  <1>3. PICK t \in T : Min(D) = n - t
    BY <1>2
  <1>4. \A y \in T : y <= t
    <2> TAKE y \in T
    <2>1. n - y \in D
      OBVIOUS
    <2>2. n - t <= n - y
      BY <1>2, <1>3, <2>1
    <2>3. y \in Nat /\ t \in Nat
      OBVIOUS
    <2> QED BY <2>2, <2>3
  <1>5. \A y \in T : t >= y
    <2>1. \A y \in T : y \in Nat /\ t \in Nat
      OBVIOUS
    <2> QED BY <1>4, <2>1
  <1>6. \A x \in T : (\A y \in T : x >= y) => x = t
    <2> TAKE x \in T
    <2> HAVE \A y \in T : x >= y
    <2>1. x >= t /\ x <= t /\ x \in Nat /\ t \in Nat
      BY <1>4
    <2> QED BY <2>1
  <1> QED BY <1>4, <1>5, <1>6 DEF Max

\* First is the first, and there is none before it.
LEMMA FirstOf ==
    ASSUME NEW s, NEW S, NEW from \in Nat, NEW to \in Nat, from <= to + 1
    PROVE  LET n == First(s, from, to, S)
           IN  /\ n \in from .. to + 1
               /\ \A i \in from .. n - 1 : s[i] \notin S
               /\ n <= to => s[n] \in S
  <1> DEFINE T == {i \in from .. to : s[i] \in S} \cup {to + 1}
             n == Min(T)
  <1>1. T \subseteq Nat /\ T # {}
    OBVIOUS
  <1>2. n \in T /\ \A y \in T : n <= y
    <2> HIDE DEF T
    <2> QED BY <1>1, LeastOf
  <1>3. \A i \in from .. n - 1 : i \in T => FALSE
    <2> TAKE i \in from .. n - 1
    <2>1. n \in Nat
      BY <1>1, <1>2
    <2> HIDE DEF n, T
    <2> QED BY <1>2, <2>1
  <1>4. n \in from .. to + 1 /\ (n <= to => s[n] \in S)
    <2> HIDE DEF n
    <2> QED BY <1>2
  <1>5. First(s, from, to, S) = n
    BY DEF First
  <1> HIDE DEF n
  <1> QED BY <1>3, <1>4, <1>5

\* What First is depends on the bytes it looks at only.
LEMMA FirstSame ==
    ASSUME NEW s, NEW t, NEW S, NEW from \in Nat, NEW to \in Nat,
           \A i \in from .. to : s[i] = t[i]
    PROVE  First(s, from, to, S) = First(t, from, to, S)
  <1>1. {i \in from .. to : s[i] \in S} = {i \in from .. to : t[i] \in S}
    OBVIOUS
  <1> QED BY <1>1 DEF First

-----------------------------------------------------------------------------
(* Names that stay and names that are taken back                           *)

\* The names that are kept of the first e bytes of a path
KeptIn(path, e) ==
    {k \in Names(path) : k <= e /\ \A j \in k + 1 .. e : ~Sinks(path, k + 1, j)}

\* Those bytes do not leave the root, and behind each name that is kept, as
\* behind the beginning, as many names are kept as there are more names than "..".
Balanced(path, e) ==
    /\ \A j \in 1 .. e : ~Sinks(path, 1, j)
    /\ \A k \in KeptIn(path, e) \cup {0} :
          Cardinality(Ups(path) \cap (k + 1 .. e)) + Cardinality(KeptIn(path, e) \cap (k + 1 .. e))
              = Cardinality(Names(path) \cap (k + 1 .. e))

\* q is the only element that S can have in e + 1 .. f
Only(S, e, q, f) == S \cap (e + 1 .. f) \subseteq {q}

\* What a number adds to the count of a set.
LEMMA Counts ==
    ASSUME NEW S, NEW e \in Nat, NEW q \in Nat, NEW f \in Nat, e < q, q <= f,
           Only(S, e, q, f), NEW i \in 1 .. e + 1, NEW j \in e .. f
    PROVE  /\ Cardinality(S \cap (i .. e)) \in Nat
           /\ Cardinality(S \cap (i .. j))
                = Cardinality(S \cap (i .. e)) + (IF q \in S /\ q <= j THEN 1 ELSE 0)
  <1>1. IsFiniteSet(S \cap (i .. e)) /\ Cardinality(S \cap (i .. e)) \in Nat
    <2>1. IsFiniteSet(i .. e)
      BY FS_Interval
    <2>2. IsFiniteSet(S \cap (i .. e))
      BY <2>1, FS_Subset
    <2> QED BY <2>2, FS_CardinalityType
  <1>2. CASE q \in S /\ q <= j
    <2>1. S \cap (i .. j) = (S \cap (i .. e)) \cup {q}
      BY <1>2 DEF Only
    <2>2. q \notin S \cap (i .. e)
      OBVIOUS
    <2>3. Cardinality((S \cap (i .. e)) \cup {q}) = Cardinality(S \cap (i .. e)) + 1
      BY <1>1, <2>2, FS_AddElement
    <2> QED BY <1>1, <1>2, <2>1, <2>3
  <1>3. CASE ~(q \in S /\ q <= j)
    <2>1. S \cap (i .. j) = S \cap (i .. e)
      BY <1>3 DEF Only
    <2> QED BY <1>1, <1>3, <2>1
  <1> QED BY <1>2, <1>3

LEMMA CountEmpty ==
    ASSUME NEW S, NEW i, NEW j, S \cap (i .. j) = {}
    PROVE  Cardinality(S \cap (i .. j)) = 0
  BY FS_EmptySet

\* A segment that is no ".." keeps the names before it, and itself if it is a name.
LEMMA KeepsOn ==
    ASSUME NEW path, NEW e \in Nat, NEW q \in Nat, NEW f \in Nat, e < q, q <= f,
           Names(path) \subseteq Nat,
           Only(Names(path), e, q, f), Ups(path) \cap (e + 1 .. f) = {},
           Balanced(path, e)
    PROVE  Balanced(path, f) /\ KeptIn(path, f) = KeptIn(path, e) \cup (Names(path) \cap {q})
  <1> DEFINE N == Names(path)
             U == Ups(path)
             K == KeptIn(path, e)
             L == K \cup (N \cap {q})
  <1>0. K \subseteq N /\ K \subseteq 1 .. e \cup {0}
    BY DEF KeptIn
  <1>1. ASSUME NEW k \in K \cup {0}, NEW j \in e .. f
        PROVE  /\ Cardinality(U \cap (k + 1 .. e)) \in Nat
               /\ Cardinality(N \cap (k + 1 .. e)) \in Nat
               /\ Cardinality(K \cap (k + 1 .. e)) \in Nat
               /\ Cardinality(U \cap (k + 1 .. e)) + Cardinality(K \cap (k + 1 .. e))
                    = Cardinality(N \cap (k + 1 .. e))
               /\ Cardinality(U \cap (k + 1 .. j)) = Cardinality(U \cap (k + 1 .. e))
               /\ Cardinality(N \cap (k + 1 .. j))
                    = Cardinality(N \cap (k + 1 .. e)) + (IF q \in N /\ q <= j THEN 1 ELSE 0)
               /\ Cardinality(L \cap (k + 1 .. j))
                    = Cardinality(K \cap (k + 1 .. e)) + (IF q \in N /\ q <= j THEN 1 ELSE 0)
    <2>1. k + 1 \in 1 .. e + 1
      BY <1>0
    <2>2. /\ Cardinality(N \cap (k + 1 .. e)) \in Nat
          /\ Cardinality(N \cap (k + 1 .. j))
               = Cardinality(N \cap (k + 1 .. e)) + (IF q \in N /\ q <= j THEN 1 ELSE 0)
      <3>1. Only(N, e, q, f)
        OBVIOUS
      <3> HIDE DEF N
      <3> QED BY <2>1, <3>1, Counts
    <2>3. /\ Cardinality(U \cap (k + 1 .. e)) \in Nat
          /\ Cardinality(U \cap (k + 1 .. j))
               = Cardinality(U \cap (k + 1 .. e)) + (IF q \in U /\ q <= j THEN 1 ELSE 0)
      <3>1. Only(U, e, q, f)
        BY DEF Only
      <3> HIDE DEF U
      <3> QED BY <2>1, <3>1, Counts
    <2>4. q \notin U
      OBVIOUS
    <2>5. /\ Cardinality(L \cap (k + 1 .. e)) \in Nat
          /\ Cardinality(L \cap (k + 1 .. j))
               = Cardinality(L \cap (k + 1 .. e)) + (IF q \in L /\ q <= j THEN 1 ELSE 0)
      <3>1. Only(L, e, q, f)
        BY <1>0 DEF Only
      <3> HIDE DEF L
      <3> QED BY <2>1, <3>1, Counts
    <2>6. L \cap (k + 1 .. e) = K \cap (k + 1 .. e) /\ (q \in L <=> q \in N)
      BY <1>0
    <2>7. Cardinality(U \cap (k + 1 .. e)) + Cardinality(K \cap (k + 1 .. e))
                    = Cardinality(N \cap (k + 1 .. e))
      BY Zenon DEF Balanced
    <2> HIDE DEF U, N, K, L
    <2> QED BY <2>2, <2>3, <2>4, <2>5, <2>6, <2>7
  <1>2. ASSUME NEW k \in K \cup {0}, NEW j \in e .. f PROVE ~Sinks(path, k + 1, j)
    <2>1. /\ Cardinality(U \cap (k + 1 .. e)) \in Nat
          /\ Cardinality(K \cap (k + 1 .. e)) \in Nat
          /\ Cardinality(U \cap (k + 1 .. e)) + Cardinality(K \cap (k + 1 .. e))
               = Cardinality(N \cap (k + 1 .. e))
          /\ Cardinality(U \cap (k + 1 .. j)) = Cardinality(U \cap (k + 1 .. e))
          /\ Cardinality(N \cap (k + 1 .. j))
               = Cardinality(N \cap (k + 1 .. e)) + (IF q \in N /\ q <= j THEN 1 ELSE 0)
      BY <1>1
    <2>2. ~(Cardinality(U \cap (k + 1 .. j)) > Cardinality(N \cap (k + 1 .. j)))
      <3> HIDE DEF U, N, K
      <3> QED BY <2>1
    <2> QED BY <2>2 DEF Sinks
  <1>3. KeptIn(path, f) = L
    <2>1. ASSUME NEW k \in L PROVE k \in KeptIn(path, f)
      <3>1. CASE k \in K
        <4>1. ASSUME NEW j \in k + 1 .. f PROVE ~Sinks(path, k + 1, j)
          <5>1. k \in Nat /\ (j \in k + 1 .. e \/ j \in e .. f)
            BY <1>0, <3>1
          <5>2. CASE j \in k + 1 .. e
            BY <3>1, <5>2 DEF KeptIn
          <5>3. CASE j \in e .. f
            BY <1>2, <3>1, <5>3
          <5> QED BY <5>1, <5>2, <5>3
        <4>2. k \in N /\ k <= f
          BY <1>0, <3>1
        <4> QED BY <4>1, <4>2 DEF KeptIn
      <3>2. CASE k = q /\ q \in N
        <4>1. ASSUME NEW j \in q + 1 .. f PROVE ~Sinks(path, q + 1, j)
          <5>1. U \cap (q + 1 .. j) = {} /\ N \cap (q + 1 .. j) = {}
            BY DEF Only
          <5>2. Cardinality(U \cap (q + 1 .. j)) = 0 /\ Cardinality(N \cap (q + 1 .. j)) = 0
            BY <5>1, CountEmpty
          <5> QED BY <5>2 DEF Sinks
        <4> QED BY <3>2, <4>1 DEF KeptIn
      <3> QED BY <3>1, <3>2
    <2>2. ASSUME NEW k \in KeptIn(path, f) PROVE k \in L
      <3>1. k \in N /\ k \in Nat /\ k <= f /\ \A j \in k + 1 .. f : ~Sinks(path, k + 1, j)
        BY DEF KeptIn
      <3>2. CASE k <= e
        <4>1. \A j \in k + 1 .. e : j \in k + 1 .. f
          BY <3>1
        <4> QED BY <3>1, <3>2, <4>1 DEF KeptIn
      <3>3. CASE ~(k <= e)
        BY <3>1, <3>3 DEF Only
      <3> QED BY <3>2, <3>3
    <2> QED BY <2>1, <2>2
  <1>4. Balanced(path, f)
    <2>1. ASSUME NEW j \in 1 .. f PROVE ~Sinks(path, 1, j)
      <3>1. j \in 1 .. e \/ j \in e .. f
        OBVIOUS
      <3>2. j \in e .. f => ~Sinks(path, 0 + 1, j)
        BY <1>2
      <3> QED BY <3>1, <3>2 DEF Balanced
    <2>2. ASSUME NEW k \in L \cup {0}
          PROVE  Cardinality(U \cap (k + 1 .. f)) + Cardinality(L \cap (k + 1 .. f))
                   = Cardinality(N \cap (k + 1 .. f))
      <3>1. CASE k \in K \cup {0}
        <4>1. /\ Cardinality(U \cap (k + 1 .. e)) \in Nat
              /\ Cardinality(K \cap (k + 1 .. e)) \in Nat
              /\ Cardinality(U \cap (k + 1 .. e)) + Cardinality(K \cap (k + 1 .. e))
                   = Cardinality(N \cap (k + 1 .. e))
              /\ Cardinality(U \cap (k + 1 .. f)) = Cardinality(U \cap (k + 1 .. e))
              /\ Cardinality(N \cap (k + 1 .. f))
                   = Cardinality(N \cap (k + 1 .. e)) + (IF q \in N /\ q <= f THEN 1 ELSE 0)
              /\ Cardinality(L \cap (k + 1 .. f))
                   = Cardinality(K \cap (k + 1 .. e)) + (IF q \in N /\ q <= f THEN 1 ELSE 0)
          <5>1. f \in e .. f
            OBVIOUS
          <5> HIDE DEF K, L, U, N
          <5> QED BY <1>1, <3>1, <5>1
        <4> HIDE DEF K, L, U, N
        <4> QED BY <4>1
      <3>2. CASE k = q
        <4>1. U \cap (q + 1 .. f) = {} /\ N \cap (q + 1 .. f) = {} /\ L \cap (q + 1 .. f) = {}
          BY <1>0 DEF Only
        <4>2. /\ Cardinality(U \cap (q + 1 .. f)) = 0 /\ Cardinality(N \cap (q + 1 .. f)) = 0
              /\ Cardinality(L \cap (q + 1 .. f)) = 0
          <5> HIDE DEF U, N, L
          <5> QED BY <4>1, CountEmpty
        <4> QED BY <3>2, <4>2
      <3> QED BY <3>1, <3>2
    <2> HIDE DEF L, N, U
    <2> QED BY <1>3, <2>1, <2>2 DEF Balanced, L, N, U
  <1> QED BY <1>3, <1>4

\* A ".." takes back the last name that was kept, or leaves the root.
LEMMA TakesBack ==
    ASSUME NEW path, NEW e \in Nat, NEW q \in Nat, NEW f \in Nat, e < q, q <= f,
           Names(path) \subseteq Nat,
           Only(Ups(path), e, q, f), q \in Ups(path), Names(path) \cap (e + 1 .. f) = {},
           Balanced(path, e)
    PROVE  /\ KeptIn(path, e) = {} => Sinks(path, 1, q)
           /\ \A m \in KeptIn(path, e) : (\A k \in KeptIn(path, e) : k <= m) =>
                 Balanced(path, f) /\ KeptIn(path, f) = KeptIn(path, e) \ {m}
  <1> DEFINE N == Names(path)
             U == Ups(path)
             K == KeptIn(path, e)
  <1>0. K \subseteq N /\ K \subseteq 1 .. e \cup {0}
    BY DEF KeptIn
  <1>1. ASSUME NEW k \in K \cup {0}, NEW j \in e .. f
        PROVE  /\ Cardinality(K \cap (k + 1 .. e)) \in Nat
               /\ Cardinality(U \cap (k + 1 .. e)) \in Nat
               /\ Cardinality(U \cap (k + 1 .. e)) + Cardinality(K \cap (k + 1 .. e))
                    = Cardinality(N \cap (k + 1 .. e))
               /\ Cardinality(U \cap (k + 1 .. j))
                    = Cardinality(U \cap (k + 1 .. e)) + (IF q <= j THEN 1 ELSE 0)
               /\ Cardinality(N \cap (k + 1 .. j)) = Cardinality(N \cap (k + 1 .. e))
    <2>1. k + 1 \in 1 .. e + 1
      BY <1>0
    <2>2. N \cap (k + 1 .. j) = N \cap (k + 1 .. e)
      OBVIOUS
    <2>3. /\ Cardinality(U \cap (k + 1 .. e)) \in Nat
          /\ Cardinality(U \cap (k + 1 .. j))
               = Cardinality(U \cap (k + 1 .. e)) + (IF q \in U /\ q <= j THEN 1 ELSE 0)
      <3>1. Only(U, e, q, f)
        OBVIOUS
      <3> HIDE DEF U
      <3> QED BY <2>1, <3>1, Counts
    <2>4. Cardinality(K \cap (k + 1 .. e)) \in Nat
      <3>1. Only(K, e, q, f)
        BY <1>0 DEF Only
      <3> HIDE DEF K
      <3> QED BY <2>1, <3>1, Counts
    <2>5. Cardinality(U \cap (k + 1 .. e)) + Cardinality(K \cap (k + 1 .. e))
                    = Cardinality(N \cap (k + 1 .. e))
      BY Zenon DEF Balanced
    <2>6. q \in U
      OBVIOUS
    <2> HIDE DEF U, N, K
    <2> QED BY <2>2, <2>3, <2>4, <2>5, <2>6
  <1>2. ASSUME NEW k \in K \cup {0}, NEW j \in e .. f
        PROVE  Sinks(path, k + 1, j) <=> q <= j /\ Cardinality(K \cap (k + 1 .. e)) = 0
    <2>1. Cardinality(U \cap (k + 1 .. j)) > Cardinality(N \cap (k + 1 .. j))
            <=> q <= j /\ Cardinality(K \cap (k + 1 .. e)) = 0
      <3>1. /\ Cardinality(K \cap (k + 1 .. e)) \in Nat
            /\ Cardinality(U \cap (k + 1 .. e)) \in Nat
            /\ Cardinality(U \cap (k + 1 .. e)) + Cardinality(K \cap (k + 1 .. e))
                 = Cardinality(N \cap (k + 1 .. e))
            /\ Cardinality(U \cap (k + 1 .. j))
                 = Cardinality(U \cap (k + 1 .. e)) + (IF q <= j THEN 1 ELSE 0)
            /\ Cardinality(N \cap (k + 1 .. j)) = Cardinality(N \cap (k + 1 .. e))
        BY <1>1
      <3> HIDE DEF U, N, K
      <3> QED BY <3>1
    <2> QED BY <2>1 DEF Sinks
  <1>3. K = {} => Sinks(path, 1, q)
    <2> SUFFICES ASSUME K = {} PROVE Sinks(path, 0 + 1, q)
      OBVIOUS
    <2>1. Cardinality(K \cap (0 + 1 .. e)) = 0
      <3>1. K \cap (0 + 1 .. e) = {}
        OBVIOUS
      <3> HIDE DEF K
      <3> QED BY <3>1, CountEmpty
    <2>2. q \in e .. f /\ q <= q
      OBVIOUS
    <2> HIDE DEF K
    <2> QED BY <1>2, <2>1, <2>2
  <1>4. ASSUME NEW m \in K, \A k \in K : k <= m
        PROVE  Balanced(path, f) /\ KeptIn(path, f) = K \ {m}
    <2>0. m \in Nat /\ m <= e
      BY <1>0
    <2>1. ASSUME NEW k \in K \cup {0}
          PROVE  IF k = m THEN Cardinality(K \cap (k + 1 .. e)) = 0
                 ELSE /\ Cardinality((K \ {m}) \cap (k + 1 .. f))
                           = Cardinality(K \cap (k + 1 .. e)) - 1
                      /\ Cardinality(K \cap (k + 1 .. e)) # 0
      <3>0. k \in Nat
        BY <1>0
      <3>1. CASE k = m
        <4>1. K \cap (k + 1 .. e) = {}
          BY <1>0, <1>4, <3>1
        <4> HIDE DEF K
        <4> QED BY <3>1, <4>1, CountEmpty
      <3>2. CASE k # m
        <4>1. k < m /\ m \in K \cap (k + 1 .. e)
          BY <1>0, <1>4, <2>0, <3>0, <3>2
        <4>2. IsFiniteSet(K \cap (k + 1 .. e))
          <5>1. IsFiniteSet(k + 1 .. e)
            BY <3>0, FS_Interval
          <5> HIDE DEF K
          <5> QED BY <5>1, FS_Subset
        <4>3. (K \ {m}) \cap (k + 1 .. f) = (K \cap (k + 1 .. e)) \ {m}
          BY <1>0
        <4>4. Cardinality((K \cap (k + 1 .. e)) \ {m}) = Cardinality(K \cap (k + 1 .. e)) - 1
          <5> HIDE DEF K
          <5> QED BY <4>1, <4>2, FS_RemoveElement
        <4>5. Cardinality(K \cap (k + 1 .. e)) # 0
          <5> HIDE DEF K
          <5> QED BY <4>1, <4>2, FS_EmptySet
        <4> HIDE DEF K
        <4> QED BY <3>2, <4>3, <4>4, <4>5
      <3> QED BY <3>1, <3>2
    <2>2. ASSUME NEW k \in K \cup {0}, k # m, NEW j \in e .. f PROVE ~Sinks(path, k + 1, j)
      <3>1. Cardinality(K \cap (k + 1 .. e)) # 0
        <4> HIDE DEF K
        <4> QED BY <2>1, <2>2
      <3> HIDE DEF K
      <3> QED BY <1>2, <3>1
    <2>3. Sinks(path, m + 1, q)
      <3>1. Cardinality(K \cap (m + 1 .. e)) = 0
        <4> HIDE DEF K
        <4> QED BY <2>1
      <3>2. q \in e .. f /\ q <= q
        OBVIOUS
      <3> HIDE DEF K
      <3> QED BY <1>2, <3>1, <3>2
    <2>4. KeptIn(path, f) = K \ {m}
      <3>1. ASSUME NEW k \in K \ {m} PROVE k \in KeptIn(path, f)
        <4>1. ASSUME NEW j \in k + 1 .. f PROVE ~Sinks(path, k + 1, j)
          <5>1. k \in Nat /\ (j \in k + 1 .. e \/ j \in e .. f)
            BY <1>0
          <5>2. CASE j \in k + 1 .. e
            BY <5>2 DEF KeptIn
          <5>3. CASE j \in e .. f
            BY <2>2, <5>3
          <5> QED BY <5>1, <5>2, <5>3
        <4>2. k \in N /\ k <= f
          BY <1>0
        <4> QED BY <4>1, <4>2 DEF KeptIn
      <3>2. ASSUME NEW k \in KeptIn(path, f) PROVE k \in K \ {m}
        <4>1. k \in N /\ k \in Nat /\ k <= f /\ \A j \in k + 1 .. f : ~Sinks(path, k + 1, j)
          BY DEF KeptIn
        <4>2. k <= e
          BY <4>1
        <4>3. \A j \in k + 1 .. e : j \in k + 1 .. f
          BY <4>1
        <4>4. k \in K
          BY <4>1, <4>2, <4>3 DEF KeptIn
        <4>5. k # m
          <5>1. q \in m + 1 .. f
            BY <2>0
          <5> QED BY <2>3, <4>1, <5>1
        <4> QED BY <4>4, <4>5
      <3> QED BY <3>1, <3>2
    <2>5. ASSUME NEW j \in 1 .. f PROVE ~Sinks(path, 1, j)
      <3>1. j \in 1 .. e \/ j \in e .. f
        OBVIOUS
      <3>2. j \in e .. f => ~Sinks(path, 0 + 1, j)
        <4>1. CASE m # 0
          BY <2>2, <4>1
        <4>2. CASE m = 0
          BY <1>0, <4>2 DEF KeptIn, Names, Begins
        <4> QED BY <4>1, <4>2
      <3> QED BY <3>1, <3>2 DEF Balanced
    <2>6. ASSUME NEW k \in (K \ {m}) \cup {0}
          PROVE  Cardinality(U \cap (k + 1 .. f)) + Cardinality((K \ {m}) \cap (k + 1 .. f))
                   = Cardinality(N \cap (k + 1 .. f))
      <3>1. k # m /\ k \in K \cup {0}
        <4>1. 0 \notin K
          BY DEF KeptIn, Names, Begins
        <4> QED BY <4>1
      <3>2. Cardinality((K \ {m}) \cap (k + 1 .. f)) = Cardinality(K \cap (k + 1 .. e)) - 1
        <4> HIDE DEF K
        <4> QED BY <2>1, <3>1
      <3>3. /\ Cardinality(K \cap (k + 1 .. e)) \in Nat
            /\ Cardinality(U \cap (k + 1 .. e)) \in Nat
            /\ Cardinality(U \cap (k + 1 .. e)) + Cardinality(K \cap (k + 1 .. e))
                 = Cardinality(N \cap (k + 1 .. e))
            /\ Cardinality(U \cap (k + 1 .. f))
                 = Cardinality(U \cap (k + 1 .. e)) + (IF q <= f THEN 1 ELSE 0)
            /\ Cardinality(N \cap (k + 1 .. f)) = Cardinality(N \cap (k + 1 .. e))
        <4>1. f \in e .. f
          OBVIOUS
        <4> HIDE DEF K, U, N
        <4> QED BY <1>1, <3>1, <4>1
      <3> HIDE DEF K, U, N
      <3> QED BY <3>2, <3>3
    <2> HIDE DEF K, N, U
    <2> QED BY <2>4, <2>5, <2>6 DEF Balanced, K, N, U
  <1> QED BY <1>3, <1>4

-----------------------------------------------------------------------------
(* Segments put together                                                   *)

\* A segment is a string of bytes of the path, none of them a slash.
LEMMA SegmentType ==
    ASSUME NEW path \in Seq(Byte), NEW i \in 1 .. Len(path)
    PROVE  /\ SegmentEnd(path, Len(path), i) \in i - 1 .. Len(path)
           /\ Segment(path, i) \in Seq(Byte)
           /\ Len(Segment(path, i)) = SegmentEnd(path, Len(path), i) - i + 1
           /\ \A k \in i .. SegmentEnd(path, Len(path), i) : path[k] # Slash
           /\ \A k \in 1 .. Len(Segment(path, i)) : Segment(path, i)[k] = path[i + k - 1]
           /\ \A k \in 1 .. Len(Segment(path, i)) : Segment(path, i)[k] # Slash
  <1> DEFINE to == SegmentEnd(path, Len(path), i)
  <1>1. Len(path) \in Nat /\ \A k \in 1 .. Len(path) : path[k] \in Byte
    BY LenProperties
  <1>2. to \in i - 1 .. Len(path) /\ \A k \in i .. to : path[k] # Slash
    <2> DEFINE n == First(path, i, Len(path), {Slash})
    <2>1. n \in i .. Len(path) + 1 /\ \A k \in i .. n - 1 : path[k] \notin {Slash}
      BY <1>1, FirstOf
    <2>2. to = n - 1
      BY DEF SegmentEnd
    <2> HIDE DEF to, n
    <2>3. n \in Int /\ n - 1 \in i - 1 .. Len(path)
      BY <1>1, <2>1
    <2> QED BY <2>1, <2>2, <2>3
  <1> HIDE DEF to
  <1>3. /\ SubSeq(path, i, to) \in Seq(Byte)
        /\ Len(SubSeq(path, i, to)) = IF i <= to THEN to - i + 1 ELSE 0
        /\ \A k \in 1 .. to - i + 1 : SubSeq(path, i, to)[k] = path[i + k - 1]
    <2>1. \A k \in i .. to : path[k] \in Byte
      BY <1>1, <1>2
    <2> QED BY <1>1, <1>2, <2>1, SubSeqProperties
  <1>4. Segment(path, i) = SubSeq(path, i, to)
    BY DEF Segment, to
  <1>5. Len(SubSeq(path, i, to)) = to - i + 1
    BY <1>1, <1>2, <1>3
  <1>6. \A k \in 1 .. to - i + 1 : i + k - 1 \in i .. to
    BY <1>1, <1>2
  <1> QED BY <1>2, <1>3, <1>4, <1>5, <1>6 DEF to

\* A string with one more segment
Extended(p, path, i) == p \o <<Slash>> \o Segment(path, i)

\* The strings that Joined goes through
Joins(j, path, begins) ==
    /\ j \in [0 .. Len(path) -> Seq(Byte)] /\ j[0] = << >>
    /\ \A i \in 1 .. Len(path) :
          /\ i \in begins => j[i] = Extended(j[i - 1], path, i)
          /\ i \notin begins => j[i] = j[i - 1]

LEMMA ExtendedType ==
    ASSUME NEW path \in Seq(Byte), NEW i \in 1 .. Len(path), NEW p \in Seq(Byte)
    PROVE  /\ Extended(p, path, i) \in Seq(Byte)
           /\ Extended(p, path, i) = p \o (<<Slash>> \o Segment(path, i))
           /\ <<Slash>> \o Segment(path, i) \in Seq(Byte)
           /\ Len(<<Slash>> \o Segment(path, i)) = 1 + Len(Segment(path, i))
  <1>1. Segment(path, i) \in Seq(Byte)
    BY SegmentType
  <1>2. <<Slash>> \in Seq(Byte) /\ Len(<<Slash>>) = 1
    <2>1. Slash \in Byte
      BY DEF Slash, Byte
    <2> QED BY <2>1
  <1>3. /\ <<Slash>> \o Segment(path, i) \in Seq(Byte)
        /\ Len(<<Slash>> \o Segment(path, i)) = 1 + Len(Segment(path, i))
    BY <1>1, <1>2, ConcatProperties
  <1>4. Extended(p, path, i) = p \o (<<Slash>> \o Segment(path, i))
    BY <1>1, <1>2, ConcatAssociative DEF Extended
  <1>5. p \o (<<Slash>> \o Segment(path, i)) \in Seq(Byte)
    BY <1>3, ConcatProperties
  <1> QED BY <1>3, <1>4, <1>5

LEMMA ExtendedIs ==
    ASSUME NEW path \in Seq(Byte), NEW i \in 1 .. Len(path), NEW p \in Seq(Byte)
    PROVE  Extended(p, path, i) = p \o (<<Slash>> \o Segment(path, i))
  <1>1. /\ Extended(p, path, i) = p \o (<<Slash>> \o Segment(path, i))
        /\ <<Slash>> \o Segment(path, i) \in Seq(Byte)
    BY ExtendedType
  <1> QED BY <1>1

LEMMA JoinedSteps ==
    ASSUME NEW path \in Seq(Byte), NEW begins
    PROVE  \E j : Joins(j, path, begins) /\ Joined(path, begins) = j[Len(path)]
  <1> DEFINE L == Len(path)
             V == Seq(Byte)
             Next1(p, i) == IF i \in begins THEN Extended(p, path, i) ELSE p
             Step(f, i) == IF i = 0 THEN << >> ELSE Next1(f[i - 1], i)
             joined[i \in 0 .. L] ==
                 IF i = 0 THEN << >>
                 ELSE IF i \in begins THEN joined[i - 1] \o <<Slash>> \o Segment(path, i)
                 ELSE joined[i - 1]
             step == [x \in (1 .. L) \X V |-> Next1(x[2], x[1])]
  <1>1. L \in Nat /\ << >> \in V
    BY LenProperties
  <1>2. Joined(path, begins) = joined[L] /\ joined = CHOOSE f : f = [i \in 0 .. L |-> Step(f, i)]
    BY DEF Joined, Extended
  <1> HIDE DEF joined
  <1>3. ASSUME NEW p \in V, NEW i \in 1 .. L PROVE Next1(p, i) \in V
    <2>1. Extended(p, path, i) \in V
      BY ExtendedType
    <2> QED BY <2>1
  <1> HIDE DEF L, V, Next1
  <1>4. Steps(step, L, V)
    <2>1. \A x \in (1 .. L) \X V : Next1(x[2], x[1]) \in V
      BY <1>1, <1>3
    <2> QED BY <2>1 DEF Steps
  <1>5. PICK f : Goes(f, << >>, step, L, V)
    <2> HIDE DEF step
    <2> QED BY <1>1, <1>4, Recursion
  <1>6. f \in [0 .. L -> V] /\ f[0] = << >> /\ \A i \in 1 .. L : f[i] = Next1(f[i - 1], i)
    <2>1. f \in [0 .. L -> V] /\ f[0] = << >> /\ \A i \in 1 .. L : f[i] = step[<<i, f[i - 1]>>]
      <3> HIDE DEF step
      <3> QED BY <1>5 DEF Goes
    <2>2. ASSUME NEW i \in 1 .. L PROVE f[i] = Next1(f[i - 1], i)
      <3>1. <<i, f[i - 1]>> \in (1 .. L) \X V
        BY <1>1, <2>1
      <3> QED BY <2>1, <3>1
    <2> QED BY <2>1, <2>2
  <1>7. f = [i \in 0 .. L |-> Step(f, i)]
    <2>1. ASSUME NEW i \in 0 .. L PROVE f[i] = Step(f, i)
      BY <1>6
    <2> HIDE DEF Step
    <2> QED BY <1>6, <2>1
  <1>8. joined = [i \in 0 .. L |-> Step(joined, i)]
    <2> HIDE DEF Step
    <2> QED BY <1>2, <1>7
  <1>9. \A i \in 0 .. L : joined[i] = Step(joined, i)
    <2> HIDE DEF Step
    <2> QED BY <1>8
  <1>10. joined[0] = << >> /\ \A i \in 1 .. L : joined[i] = Next1(joined[i - 1], i)
    BY <1>1, <1>9
  <1>11. \A i \in 0 .. L : joined[i] \in V
    <2> DEFINE Good == {i \in Nat : i <= L => joined[i] \in V}
    <2>1. 0 \in Good
      BY <1>1, <1>10
    <2>2. ASSUME NEW i \in Nat, i \in Good PROVE i + 1 \in Good
      <3> SUFFICES ASSUME i + 1 <= L PROVE joined[i + 1] \in V
        OBVIOUS
      <3>1. joined[i] \in V /\ i + 1 \in 1 .. L /\ (i + 1) - 1 = i
        BY <1>1, <2>2
      <3>2. joined[i + 1] = Next1(joined[i], i + 1)
        BY <1>10, <3>1
      <3> QED BY <1>3, <3>1, <3>2
    <2>3. Nat \subseteq Good
      <3> HIDE DEF Good
      <3> QED BY <2>1, <2>2, Induction
    <2> QED BY <1>1, <2>3
  <1>12. joined \in [0 .. L -> V]
    <2> HIDE DEF Step
    <2> QED BY <1>8, <1>11
  <1>13. \A i \in 1 .. L : /\ i \in begins => joined[i] = Extended(joined[i - 1], path, i)
                           /\ i \notin begins => joined[i] = joined[i - 1]
    BY <1>10 DEF Next1
  <1>14. Joins(joined, path, begins)
    BY <1>10, <1>12, <1>13 DEF Joins, L, V
  <1> QED BY <1>2, <1>14 DEF L

\* Joining one more segment behind the others adds it at the end.
LEMMA JoinedAppend ==
    ASSUME NEW path \in Seq(Byte), NEW q \in 1 .. Len(path), NEW K, K \subseteq 1 .. q - 1
    PROVE  Joined(path, K \cup {q}) = Extended(Joined(path, K), path, q)
  <1>1. PICK j : Joins(j, path, K) /\ Joined(path, K) = j[Len(path)]
    BY JoinedSteps
  <1>2. PICK h : Joins(h, path, K \cup {q}) /\ Joined(path, K \cup {q}) = h[Len(path)]
    BY JoinedSteps
  <1>3. Len(path) \in Nat
    BY LenProperties
  <1> DEFINE Before1 == {i \in Nat : i < q => h[i] = j[i]}
             After1 == {i \in Nat : i + q <= Len(path) =>
                           j[i + q] = j[q - 1] /\ h[i + q] = Extended(j[q - 1], path, q)}
  <1>4. Nat \subseteq Before1
    <2>1. 0 \in Before1
      BY <1>1, <1>2 DEF Joins
    <2>2. ASSUME NEW i \in Nat, i \in Before1 PROVE i + 1 \in Before1
      <3> SUFFICES ASSUME i + 1 < q PROVE h[i + 1] = j[i + 1]
        OBVIOUS
      <3>1. i + 1 \in 1 .. Len(path) /\ (i + 1) - 1 = i /\ i + 1 # q /\ h[i] = j[i]
        BY <1>3, <2>2
      <3>2. /\ i + 1 \in K => j[i + 1] = Extended(j[i], path, i + 1)
            /\ i + 1 \notin K => j[i + 1] = j[i]
        BY <1>1, <3>1 DEF Joins
      <3>3. /\ i + 1 \in K \cup {q} => h[i + 1] = Extended(h[i], path, i + 1)
            /\ i + 1 \notin K \cup {q} => h[i + 1] = h[i]
        BY <1>2, <3>1 DEF Joins
      <3> QED BY <3>1, <3>2, <3>3
    <2> HIDE DEF Before1
    <2> QED BY <2>1, <2>2, Induction
  <1>5. h[q - 1] = j[q - 1]
    <2>1. q - 1 \in Nat /\ q - 1 < q
      OBVIOUS
    <2> QED BY <1>4, <2>1
  <1>6. Nat \subseteq After1
    <2>1. 0 \in After1
      <3>1. q \notin K /\ q \in K \cup {q} /\ 0 + q = q
        OBVIOUS
      <3>2. j[q] = j[q - 1]
        BY <1>1, <3>1 DEF Joins
      <3>3. h[q] = Extended(h[q - 1], path, q)
        BY <1>2, <3>1 DEF Joins
      <3> QED BY <1>5, <3>1, <3>2, <3>3
    <2>2. ASSUME NEW i \in Nat, i \in After1 PROVE i + 1 \in After1
      <3> DEFINE n == i + q
      <3> SUFFICES ASSUME (i + 1) + q <= Len(path)
                   PROVE  /\ j[(i + 1) + q] = j[q - 1]
                          /\ h[(i + 1) + q] = Extended(j[q - 1], path, q)
        OBVIOUS
      <3>1. (i + 1) + q = n + 1 /\ n + 1 \in 1 .. Len(path) /\ (n + 1) - 1 = n
            /\ n + 1 \notin K \cup {q}
        BY <1>3
      <3>2. j[n] = j[q - 1] /\ h[n] = Extended(j[q - 1], path, q)
        BY <1>3, <2>2
      <3> HIDE DEF n
      <3>3. j[n + 1] = j[n]
        BY <1>1, <3>1 DEF Joins
      <3>4. h[n + 1] = h[n]
        BY <1>2, <3>1 DEF Joins
      <3> QED BY <3>1, <3>2, <3>3, <3>4
    <2> HIDE DEF After1
    <2> QED BY <2>1, <2>2, Induction
  <1>7. j[Len(path)] = j[q - 1] /\ h[Len(path)] = Extended(j[q - 1], path, q)
    <2>1. Len(path) - q \in Nat /\ (Len(path) - q) + q = Len(path)
      BY <1>3
    <2>2. Len(path) - q \in After1
      BY <1>6, <2>1
    <2> QED BY <1>3, <2>1, <2>2
  <1> QED BY <1>1, <1>2, <1>7

LEMMA JoinedNone ==
    ASSUME NEW path \in Seq(Byte)
    PROVE  Joined(path, {}) = << >>
  <1>1. PICK j : Joins(j, path, {}) /\ Joined(path, {}) = j[Len(path)]
    BY JoinedSteps
  <1>2. Len(path) \in Nat
    BY LenProperties
  <1> DEFINE Good == {i \in Nat : i <= Len(path) => j[i] = << >>}
  <1>3. 0 \in Good
    BY <1>1 DEF Joins
  <1>4. ASSUME NEW i \in Nat, i \in Good PROVE i + 1 \in Good
    <2> SUFFICES ASSUME i + 1 <= Len(path) PROVE j[i + 1] = << >>
      OBVIOUS
    <2>1. i + 1 \in 1 .. Len(path) /\ (i + 1) - 1 = i /\ j[i] = << >>
      BY <1>2, <1>4
    <2>2. j[i + 1] = j[(i + 1) - 1]
      BY <1>1, <2>1 DEF Joins
    <2> QED BY <2>1, <2>2
  <1>5. Nat \subseteq Good
    <2> HIDE DEF Good
    <2> QED BY <1>3, <1>4, Induction
  <1> QED BY <1>1, <1>2, <1>5

LEMMA JoinedType ==
    ASSUME NEW path \in Seq(Byte), NEW K PROVE Joined(path, K) \in Seq(Byte)
  <1>1. Len(path) \in Nat
    BY LenProperties
  <1>2. PICK j : Joins(j, path, K) /\ Joined(path, K) = j[Len(path)]
    BY JoinedSteps
  <1> QED BY <1>1, <1>2 DEF Joins

-----------------------------------------------------------------------------
(* Pieces of a string                                                      *)

LEMMA Piece ==
    ASSUME NEW s \in Seq(Byte), NEW m \in Nat \ {0}, NEW n \in Nat, n <= Len(s), m <= n + 1
    PROVE  /\ SubSeq(s, m, n) \in Seq(Byte) /\ Len(SubSeq(s, m, n)) = n - m + 1
           /\ \A i \in 1 .. n - m + 1 : SubSeq(s, m, n)[i] = s[m + i - 1]
  <1>1. Len(s) \in Nat /\ \A i \in m .. n : s[i] \in Byte
    <2>1. Len(s) \in Nat /\ s \in [1 .. Len(s) -> Byte]
      BY LenProperties
    <2>2. \A i \in m .. n : i \in 1 .. Len(s)
      BY <2>1
    <2> QED BY <2>1, <2>2
  <1>2. /\ SubSeq(s, m, n) \in Seq(Byte)
        /\ Len(SubSeq(s, m, n)) = IF m <= n THEN n - m + 1 ELSE 0
        /\ \A i \in 1 .. n - m + 1 : SubSeq(s, m, n)[i] = s[m + i - 1]
    BY <1>1, SubSeqProperties
  <1> QED BY <1>2

LEMMA SamePiece ==
    ASSUME NEW s \in Seq(Byte), NEW t \in Seq(Byte), NEW m \in Nat \ {0}, NEW n \in Nat,
           n <= Len(s), n <= Len(t), \A i \in m .. n : s[i] = t[i]
    PROVE  SubSeq(s, m, n) = SubSeq(t, m, n)
  <1>1. CASE n < m
    BY <1>1, SubSeqEmpty
  <1>2. CASE ~(n < m)
    <2>1. m <= n + 1
      BY <1>2
    <2>2. /\ SubSeq(s, m, n) \in Seq(Byte) /\ Len(SubSeq(s, m, n)) = n - m + 1
          /\ \A i \in 1 .. n - m + 1 : SubSeq(s, m, n)[i] = s[m + i - 1]
      BY <2>1, Piece
    <2>3. /\ SubSeq(t, m, n) \in Seq(Byte) /\ Len(SubSeq(t, m, n)) = n - m + 1
          /\ \A i \in 1 .. n - m + 1 : SubSeq(t, m, n)[i] = t[m + i - 1]
      BY <2>1, Piece
    <2>4. \A i \in 1 .. n - m + 1 : m + i - 1 \in m .. n
      OBVIOUS
    <2>5. \A i \in 1 .. Len(SubSeq(s, m, n)) : SubSeq(s, m, n)[i] = SubSeq(t, m, n)[i]
      BY <2>2, <2>3, <2>4
    <2> QED BY <2>2, <2>3, <2>5, SeqEqual
  <1> QED BY <1>1, <1>2

\* Overwriting changes the bytes that are written, and no others.
LEMMA OverwriteIs ==
    ASSUME NEW s \in Seq(Byte), NEW w \in Nat, NEW b \in Seq(Byte), w + Len(b) <= Len(s)
    PROVE  /\ Overwrite(s, w + 1, b) \in Seq(Byte) /\ Len(Overwrite(s, w + 1, b)) = Len(s)
           /\ \A k \in 1 .. Len(s) : k <= w \/ k > w + Len(b) => Overwrite(s, w + 1, b)[k] = s[k]
           /\ SubSeq(Overwrite(s, w + 1, b), 1, w + Len(b)) = SubSeq(s, 1, w) \o b
  <1> DEFINE o == Overwrite(s, w + 1, b)
  <1>1. /\ Len(s) \in Nat /\ s \in [1 .. Len(s) -> Byte] /\ DOMAIN s = 1 .. Len(s)
        /\ Len(b) \in Nat /\ b \in [1 .. Len(b) -> Byte]
    BY LenProperties
  <1>2. o = [i \in 1 .. Len(s) |-> IF i \in w + 1 .. w + Len(b) THEN b[i - w] ELSE s[i]]
    <2>1. \A i \in 1 .. Len(s) : i \in (w + 1) .. (w + 1) + Len(b) - 1 <=> i \in w + 1 .. w + Len(b)
      BY <1>1
    <2>2. \A i \in 1 .. Len(s) : i - (w + 1) + 1 = i - w
      OBVIOUS
    <2> QED BY <1>1, <2>1, <2>2 DEF Overwrite
  <1> HIDE DEF o
  <1>3. o \in [1 .. Len(s) -> Byte]
    <2>1. \A i \in w + 1 .. w + Len(b) : i - w \in 1 .. Len(b)
      BY <1>1
    <2> QED BY <1>1, <1>2, <2>1
  <1>4. o \in Seq(Byte) /\ Len(o) = Len(s)
    BY <1>1, <1>3
  <1>5. \A k \in 1 .. Len(s) : k <= w \/ k > w + Len(b) => o[k] = s[k]
    BY <1>1, <1>2
  <1>6. /\ SubSeq(o, 1, w + Len(b)) \in Seq(Byte) /\ Len(SubSeq(o, 1, w + Len(b))) = w + Len(b)
        /\ \A i \in 1 .. w + Len(b) : SubSeq(o, 1, w + Len(b))[i] = o[i]
    <2>1. w + Len(b) \in Nat /\ 1 <= w + Len(b) + 1
      BY <1>1
    <2>2. /\ SubSeq(o, 1, w + Len(b)) \in Seq(Byte) /\ Len(SubSeq(o, 1, w + Len(b))) = w + Len(b) - 1 + 1
          /\ \A i \in 1 .. w + Len(b) - 1 + 1 : SubSeq(o, 1, w + Len(b))[i] = o[1 + i - 1]
      BY <1>4, <2>1, Piece
    <2>3. \A i \in 1 .. w + Len(b) : 1 + i - 1 = i
      OBVIOUS
    <2>4. w + Len(b) - 1 + 1 = w + Len(b)
      BY <1>1
    <2> QED BY <2>2, <2>3, <2>4
  <1>7. /\ SubSeq(s, 1, w) \in Seq(Byte) /\ Len(SubSeq(s, 1, w)) = w
        /\ \A i \in 1 .. w : SubSeq(s, 1, w)[i] = s[i]
    <2>1. w <= Len(s) /\ 1 <= w + 1
      BY <1>1
    <2>2. /\ SubSeq(s, 1, w) \in Seq(Byte) /\ Len(SubSeq(s, 1, w)) = w - 1 + 1
          /\ \A i \in 1 .. w - 1 + 1 : SubSeq(s, 1, w)[i] = s[1 + i - 1]
      BY <2>1, Piece
    <2> QED BY <2>2
  <1>8. /\ SubSeq(s, 1, w) \o b \in Seq(Byte) /\ Len(SubSeq(s, 1, w) \o b) = w + Len(b)
        /\ \A i \in 1 .. w + Len(b) : (SubSeq(s, 1, w) \o b)[i] = IF i <= w THEN s[i] ELSE b[i - w]
    <2>1. /\ SubSeq(s, 1, w) \o b \in Seq(Byte)
          /\ Len(SubSeq(s, 1, w) \o b) = Len(SubSeq(s, 1, w)) + Len(b)
          /\ \A i \in 1 .. Len(SubSeq(s, 1, w)) + Len(b) :
                (SubSeq(s, 1, w) \o b)[i] = IF i <= Len(SubSeq(s, 1, w)) THEN SubSeq(s, 1, w)[i]
                                            ELSE b[i - Len(SubSeq(s, 1, w))]
      BY <1>7, ConcatProperties
    <2> QED BY <1>7, <2>1
  <1>9. \A i \in 1 .. w + Len(b) : o[i] = IF i <= w THEN s[i] ELSE b[i - w]
    BY <1>1, <1>2
  <1>10. SubSeq(o, 1, w + Len(b)) = SubSeq(s, 1, w) \o b
    BY <1>6, <1>8, <1>9, SeqEqual
  <1> QED BY <1>4, <1>5, <1>10 DEF o

-----------------------------------------------------------------------------
(* What is taken back                                                      *)

\* p is what Parent leaves of the first w bytes
Leaving(text, w, p) ==
    Parent(text, w) = Len(p) /\ Len(p) < w /\ SubSeq(text, 1, Len(p)) = p

\* The bytes before the last segment, if a string is some segment's and what is
\* before it.
LEMMA ParentIs ==
    ASSUME NEW path \in Seq(Byte), NEW m \in 1 .. Len(path), NEW p \in Seq(Byte),
           NEW text \in Seq(Byte), NEW w \in Nat, w <= Len(text),
           SubSeq(text, 1, w) = Extended(p, path, m)
    PROVE  Leaving(text, w, p)
  <1> DEFINE seg == Segment(path, m)
             b   == <<Slash>> \o seg
             T   == {i \in 1 .. w : text[i] = Slash} \cup {0}
  <1>1. /\ seg \in Seq(Byte) /\ Len(seg) \in Nat
        /\ \A k \in 1 .. Len(seg) : seg[k] # Slash
    <2>1. seg \in Seq(Byte) /\ \A k \in 1 .. Len(seg) : seg[k] # Slash
      BY SegmentType
    <2> HIDE DEF seg
    <2> QED BY <2>1, LenProperties
  <1>2. Extended(p, path, m) = p \o b /\ b \in Seq(Byte) /\ Len(b) = 1 + Len(seg)
    BY ExtendedType
  <1>3. b[1] = Slash /\ \A k \in 2 .. Len(b) : b[k] # Slash
    <2> HIDE DEF seg
    <2>1. <<Slash>> \in Seq(Byte) /\ Len(<<Slash>>) = 1 /\ <<Slash>>[1] = Slash
      BY DEF Slash, Byte
    <2>2. \A i \in 1 .. 1 + Len(seg) : b[i] = IF i <= 1 THEN <<Slash>>[i] ELSE seg[i - 1]
      BY <1>1, <2>1, ConcatProperties
    <2> HIDE DEF b
    <2>3. ASSUME NEW k \in 2 .. Len(b) PROVE b[k] # Slash
      <3>1. k \in 1 .. 1 + Len(seg) /\ ~(k <= 1) /\ k - 1 \in 1 .. Len(seg)
        BY <1>1, <1>2
      <3>2. b[k] = seg[k - 1]
        BY <2>2, <3>1
      <3> QED BY <1>1, <3>1, <3>2
    <2>4. b[1] = Slash
      <3>1. 1 \in 1 .. 1 + Len(seg)
        BY <1>1
      <3> QED BY <2>1, <2>2, <3>1
    <2> QED BY <2>3, <2>4
  <1> HIDE DEF seg, b
  <1>4. /\ Len(p) \in Nat /\ Len(b) \in Nat /\ Len(b) >= 1
        /\ Len(p \o b) = Len(p) + Len(b)
        /\ \A i \in 1 .. Len(p) + Len(b) : (p \o b)[i] = IF i <= Len(p) THEN p[i] ELSE b[i - Len(p)]
    <2>1. Len(p) \in Nat
      BY LenProperties
    <2>2. Len(b) \in Nat /\ Len(b) >= 1
      BY <1>1, <1>2
    <2>3. /\ Len(p \o b) = Len(p) + Len(b)
          /\ \A i \in 1 .. Len(p) + Len(b) : (p \o b)[i] = IF i <= Len(p) THEN p[i] ELSE b[i - Len(p)]
      <3>1. b \in Seq(Byte)
        BY <1>2
      <3> QED BY <3>1, ConcatProperties
    <2> QED BY <2>1, <2>2, <2>3
  <1>5. /\ w = Len(p) + Len(b)
        /\ \A i \in 1 .. w : text[i] = IF i <= Len(p) THEN p[i] ELSE b[i - Len(p)]
    <2>1. /\ Len(SubSeq(text, 1, w)) = w - 1 + 1
          /\ \A i \in 1 .. w - 1 + 1 : SubSeq(text, 1, w)[i] = text[1 + i - 1]
      <3>1. 1 <= w + 1
        OBVIOUS
      <3> QED BY <3>1, Piece
    <2>2. SubSeq(text, 1, w) = p \o b
      BY <1>2
    <2>3. w = Len(p) + Len(b)
      BY <1>4, <2>1, <2>2
    <2>4. \A i \in 1 .. w : text[i] = (p \o b)[i]
      <3> HIDE DEF Extended
      <3>1. \A i \in 1 .. w : i \in 1 .. w - 1 + 1 /\ 1 + i - 1 = i
        OBVIOUS
      <3> QED BY <2>1, <2>2, <3>1
    <2> QED BY <1>4, <2>3, <2>4
  <1>6. Len(p) + 1 \in T /\ \A i \in T : i <= Len(p) + 1
    <2>2. Len(p) + 1 \in 1 .. w /\ ~(Len(p) + 1 <= Len(p)) /\ (Len(p) + 1) - Len(p) = 1
      BY <1>4, <1>5
    <2>1. text[Len(p) + 1] = Slash
      BY <1>3, <1>5, <2>2
    <2>3. ASSUME NEW i \in 1 .. w, i > Len(p) + 1 PROVE text[i] # Slash
      <3>1. i - Len(p) \in 2 .. Len(b) /\ text[i] = b[i - Len(p)]
        BY <1>4, <1>5, <2>3
      <3> QED BY <1>3, <3>1
    <2> QED BY <1>4, <2>1, <2>2, <2>3
  <1>7. Max(T) = Len(p) + 1
    <2>1. T \subseteq 0 .. w /\ T # {}
      OBVIOUS
    <2>2. Max(T) \in T /\ \A y \in T : y <= Max(T)
      <3> HIDE DEF T
      <3> QED BY <2>1, GreatestOf
    <2>3. Max(T) \in Nat
      BY <2>1, <2>2
    <2> HIDE DEF T
    <2> QED BY <1>4, <1>6, <2>2, <2>3
  <1>8. Parent(text, w) = Len(p)
    <2>1. Parent(text, w) = Max(T) - 1
      BY DEF Parent
    <2> HIDE DEF T
    <2> QED BY <1>4, <1>7, <2>1
  <1>9. SubSeq(text, 1, Len(p)) = p
    <2>1. /\ SubSeq(text, 1, Len(p)) \in Seq(Byte) /\ Len(SubSeq(text, 1, Len(p))) = Len(p) - 1 + 1
          /\ \A i \in 1 .. Len(p) - 1 + 1 : SubSeq(text, 1, Len(p))[i] = text[1 + i - 1]
      <3>1. Len(p) <= Len(text) /\ 1 <= Len(p) + 1 /\ Len(text) \in Nat
        BY <1>4, <1>5, LenProperties
      <3> QED BY <1>4, <3>1, Piece
    <2>2. \A i \in 1 .. Len(p) : i \in 1 .. Len(p) - 1 + 1 /\ 1 + i - 1 = i /\ text[i] = p[i]
      BY <1>4, <1>5
    <2>3. Len(SubSeq(text, 1, Len(p))) = Len(p)
      BY <1>4, <2>1
    <2> QED BY <2>1, <2>2, <2>3, SeqEqual
  <1> QED BY <1>4, <1>5, <1>8, <1>9 DEF Leaving

-----------------------------------------------------------------------------
(* One turn of normalize_path_inplace                                      *)

\* path is what t begins with
Starts(path, t) ==
    /\ path \in Seq(Byte) /\ t \in Seq(Byte)
    /\ Len(path) \in Nat \ {0} /\ Len(path) <= Len(t)
    /\ \A k \in 1 .. Len(path) : path[k] = t[k]

\* The first segment behind the slash at read is from .. to; it is empty at the
\* end of the path only.
Ahead(path, read, from, to) ==
    /\ from \in read + 1 .. Len(path) + 1 /\ to \in from - 1 .. Len(path)
    /\ to + 1 <= Len(path) => path[to + 1] = Slash
    /\ from > Len(path) => /\ path[Len(path)] = Slash
                           /\ Begins(path) \cap (read .. to) = {}
    /\ from <= Len(path) => /\ to >= from /\ path[to] # Slash
                            /\ from \in Begins(path)
                            /\ Begins(path) \cap (read .. to) \subseteq {from}
                            /\ Segment(path, from) = SubSeq(path, from, to)

LEMMA SegmentAhead ==
    ASSUME NEW path \in Seq(Byte), NEW read \in 1 .. Len(path), path[read] = Slash,
           NEW from, from = First(path, read, Len(path), Byte \ {Slash}),
           NEW to, to = First(path, from, Len(path), {Slash}) - 1
    PROVE  Ahead(path, read, from, to)
  <1> DEFINE L == Len(path)
  <1>1. L \in Nat /\ \A k \in 1 .. L : path[k] \in Byte
    BY LenProperties
  <1>2. /\ from \in read .. L + 1 /\ \A k \in read .. from - 1 : path[k] \notin Byte \ {Slash}
        /\ from <= L => path[from] \in Byte \ {Slash}
    <2>1. read <= L + 1
      BY <1>1
    <2> QED BY <1>1, <2>1, FirstOf
  <1>3. from # read /\ from \in read + 1 .. L + 1
    <2>1. from # read
      BY <1>1, <1>2
    <2> QED BY <1>2, <2>1
  <1>4. \A k \in read .. from - 1 : path[k] = Slash
    <2> TAKE k \in read .. from - 1
    <2>1. k \in 1 .. L
      BY <1>1, <1>3
    <2> QED BY <1>1, <1>2, <2>1
  <1>5. /\ to + 1 \in from .. L + 1 /\ \A k \in from .. to : path[k] # Slash
        /\ to + 1 <= L => path[to + 1] = Slash
    <2> DEFINE n == First(path, from, L, {Slash})
    <2>1. /\ n \in from .. L + 1 /\ \A k \in from .. n - 1 : path[k] \notin {Slash}
          /\ n <= L => path[n] \in {Slash}
      <3>1. from <= L + 1 /\ from \in Nat
        BY <1>1, <1>3
      <3> QED BY <1>1, <3>1, FirstOf
    <2>2. to = n - 1
      OBVIOUS
    <2> HIDE DEF n
    <2>3. to + 1 = n
      BY <1>1, <1>3, <2>1, <2>2
    <2> QED BY <2>1, <2>2, <2>3
  <1> HIDE DEF L
  <1>6. to \in from - 1 .. L /\ to \in Int
    BY <1>1, <1>3, <1>5
  <1>7. \A k \in read .. to : k \in Begins(path) => k = from
    <2> TAKE k \in read .. to
    <2> HAVE k \in Begins(path)
    <2>1. path[k] # Slash /\ path[k - 1] = Slash /\ k \in Nat
      BY DEF Begins
    <2>2. ~(k \in read .. from - 1)
      BY <1>4, <2>1
    <2>3. ~(k - 1 \in from .. to)
      BY <1>5, <2>1
    <2> QED BY <1>3, <1>6, <2>1, <2>2, <2>3
  <1>8. CASE from > L
    <2>1. from = L + 1 /\ L \in read .. from - 1
      BY <1>1, <1>3, <1>8
    <2>2. path[L] = Slash
      BY <1>4, <2>1
    <2>3. Begins(path) \cap (read .. to) = {}
      <3>1. ASSUME NEW k \in read .. to PROVE k # from
        BY <1>1, <1>6, <2>1
      <3> QED BY <1>7, <3>1
    <2>4. ~(from <= L)
      BY <1>1, <2>1
    <2>5. to + 1 <= L => path[to + 1] = Slash
      BY <1>5
    <2> QED BY <1>3, <1>6, <2>2, <2>3, <2>4, <2>5 DEF Ahead, L
  <1>9. CASE ~(from > L)
    <2>1. from <= L /\ path[from] # Slash /\ from \in Nat
      BY <1>1, <1>2, <1>3, <1>9
    <2>2. from - 1 \in read .. from - 1 /\ from \in 2 .. L
      BY <1>1, <1>3, <2>1
    <2>3. path[from - 1] = Slash
      BY <1>4, <2>2
    <2>4. from \in Begins(path)
      BY <2>1, <2>2, <2>3 DEF Begins, L
    <2>5. to >= from
      <3>1. to + 1 # from
        BY <1>5, <2>1
      <3> QED BY <1>3, <1>6, <3>1
    <2>6. path[to] # Slash
      <3>1. to \in from .. to
        BY <1>6, <2>5
      <3> QED BY <1>5, <3>1
    <2>7. Segment(path, from) = SubSeq(path, from, to)
      BY DEF Segment, SegmentEnd
    <2> QED BY <1>3, <1>5, <1>6, <1>7, <1>9, <2>4, <2>5, <2>6, <2>7 DEF Ahead, L
  <1> QED BY <1>8, <1>9

\* What has been written when the first e bytes of the path have been read
Written(path, e) ==
    Joined(path, KeptIn(path, e))
        \o (IF e = Len(path) /\ path[e] = Slash THEN <<Slash>> ELSE << >>)

\* The states that the loop goes through
Reading(path, t, s) ==
    /\ s \in [text : Seq(Byte), len : {Len(path)}, read : 1 .. Len(path) + 1, write : Int]
    /\ Len(s.text) = Len(t)
    /\ s.read <= Len(path) => path[s.read] = Slash
    /\ \A k \in s.read .. Len(t) : s.text[k] = t[k]
    /\ IF s.write = Invalid THEN Leaves(path)
       ELSE /\ s.write \in 0 .. s.read - 1
            /\ Balanced(path, s.read - 1)
            /\ SubSeq(s.text, 1, s.write) = Written(path, s.read - 1)

\* What a turn of the loop does, by the segment ahead in the path itself
Turned(path, s, from, to) ==
    LET done == [s EXCEPT !.read = to + 1]
    IN  Turn(s) = IF SubSeq(path, from, to) = <<Dot>> THEN done
                  ELSE IF SubSeq(path, from, to) = <<Dot, Dot>>
                  THEN [done EXCEPT !.write = Parent(s.text, s.write)]
                  ELSE [done EXCEPT !.write = @ + 1 + Len(SubSeq(path, from, to)),
                                    !.text  = Overwrite(@, s.write + 1,
                                                        <<Slash>> \o SubSeq(path, from, to))]

\* The bytes that are not read yet are those of the path.
LEMMA TurnReads ==
    ASSUME NEW path, NEW t, Starts(path, t), NEW s, Reading(path, t, s),
           s.read <= Len(path), s.write # Invalid
    PROVE  \E from, to : Ahead(path, s.read, from, to) /\ Turned(path, s, from, to)
  <1> DEFINE L    == Len(path)
             from == First(path, s.read, L, Byte \ {Slash})
             to   == First(path, from, L, {Slash}) - 1
  <1>1. /\ path \in Seq(Byte) /\ t \in Seq(Byte) /\ L \in Nat /\ L <= Len(t) /\ Len(t) \in Nat
        /\ s.text \in Seq(Byte) /\ s.len = L /\ s.read \in 1 .. L /\ Len(s.text) = Len(t)
        /\ path[s.read] = Slash
    <2>1. path \in Seq(Byte) /\ t \in Seq(Byte) /\ L \in Nat /\ L <= Len(t)
      BY DEF Starts
    <2>2. Len(t) \in Nat
      BY <2>1, LenProperties
    <2>3. /\ s.text \in Seq(Byte) /\ s.len = L /\ s.read \in 1 .. L + 1 /\ Len(s.text) = Len(t)
          /\ path[s.read] = Slash
      BY DEF Reading
    <2> QED BY <2>1, <2>2, <2>3
  <1>2. \A k \in s.read .. L : s.text[k] = path[k]
    <2>1. \A k \in s.read .. L : k \in 1 .. L /\ k \in s.read .. Len(t)
      BY <1>1
    <2>2. \A k \in 1 .. L : path[k] = t[k]
      BY DEF Starts
    <2>3. \A k \in s.read .. Len(t) : s.text[k] = t[k]
      BY DEF Reading
    <2> QED BY <2>1, <2>2, <2>3
  <1>3. from = First(s.text, s.read, s.len, Byte \ {Slash})
    <2>1. \A k \in s.read .. L : path[k] = s.text[k]
      BY <1>2
    <2>2. s.read \in Nat
      BY <1>1
    <2> QED BY <1>1, <2>1, <2>2, FirstSame
  <1>4. Ahead(path, s.read, from, to)
    BY <1>1, SegmentAhead
  <1> HIDE DEF from
  <1>5. from \in s.read + 1 .. L + 1 /\ to \in from - 1 .. L
    BY <1>4 DEF Ahead
  <1>6. \A k \in from .. L : path[k] = s.text[k]
    BY <1>1, <1>2, <1>5
  <1>7. to = First(s.text, from, s.len, {Slash}) - 1
    <2>1. from \in Nat
      BY <1>1, <1>5
    <2>2. First(path, from, L, {Slash}) = First(s.text, from, L, {Slash})
      BY <1>1, <1>6, <2>1, FirstSame
    <2> QED BY <1>1, <2>2
  <1> HIDE DEF to
  <1>8. SubSeq(s.text, from, to) = SubSeq(path, from, to)
    <2>1. from \in Nat \ {0} /\ to \in Nat /\ to <= Len(s.text) /\ to <= L
      BY <1>1, <1>5
    <2>2. \A k \in from .. to : s.text[k] = path[k]
      BY <1>1, <1>5, <1>6
    <2> QED BY <1>1, <2>1, <2>2, SamePiece
  <1>9. ~(s.read > s.len \/ s.write = Invalid)
    BY <1>1
  <1>10. Turned(path, s, from, to)
    BY <1>3, <1>7, <1>8, <1>9, Zenon DEF Turn, Turned
  <1> QED BY <1>4, <1>10

LEMMA Dots == <<Dot>> # << >> /\ <<Dot, Dot>> # << >> /\ <<Dot>> # <<Dot, Dot>>
  OBVIOUS

\* The names that are kept behind a segment that is no ".."
LEMMA AheadKeeps ==
    ASSUME NEW path \in Seq(Byte), NEW read \in 1 .. Len(path), path[read] = Slash,
           NEW from, NEW to, Ahead(path, read, from, to),
           Balanced(path, read - 1), SubSeq(path, from, to) # <<Dot, Dot>>
    PROVE  /\ Balanced(path, to)
           /\ KeptIn(path, to) = IF from <= Len(path) /\ SubSeq(path, from, to) # <<Dot>>
                                 THEN KeptIn(path, read - 1) \cup {from}
                                 ELSE KeptIn(path, read - 1)
  <1> DEFINE e == read - 1
             q == IF from <= Len(path) THEN from ELSE read
  <1>1. /\ Len(path) \in Nat /\ from \in read + 1 .. Len(path) + 1 /\ to \in from - 1 .. Len(path)
        /\ from <= Len(path) => to >= from
    BY LenProperties DEF Ahead
  <1>2. /\ e \in Nat /\ q \in Nat /\ to \in Nat /\ e < q /\ q <= to
    BY <1>1
  <1>3. Begins(path) \cap (e + 1 .. to) \subseteq {q} /\ (from > Len(path) => q \notin Begins(path))
    <2>1. e + 1 = read
      BY <1>1
    <2>2. CASE from <= Len(path)
      BY <1>1, <2>1, <2>2 DEF Ahead
    <2>3. CASE ~(from <= Len(path))
      <3>1. from > Len(path) /\ q \in read .. to
        BY <1>1, <1>2, <2>3
      <3> QED BY <2>1, <3>1 DEF Ahead
    <2> QED BY <2>2, <2>3
  <1>4. from <= Len(path) => from \in Begins(path) /\ Segment(path, from) = SubSeq(path, from, to)
    BY DEF Ahead
  <1>5. from <= Len(path) \/ from > Len(path)
    BY <1>1
  <1> HIDE DEF e
  <1>6. Only(Names(path), e, q, to)
    BY <1>3 DEF Only, Names
  <1>7. Ups(path) \cap (e + 1 .. to) = {}
    <2>1. q \notin Ups(path)
      BY <1>3, <1>4, <1>5 DEF Ups
    <2> HIDE DEF q
    <2> QED BY <1>3, <2>1 DEF Ups
  <1>8. Names(path) \cap {q} = IF from <= Len(path) /\ SubSeq(path, from, to) # <<Dot>>
                              THEN {from} ELSE {}
    BY <1>3, <1>4, <1>5 DEF Names
  <1> HIDE DEF q
  <1>9. Names(path) \subseteq Nat
    BY DEF Names, Begins
  <1>10. Balanced(path, e)
    BY DEF e
  <1>11. Balanced(path, to) /\ KeptIn(path, to) = KeptIn(path, e) \cup (Names(path) \cap {q})
    BY <1>2, <1>6, <1>7, <1>9, <1>10, KeepsOn
  <1> QED BY <1>8, <1>11 DEF e

\* Between e and f, the last name that is kept is taken back.
TakesLast(path, e, f) ==
    /\ KeptIn(path, e) = {} => Leaves(path)
    /\ \A m \in KeptIn(path, e) : (\A k \in KeptIn(path, e) : k <= m) =>
          Balanced(path, f) /\ KeptIn(path, f) = KeptIn(path, e) \ {m}

\* A ".." takes back the last of them, or leaves the root.
LEMMA AheadTakes ==
    ASSUME NEW path \in Seq(Byte), NEW read \in 1 .. Len(path), path[read] = Slash,
           NEW from, NEW to, Ahead(path, read, from, to),
           Balanced(path, read - 1), SubSeq(path, from, to) = <<Dot, Dot>>
    PROVE  from <= Len(path) /\ TakesLast(path, read - 1, to)
  <1> DEFINE e == read - 1
  <1>1. /\ Len(path) \in Nat /\ from \in read + 1 .. Len(path) + 1 /\ to \in from - 1 .. Len(path)
        /\ from <= Len(path) => to >= from
    BY LenProperties DEF Ahead
  <1>2. from <= Len(path)
    <2> SUFFICES ASSUME from > Len(path) PROVE FALSE
      BY <1>1
    <2>1. to < from /\ from \in Int /\ to \in Int
      BY <1>1
    <2>2. SubSeq(path, from, to) = << >>
      BY <2>1, SubSeqEmpty
    <2> QED BY <2>2, Dots, Zenon
  <1>3. /\ e \in Nat /\ from \in Nat /\ to \in Nat /\ e < from /\ from <= to /\ e + 1 = read
    BY <1>1, <1>2
  <1>4. /\ Begins(path) \cap (e + 1 .. to) \subseteq {from} /\ from \in Begins(path)
        /\ Segment(path, from) = <<Dot, Dot>>
    BY <1>2, <1>3 DEF Ahead
  <1> HIDE DEF e
  <1>5. Only(Ups(path), e, from, to) /\ from \in Ups(path) /\ Names(path) \cap (e + 1 .. to) = {}
    BY <1>4 DEF Only, Ups, Names
  <1>6. Names(path) \subseteq Nat
    BY DEF Names, Begins
  <1>7. Balanced(path, e)
    BY DEF e
  <1>8. /\ KeptIn(path, e) = {} => Sinks(path, 1, from)
        /\ \A m \in KeptIn(path, e) : (\A k \in KeptIn(path, e) : k <= m) =>
              Balanced(path, to) /\ KeptIn(path, to) = KeptIn(path, e) \ {m}
    BY <1>3, <1>5, <1>6, <1>7, TakesBack
  <1>9. from \in 1 .. Len(path)
    BY <1>2, <1>3
  <1> QED BY <1>2, <1>8, <1>9 DEF TakesLast, Leaves, e

\* Before a turn that there is something left for, only names have been written.
LEMMA BeforeTurn ==
    ASSUME NEW path, NEW t, Starts(path, t), NEW s, Reading(path, t, s),
           s.read <= Len(path), s.write # Invalid
    PROVE  /\ path \in Seq(Byte) /\ t \in Seq(Byte)
           /\ Len(path) \in Nat \ {0} /\ Len(t) \in Nat /\ Len(path) <= Len(t)
           /\ s.read \in 1 .. Len(path) /\ path[s.read] = Slash
           /\ s.write \in 0 .. s.read - 1
           /\ s.text \in Seq(Byte) /\ Len(s.text) = Len(t)
           /\ Balanced(path, s.read - 1)
           /\ SubSeq(s.text, 1, s.write) = Joined(path, KeptIn(path, s.read - 1))
  <1>1. /\ path \in Seq(Byte) /\ t \in Seq(Byte)
        /\ Len(path) \in Nat \ {0} /\ Len(path) <= Len(t)
    BY DEF Starts
  <1>2. Len(t) \in Nat
    BY <1>1, LenProperties
  <1>3. /\ s.read \in 1 .. Len(path) + 1 /\ path[s.read] = Slash
        /\ s.write \in 0 .. s.read - 1
        /\ s.text \in Seq(Byte) /\ Len(s.text) = Len(t)
        /\ Balanced(path, s.read - 1)
        /\ SubSeq(s.text, 1, s.write) = Written(path, s.read - 1)
    BY DEF Reading
  <1>4. s.read - 1 # Len(path)
    BY <1>1, <1>3
  <1>5. Written(path, s.read - 1) = Joined(path, KeptIn(path, s.read - 1)) \o << >>
    BY <1>4 DEF Written
  <1>6. Joined(path, KeptIn(path, s.read - 1)) \o << >> = Joined(path, KeptIn(path, s.read - 1))
    BY <1>1, JoinedType, ConcatEmptySeq
  <1>7. s.read \in 1 .. Len(path)
    BY <1>1, <1>3
  <1> QED BY <1>1, <1>2, <1>3, <1>5, <1>6, <1>7

\* What has been written behind a segment
LEMMA WrittenBehind ==
    ASSUME NEW path \in Seq(Byte), NEW read \in 1 .. Len(path),
           NEW from, NEW to, Ahead(path, read, from, to)
    PROVE  Written(path, to) = IF from > Len(path) THEN Joined(path, KeptIn(path, to)) \o <<Slash>>
                               ELSE Joined(path, KeptIn(path, to))
  <1>1. Len(path) \in Nat /\ from \in read + 1 .. Len(path) + 1 /\ to \in from - 1 .. Len(path)
    BY LenProperties DEF Ahead
  <1>2. CASE from > Len(path)
    <2>1. to = Len(path) /\ path[Len(path)] = Slash
      BY <1>1, <1>2 DEF Ahead
    <2> QED BY <1>2, <2>1 DEF Written
  <1>3. CASE ~(from > Len(path))
    <2>1. path[to] # Slash
      BY <1>1, <1>3 DEF Ahead
    <2>2. Written(path, to) = Joined(path, KeptIn(path, to)) \o << >>
      BY <2>1 DEF Written
    <2>3. Joined(path, KeptIn(path, to)) \o << >> = Joined(path, KeptIn(path, to))
      BY JoinedType, ConcatEmptySeq
    <2> QED BY <1>3, <2>2, <2>3
  <1> QED BY <1>2, <1>3

\* The text and the position that a turn leaves, whatever the segment
LEMMA AfterTurn ==
    ASSUME NEW path, NEW t, Starts(path, t), NEW s, Reading(path, t, s),
           s.read <= Len(path), s.write # Invalid,
           NEW from, NEW to, Ahead(path, s.read, from, to),
           NEW u, NEW w \in Int, u = [s EXCEPT !.read = to + 1, !.write = w],
           IF w = Invalid THEN Leaves(path)
           ELSE /\ w \in 0 .. to /\ Balanced(path, to)
                /\ SubSeq(s.text, 1, w) = Written(path, to)
    PROVE  Reading(path, t, u) /\ u.read > s.read
  <1>1. /\ path \in Seq(Byte) /\ t \in Seq(Byte)
        /\ Len(path) \in Nat \ {0} /\ Len(t) \in Nat /\ Len(path) <= Len(t)
        /\ s.read \in 1 .. Len(path)
    BY BeforeTurn
  <1>2. /\ from \in s.read + 1 .. Len(path) + 1 /\ to \in from - 1 .. Len(path)
        /\ to + 1 <= Len(path) => path[to + 1] = Slash
    BY DEF Ahead
  <1>3. to \in Nat /\ to + 1 \in 1 .. Len(path) + 1 /\ to + 1 > s.read /\ (to + 1) - 1 = to
    BY <1>1, <1>2
  <1>4. s \in [text : Seq(Byte), len : {Len(path)}, read : 1 .. Len(path) + 1, write : Int]
    BY DEF Reading
  <1>5. /\ u \in [text : Seq(Byte), len : {Len(path)}, read : 1 .. Len(path) + 1, write : Int]
        /\ u.text = s.text /\ u.read = to + 1 /\ u.write = w
    BY <1>3, <1>4
  <1>6. \A k \in to + 1 .. Len(t) : k \in s.read .. Len(t)
    BY <1>1, <1>3
  <1>7. Len(s.text) = Len(t) /\ \A k \in s.read .. Len(t) : s.text[k] = t[k]
    BY DEF Reading
  <1>8. \A k \in u.read .. Len(t) : u.text[k] = t[k]
    BY <1>5, <1>6, <1>7
  <1> QED BY <1>2, <1>3, <1>5, <1>7, <1>8 DEF Reading

\* A turn keeps what has been written to what the names are that have been kept.
LEMMA TurnKeeps ==
    ASSUME NEW path, NEW t, Starts(path, t), NEW s, Reading(path, t, s),
           s.read <= Len(path), s.write # Invalid
    PROVE  Reading(path, t, Turn(s)) /\ Turn(s).read > s.read
  <1> DEFINE e == s.read - 1
             K == KeptIn(path, e)
             w == s.write
  <1>1. PICK from, to : Ahead(path, s.read, from, to) /\ Turned(path, s, from, to)
    BY TurnReads
  <1> DEFINE seg == SubSeq(path, from, to)
  <1>2. /\ path \in Seq(Byte) /\ t \in Seq(Byte)
        /\ Len(path) \in Nat \ {0} /\ Len(t) \in Nat /\ Len(path) <= Len(t)
        /\ s.read \in 1 .. Len(path) /\ path[s.read] = Slash
        /\ w \in 0 .. s.read - 1
        /\ s.text \in Seq(Byte) /\ Len(s.text) = Len(t)
        /\ Balanced(path, s.read - 1)
        /\ SubSeq(s.text, 1, w) = Joined(path, K)
    BY BeforeTurn
  <1>3. s \in [text : Seq(Byte), len : {Len(path)}, read : 1 .. Len(path) + 1, write : Int]
    BY DEF Reading
  <1>4. /\ from \in s.read + 1 .. Len(path) + 1 /\ to \in from - 1 .. Len(path)
        /\ from <= Len(path) => to >= from
    BY <1>1 DEF Ahead
  <1>5. Written(path, to) = IF from > Len(path) THEN Joined(path, KeptIn(path, to)) \o <<Slash>>
                            ELSE Joined(path, KeptIn(path, to))
    BY <1>1, <1>2, WrittenBehind
  <1>6. seg # <<Dot, Dot>> =>
            /\ Balanced(path, to)
            /\ KeptIn(path, to) = IF from <= Len(path) /\ seg # <<Dot>> THEN K \cup {from} ELSE K
    <2>1. PICK r \in 1 .. Len(path) : r = s.read
      BY <1>2
    <2>2. path[r] = Slash /\ Balanced(path, r - 1) /\ Ahead(path, r, from, to) /\ K = KeptIn(path, r - 1)
      BY <1>1, <1>2, <2>1
    <2> HIDE DEF w, K
    <2> QED BY <1>2, <2>2, AheadKeeps
  <1>7. Len(<< >>) = 0
    OBVIOUS
  <1>8. K \subseteq 1 .. s.read - 1
    <2>1. K \subseteq Nat \ {0}
      BY DEF KeptIn, Names, Begins
    <2>2. \A k \in K : k <= e
      BY DEF KeptIn
    <2> HIDE DEF K
    <2> QED BY <1>2, <2>1, <2>2
  <1>9. CASE seg = <<Dot>>
    <2>1. from <= Len(path)
      <3> SUFFICES ASSUME ~(from <= Len(path)) PROVE FALSE
        OBVIOUS
      <3>1. to < from /\ from \in Int /\ to \in Int
        BY <1>1, <1>2, <1>4 DEF Ahead
      <3>2. seg = << >>
        BY <3>1, SubSeqEmpty
      <3> QED BY <1>9, <3>2, Dots, Zenon
    <2>2. Balanced(path, to) /\ KeptIn(path, to) = K
      BY <1>6, <1>9, Dots, Zenon
    <2>3. Written(path, to) = Joined(path, K)
      BY <1>2, <1>4, <1>5, <2>1, <2>2
    <2>4. w \in Int /\ w # Invalid /\ w \in 0 .. to
      BY <1>2, <1>4
    <2>5. Turn(s) = [s EXCEPT !.read = to + 1]
      BY <1>1, <1>9 DEF Turned
    <2>6. Turn(s) = [s EXCEPT !.read = to + 1, !.write = w]
      BY <1>3, <2>5
    <2> HIDE DEF K, w
    <2> QED BY <1>1, <1>2, <2>2, <2>3, <2>4, <2>6, AfterTurn
  <1>10. CASE seg = <<Dot, Dot>>
    <2>1. /\ from <= Len(path)
          /\ K = {} => Leaves(path)
          /\ \A m \in K : (\A k \in K : k <= m) =>
                Balanced(path, to) /\ KeptIn(path, to) = K \ {m}
      <3>1. PICK r \in 1 .. Len(path) : r = s.read
        BY <1>2
      <3>2. path[r] = Slash /\ Balanced(path, r - 1) /\ Ahead(path, r, from, to) /\ K = KeptIn(path, r - 1)
        BY <1>1, <1>2, <3>1
      <3> HIDE DEF w, K
      <3>3. from <= Len(path) /\ TakesLast(path, r - 1, to)
        BY <1>2, <1>10, <3>2, AheadTakes
      <3> QED BY <3>2, <3>3 DEF TakesLast
    <2>2. Turn(s) = [s EXCEPT !.read = to + 1, !.write = Parent(s.text, w)]
      <3>1. Turn(s) = [[s EXCEPT !.read = to + 1] EXCEPT !.write = Parent(s.text, w)]
        BY <1>1, <1>10, Dots, Zenon DEF Turned
      <3> QED BY <3>1
    <2>3. CASE K = {}
      <3>1. w = 0
        <4>1. SubSeq(s.text, 1, w) = << >>
          BY <1>2, <2>3, JoinedNone
        <4>2. Len(SubSeq(s.text, 1, w)) = w - 1 + 1
          <5>1. w \in Nat /\ w <= Len(s.text) /\ 1 <= w + 1
            BY <1>2
          <5> HIDE DEF w
          <5> QED BY <1>2, <5>1, Piece
        <4> QED BY <1>2, <1>7, <4>1, <4>2
      <3>2. Parent(s.text, w) = Invalid
        <4>1. {i \in 1 .. w : s.text[i] = Slash} \cup {0} = {0}
          BY <3>1
        <4>2. Max({0}) = 0
          <5>1. {0} \subseteq 0 .. 0 /\ {0} # {}
            OBVIOUS
          <5> QED BY <5>1, GreatestOf
        <4>3. Parent(s.text, w) = Max({0}) - 1
          BY <4>1, Zenon DEF Parent
        <4> QED BY <4>2, <4>3 DEF Invalid
      <3>3. Invalid \in Int
        BY DEF Invalid
      <3> QED BY <1>1, <2>1, <2>2, <2>3, <3>2, <3>3, AfterTurn
    <2>4. CASE K # {}
      <3>1. PICK m \in K : \A k \in K : k <= m
        <4>1. K \subseteq 0 .. s.read - 1 /\ s.read - 1 \in Nat
          BY <1>2, <1>8
        <4>2. Max(K) \in K /\ \A y \in K : y <= Max(K)
          <5> HIDE DEF K
          <5> QED BY <2>4, <4>1, GreatestOf
        <4> QED BY <4>2
      <3> DEFINE J == K \ {m}
                 p == Joined(path, J)
      <3>2. Balanced(path, to) /\ KeptIn(path, to) = J
        BY <2>1, <3>1
      <3>3. Written(path, to) = p
        BY <1>2, <1>4, <1>5, <2>1, <3>2
      <3>4. m \in 1 .. Len(path) /\ J \subseteq 1 .. m - 1 /\ J \cup {m} = K
        <4>1. m \in 1 .. s.read - 1
          BY <1>8
        <4>2. m \in 1 .. Len(path)
          BY <1>2, <4>1
        <4>3. \A k \in J : k \in 1 .. m - 1
          <5> TAKE k \in J
          <5>1. k \in 1 .. s.read - 1 /\ k <= m /\ k # m
            BY <1>8, <3>1
          <5> HIDE DEF J, K
          <5> QED BY <1>2, <4>1, <5>1
        <4> QED BY <4>2, <4>3
      <3>5. p \in Seq(Byte)
        BY <1>2, JoinedType
      <3>6. SubSeq(s.text, 1, w) = Extended(p, path, m)
        <4>1. Joined(path, J \cup {m}) = Extended(Joined(path, J), path, m)
          <5> HIDE DEF J
          <5> QED BY <1>2, <3>4, JoinedAppend
        <4> QED BY <1>2, <3>4, <4>1
      <3> HIDE DEF p, J, K
      <3>7. PICK n \in Nat, text \in Seq(Byte) : n = w /\ text = s.text /\ n <= Len(text)
        BY <1>2
      <3>8. Parent(s.text, w) = Len(p) /\ Len(p) < w /\ SubSeq(s.text, 1, Len(p)) = p
        <4> HIDE DEF w
        <4>0. PICK i \in 1 .. Len(path) : i = m
          BY <3>4
        <4>1. SubSeq(text, 1, n) = Extended(p, path, i)
          BY <3>6, <3>7, <4>0
        <4>2. Leaving(text, n, p)
          BY <1>2, <3>5, <3>7, <4>1, ParentIs
        <4> QED BY <3>7, <4>2 DEF Leaving
      <3>9. Len(p) \in Int /\ Len(p) # Invalid /\ Len(p) \in 0 .. to
        <4>1. Len(p) \in Nat
          BY <3>5, LenProperties
        <4> QED BY <1>2, <1>4, <3>8, <4>1 DEF Invalid
      <3> QED BY <1>1, <2>2, <3>2, <3>3, <3>8, <3>9, AfterTurn
    <2> QED BY <2>3, <2>4
  <1>11. CASE seg # <<Dot>> /\ seg # <<Dot, Dot>>
    <2> DEFINE b == <<Slash>> \o seg
               u == Turn(s)
    <2>1. /\ Balanced(path, to)
          /\ KeptIn(path, to) = IF from <= Len(path) THEN K \cup {from} ELSE K
      BY <1>6, <1>11
    <2>2. seg \in Seq(Byte) /\ Len(seg) = to - from + 1
      <3>1. from \in Nat \ {0} /\ to \in Nat /\ to <= Len(path) /\ from <= to + 1
        BY <1>2, <1>4
      <3> QED BY <1>2, <3>1, Piece
    <2>3. <<Slash>> \in Seq(Byte) /\ Len(<<Slash>>) = 1
      <3>1. Slash \in Byte
        BY DEF Slash, Byte
      <3> QED BY <3>1
    <2> HIDE DEF seg
    <2>4. b \in Seq(Byte) /\ Len(b) = 1 + Len(seg)
      BY <2>2, <2>3, ConcatProperties
    <2>5. Turn(s) = [[s EXCEPT !.read = to + 1] EXCEPT !.write = @ + 1 + Len(seg),
                                                     !.text = Overwrite(@, w + 1, b)]
      BY <1>1, <1>11, Zenon DEF Turned, seg
    <2> HIDE DEF b
    <2>6. PICK n \in Nat, text \in Seq(Byte) : n = w /\ text = s.text
      <3>1. w \in Nat /\ s.text \in Seq(Byte)
        BY <1>2
      <3> HIDE DEF w
      <3> QED BY <3>1
    <2>7. n + Len(b) <= to /\ to <= Len(text) /\ Len(b) \in Nat /\ Len(b) >= 1
      <3>1. n <= s.read - 1 /\ s.read \in Nat /\ to \in Int /\ from \in Int
            /\ from >= s.read + 1 /\ to >= from - 1 /\ to <= Len(path)
        BY <1>2, <1>4, <2>6
      <3>2. Len(b) = to - from + 2
        BY <2>2, <2>4, <3>1
      <3>3. Len(path) <= Len(text) /\ Len(path) \in Nat /\ Len(text) \in Nat
        BY <1>2, <2>6
      <3> HIDE DEF w
      <3> QED BY <3>1, <3>2, <3>3
    <2> DEFINE o == Overwrite(text, n + 1, b)
    <2>8. /\ o \in Seq(Byte) /\ Len(o) = Len(text)
          /\ \A k \in 1 .. Len(text) : k <= n \/ k > n + Len(b) => o[k] = text[k]
          /\ SubSeq(o, 1, n + Len(b)) = SubSeq(text, 1, n) \o b
      <3>1. n + Len(b) <= Len(text)
        BY <1>2, <1>4, <2>6, <2>7
      <3> QED BY <2>4, <2>6, <3>1, OverwriteIs
    <2> HIDE DEF o
    <2>9. /\ u \in [text : Seq(Byte), len : {Len(path)}, read : 1 .. Len(path) + 1, write : Int]
          /\ u.text = o /\ u.read = to + 1 /\ u.write = n + Len(b)
      <3>1. Overwrite(s.text, w + 1, b) = o
        BY <2>6 DEF o
      <3>2. Turn(s) = [text |-> o, len |-> s.len, read |-> to + 1, write |-> w + 1 + Len(seg)]
        BY <1>3, <2>5, <3>1
      <3>3. to + 1 \in 1 .. Len(path) + 1 /\ w + 1 + Len(seg) = n + Len(b) /\ n + Len(b) \in Int
        <4>1. to \in 0 .. Len(path) /\ Len(path) \in Nat
          BY <1>2, <1>4
        <4>2. Len(seg) \in Nat /\ w = n
          BY <2>2, <2>6, LenProperties
        <4> HIDE DEF w
        <4> QED BY <2>4, <4>1, <4>2
      <3>4. s.len = Len(path)
        BY <1>3
      <3> HIDE DEF w
      <3> QED BY <2>8, <3>2, <3>3, <3>4
    <2>10. SubSeq(o, 1, n + Len(b)) = Joined(path, K) \o b
      BY <1>2, <2>6, <2>8
    <2>11. Joined(path, K) \o b = Written(path, to)
      <3>1. CASE from <= Len(path)
        <4>1. PICK i \in 1 .. Len(path) : i = from /\ i > s.read
          BY <1>2, <1>4, <3>1
        <4>2. K \subseteq 1 .. i - 1
          <5> HIDE DEF K
          <5> QED BY <1>2, <1>8, <4>1
        <4>3. Segment(path, i) = seg
          BY <1>1, <3>1, <4>1 DEF Ahead, seg
        <4>4. Joined(path, K \cup {i}) = Extended(Joined(path, K), path, i)
          <5> HIDE DEF K
          <5> QED BY <1>2, <4>2, JoinedAppend
        <4>5. Extended(Joined(path, K), path, i) = Joined(path, K) \o b
          <5>1. Joined(path, K) \in Seq(Byte)
            BY <1>2, JoinedType
          <5>2. Extended(Joined(path, K), path, i)
                  = Joined(path, K) \o (<<Slash>> \o Segment(path, i))
            <6> HIDE DEF K
            <6>1. PICK x \in Seq(Byte) : x = Joined(path, K)
              BY <5>1
            <6>2. Extended(x, path, i) = x \o (<<Slash>> \o Segment(path, i))
              <7>1. i \in 1 .. Len(path) /\ path \in Seq(Byte)
                BY <1>2
              <7> QED BY <7>1, ExtendedIs
            <6> QED BY <6>1, <6>2
          <5> QED BY <4>3, <5>2 DEF b
        <4>6. Written(path, to) = Joined(path, K \cup {from})
          <5>1. ~(from > Len(path))
            BY <1>2, <1>4, <3>1
          <5> HIDE DEF K
          <5> QED BY <1>5, <2>1, <3>1, <5>1
        <4> QED BY <4>1, <4>4, <4>5, <4>6
      <3>2. CASE ~(from <= Len(path))
        <4>1. from > Len(path)
          BY <1>2, <1>4, <3>2
        <4>2. Len(seg) = 0
          BY <1>2, <1>4, <2>2, <4>1
        <4>3. seg = << >>
          BY <2>2, <4>2, EmptySeq
        <4>4. b = <<Slash>>
          BY <2>3, <4>3, ConcatEmptySeq DEF b
        <4> HIDE DEF K
        <4> QED BY <1>5, <2>1, <3>2, <4>1, <4>4
      <3> QED BY <3>1, <3>2
    <2>12. \A k \in u.read .. Len(t) : u.text[k] = t[k]
      <3> TAKE k \in u.read .. Len(t)
      <3>1. k \in to + 1 .. Len(t)
        BY <2>9
      <3>2. k \in 1 .. Len(text) /\ k > n + Len(b) /\ k \in s.read .. Len(t)
        <4>1. Len(text) = Len(t) /\ Len(t) \in Nat
          BY <1>2, <2>6
        <4>2. s.read \in Nat \ {0} /\ to \in Nat /\ to >= s.read
          BY <1>2, <1>4
        <4>3. k \in Nat /\ k >= to + 1 /\ k <= Len(t)
          BY <3>1, <4>1, <4>2
        <4> HIDE DEF w
        <4> QED BY <2>7, <4>1, <4>2, <4>3
      <3>3. o[k] = text[k]
        BY <2>8, <3>2
      <3>4. s.text[k] = t[k]
        BY <3>2 DEF Reading
      <3> QED BY <2>6, <2>9, <3>3, <3>4
    <2>13. u.read > s.read /\ u.read - 1 = to
      BY <1>2, <1>4, <2>9
    <2>14. u.read <= Len(path) => path[u.read] = Slash
      BY <1>1, <2>9 DEF Ahead
    <2>15. u.write # Invalid /\ u.write \in 0 .. u.read - 1
      BY <2>7, <2>9, <2>13 DEF Invalid
    <2>16. Len(u.text) = Len(t)
      BY <1>2, <2>6, <2>8, <2>9
    <2>17. SubSeq(u.text, 1, u.write) = Written(path, u.read - 1) /\ Balanced(path, u.read - 1)
      BY <2>1, <2>9, <2>10, <2>11, <2>13
    <2> HIDE DEF u
    <2>18. Reading(path, t, u)
      BY <2>9, <2>12, <2>14, <2>15, <2>16, <2>17 DEF Reading
    <2> QED BY <2>13, <2>18 DEF u
  <1> QED BY <1>9, <1>10, <1>11

\* Before the first turn, nothing has been read or written.
LEMMA FirstReading ==
    ASSUME NEW path, NEW t, Starts(path, t), path[1] = Slash
    PROVE  Reading(path, t, [text |-> t, len |-> Len(path), read |-> 1, write |-> 0])
  <1> DEFINE s == [text |-> t, len |-> Len(path), read |-> 1, write |-> 0]
  <1>1. /\ path \in Seq(Byte) /\ t \in Seq(Byte)
        /\ Len(path) \in Nat \ {0} /\ Len(path) <= Len(t)
    BY DEF Starts
  <1>2. s \in [text : Seq(Byte), len : {Len(path)}, read : 1 .. Len(path) + 1, write : Int]
    BY <1>1
  <1>3. s.text = t /\ s.read = 1 /\ s.write = 0 /\ s.read - 1 = 0 /\ 0 # Invalid
    BY DEF Invalid
  <1> HIDE DEF s
  <1>4. KeptIn(path, 0) = {}
    BY DEF KeptIn, Names, Begins
  <1>5. Balanced(path, 0)
    <2>1. \A S : S \cap (0 + 1 .. 0) = {}
      OBVIOUS
    <2>2. \A S : Cardinality(S \cap (0 + 1 .. 0)) = 0
      BY <2>1, CountEmpty
    <2>3. ASSUME NEW k \in KeptIn(path, 0) \cup {0}
          PROVE  Cardinality(Ups(path) \cap (k + 1 .. 0)) + Cardinality(KeptIn(path, 0) \cap (k + 1 .. 0))
                   = Cardinality(Names(path) \cap (k + 1 .. 0))
      <3>1. k = 0
        BY <1>4
      <3>2. /\ Cardinality(Ups(path) \cap (0 + 1 .. 0)) = 0
            /\ Cardinality(KeptIn(path, 0) \cap (0 + 1 .. 0)) = 0
            /\ Cardinality(Names(path) \cap (0 + 1 .. 0)) = 0
        BY <2>2
      <3> QED BY <3>1, <3>2
    <2> QED BY <2>3 DEF Balanced
  <1>6. SubSeq(t, 1, 0) = Written(path, 0)
    <2>1. Written(path, 0) = Joined(path, {}) \o << >>
      BY <1>1, <1>4 DEF Written
    <2>2. Joined(path, {}) = << >>
      BY <1>1, JoinedNone
    <2>3. << >> \o << >> = << >>
      BY <1>1, EmptySeq, ConcatEmptySeq
    <2>4. SubSeq(t, 1, 0) = << >>
      BY SubSeqEmpty
    <2> QED BY <2>1, <2>2, <2>3, <2>4
  <1>7. Reading(path, t, s)
    BY <1>2, <1>3, <1>5, <1>6 DEF Reading
  <1> QED BY <1>7 DEF s

\* The states after each turn
Turns(f, path, t) ==
    /\ f[0] = [text |-> t, len |-> Len(path), read |-> 1, write |-> 0]
    /\ \A i \in 0 .. Len(path) : Reading(path, t, f[i])
    /\ \A i \in 1 .. Len(path) : f[i] = Turn(f[i - 1])

LEMMA TurnSteps ==
    ASSUME NEW path, NEW t, Starts(path, t), path[1] = Slash,
           ~(\E i \in 1 .. Len(path) : t[i] = NUL)
    PROVE  \E f : /\ Turns(f, path, t)
                  /\ Normalize(t, Len(path)) =
                       [text |-> IF f[Len(path)].write = 0
                                 THEN Overwrite(f[Len(path)].text, 1, <<Slash>>)
                                 ELSE f[Len(path)].text,
                        len  |-> IF f[Len(path)].write = 0 THEN 1 ELSE f[Len(path)].write]
  <1> DEFINE L    == Len(path)
             init == [text |-> t, len |-> L, read |-> 1, write |-> 0]
             R    == [text : Seq(Byte), len : {L}, read : 1 .. L + 1, write : Int]
             V    == {s \in R : Reading(path, t, s)}
             Step(f, i) == IF i = 0 THEN init ELSE Turn(f[i - 1])
             after[i \in 0 .. L] == IF i = 0 THEN init ELSE Turn(after[i - 1])
             step == [x \in (1 .. L) \X V |-> Turn(x[2])]
             Result(f) == [text |-> IF f[L].write = 0 THEN Overwrite(f[L].text, 1, <<Slash>>)
                                    ELSE f[L].text,
                           len  |-> IF f[L].write = 0 THEN 1 ELSE f[L].write]
  <1>1. L \in Nat \ {0} /\ init \in V /\ \A s : Reading(path, t, s) => s \in V
    <2>1. Reading(path, t, init)
      BY FirstReading
    <2> HIDE DEF init
    <2> QED BY <2>1 DEF Reading, Starts
  <1>2. Normalize(t, L) = Result(after) /\ after = CHOOSE f : f = [i \in 0 .. L |-> Step(f, i)]
    <2>1. L # 0 /\ Head(t) = Slash
      <3>1. t \in Seq(Byte) /\ Len(t) # 0 /\ path[1] = t[1]
        BY DEF Starts
      <3>2. t # << >>
        BY <3>1
      <3>3. Head(t) = t[1]
        BY <3>1, <3>2
      <3> QED BY <1>1, <3>1, <3>3
    <2> QED BY <2>1, Zenon DEF Normalize
  <1> HIDE DEF after
  <1>3. ASSUME NEW s \in V PROVE Turn(s) \in V
    <2>1. Reading(path, t, s)
      OBVIOUS
    <2>2. CASE s.read <= L /\ s.write # Invalid
      <3>1. Reading(path, t, Turn(s))
        BY <2>1, <2>2, TurnKeeps
      <3> HIDE DEF V
      <3> QED BY <1>1, <3>1
    <2>3. CASE ~(s.read <= L /\ s.write # Invalid)
      <3>1. s.read > s.len \/ s.write = Invalid
        BY <1>1, <2>1, <2>3 DEF Reading
      <3> QED BY <3>1 DEF Turn
    <2> QED BY <2>2, <2>3
  <1>4. \A s \in V : Reading(path, t, s)
    OBVIOUS
  <1> HIDE DEF L, V, init
  <1>5. Steps(step, L, V)
    <2>1. \A x \in (1 .. L) \X V : Turn(x[2]) \in V
      BY <1>3
    <2> QED BY <2>1 DEF Steps
  <1>6. PICK f : Goes(f, init, step, L, V)
    <2> HIDE DEF step
    <2> QED BY <1>1, <1>5, Recursion
  <1>7. f \in [0 .. L -> V] /\ f[0] = init /\ \A i \in 1 .. L : f[i] = Turn(f[i - 1])
    <2>1. f \in [0 .. L -> V] /\ f[0] = init /\ \A i \in 1 .. L : f[i] = step[<<i, f[i - 1]>>]
      <3> HIDE DEF step
      <3> QED BY <1>6 DEF Goes
    <2>2. ASSUME NEW i \in 1 .. L PROVE f[i] = Turn(f[i - 1])
      <3>1. <<i, f[i - 1]>> \in (1 .. L) \X V
        BY <1>1, <2>1
      <3> QED BY <2>1, <3>1
    <2> QED BY <2>1, <2>2
  <1>8. f = [i \in 0 .. L |-> Step(f, i)]
    <2>1. ASSUME NEW i \in 0 .. L PROVE f[i] = Step(f, i)
      BY <1>7
    <2> HIDE DEF Step
    <2> QED BY <1>7, <2>1
  <1>9. after = [i \in 0 .. L |-> Step(after, i)]
    <2> HIDE DEF Step
    <2> QED BY <1>2, <1>8
  <1>10. \A i \in 0 .. L : after[i] = Step(after, i)
    <2> HIDE DEF Step
    <2> QED BY <1>9
  <1>11. after[0] = init /\ \A i \in 1 .. L : after[i] = Turn(after[i - 1])
    BY <1>1, <1>10
  <1>12. \A i \in 0 .. L : after[i] \in V
    <2> DEFINE Good == {i \in Nat : i <= L => after[i] \in V}
    <2>1. 0 \in Good
      BY <1>1, <1>11
    <2>2. ASSUME NEW i \in Nat, i \in Good PROVE i + 1 \in Good
      <3> SUFFICES ASSUME i + 1 <= L PROVE after[i + 1] \in V
        OBVIOUS
      <3>1. after[i] \in V /\ i + 1 \in 1 .. L /\ (i + 1) - 1 = i
        BY <1>1, <2>2
      <3>2. after[i + 1] = Turn(after[i])
        BY <1>11, <3>1
      <3> QED BY <1>3, <3>1, <3>2
    <2>3. Nat \subseteq Good
      <3> HIDE DEF Good
      <3> QED BY <2>1, <2>2, Induction
    <2> QED BY <1>1, <2>3
  <1>13. Turns(after, path, t)
    BY <1>4, <1>11, <1>12 DEF Turns, L, init
  <1>14. Normalize(t, L) = Result(after)
    BY <1>2
  <1> QED BY <1>13, <1>14, Zenon DEF L

\* The path has been read when the turns end, or leaves the root.
LEMMA TurnsEnd ==
    ASSUME NEW path, NEW t, Starts(path, t), NEW f, Turns(f, path, t)
    PROVE  /\ Reading(path, t, f[Len(path)])
           /\ f[Len(path)].write = Invalid \/ f[Len(path)].read = Len(path) + 1
  <1> DEFINE L == Len(path)
             Good == {i \in Nat : i <= L => f[i].write = Invalid \/ f[i].read >= i + 1}
  <1>1. L \in Nat \ {0}
    BY DEF Starts
  <1>2. \A i \in 0 .. L : Reading(path, t, f[i]) /\ f[i].read \in 1 .. L + 1 /\ f[i].len = L
    BY DEF Turns, Reading
  <1>3. 0 \in Good
    <2>1. f[0].read \in Nat /\ f[0].read >= 0 + 1
      BY <1>1, <1>2
    <2> QED BY <2>1
  <1>4. ASSUME NEW i \in Nat, i \in Good PROVE i + 1 \in Good
    <2> SUFFICES ASSUME i + 1 <= L
                 PROVE  f[i + 1].write = Invalid \/ f[i + 1].read >= (i + 1) + 1
      OBVIOUS
    <2>1. /\ i \in 0 .. L /\ i + 1 \in 0 .. L /\ i + 1 \in 1 .. L /\ (i + 1) - 1 = i
      BY <1>1
    <2>2. f[i + 1] = Turn(f[i]) /\ (f[i].write = Invalid \/ f[i].read >= i + 1)
      BY <1>4, <2>1 DEF Turns
    <2>3. CASE f[i].write = Invalid
      BY <2>2, <2>3 DEF Turn
    <2>4. CASE f[i].write # Invalid /\ f[i].read > L
      <3>1. Turn(f[i]) = f[i]
        BY <1>2, <2>1, <2>4 DEF Turn
      <3> QED BY <1>1, <1>2, <2>1, <2>2, <2>4, <3>1
    <2>5. CASE f[i].write # Invalid /\ ~(f[i].read > L)
      <3>1. f[i].read <= L
        BY <1>1, <1>2, <2>1, <2>5
      <3>2. Turn(f[i]).read > f[i].read
        BY <1>2, <2>1, <2>5, <3>1, TurnKeeps
      <3>3. f[i].read \in Nat /\ f[i + 1].read \in Nat
        BY <1>1, <1>2, <2>1
      <3> QED BY <2>2, <2>5, <3>2, <3>3
    <2> QED BY <2>3, <2>4, <2>5
  <1>5. Nat \subseteq Good
    <2> HIDE DEF Good
    <2> QED BY <1>3, <1>4, Induction
  <1>6. L \in 0 .. L /\ L \in Good
    BY <1>1, <1>5
  <1> QED BY <1>1, <1>2, <1>6

\* At the end of the path, the names that are kept are those of the definition,
\* and what has been written is the path resolved, or nothing.
LEMMA WrittenAtEnd ==
    ASSUME NEW path \in Seq(Byte), Len(path) # 0, Balanced(path, Len(path))
    PROVE  /\ ~Leaves(path)
           /\ Written(path, Len(path)) \in Seq(Byte)
           /\ Resolved(path) = IF Written(path, Len(path)) = << >> THEN <<Slash>>
                               ELSE Written(path, Len(path))
  <1> DEFINE L == Len(path)
             J == Joined(path, Kept(path))
  <1>1. L \in Nat \ {0}
    BY LenProperties
  <1>2. KeptIn(path, L) = Kept(path)
    BY DEF KeptIn, Kept, Names, Begins
  <1>3. ~Leaves(path)
    BY DEF Balanced, Leaves
  <1>4. J \in Seq(Byte) /\ <<Slash>> \in Seq(Byte) /\ << >> \in Seq(Byte)
    <2>1. Slash \in Byte
      BY DEF Slash, Byte
    <2>2. J \in Seq(Byte)
      BY JoinedType
    <2> HIDE DEF J
    <2> QED BY <2>1, <2>2
  <1>5. Last(path) = path[L]
    BY DEF Last
  <1>6. Written(path, L) = J \o (IF path[L] = Slash THEN <<Slash>> ELSE << >>)
    BY <1>2 DEF Written
  <1>7. Resolved(path) = J \o (IF path[L] = Slash \/ Kept(path) = {} THEN <<Slash>> ELSE << >>)
    BY <1>5 DEF Resolved
  <1>8. ASSUME Kept(path) # {} PROVE J # << >>
    <2>1. Kept(path) \subseteq 1 .. L /\ Kept(path) \subseteq 0 .. L
      BY <1>1 DEF Kept, Names, Begins
    <2>2. PICK m \in Kept(path) : \A k \in Kept(path) : k <= m
      <3>1. Max(Kept(path)) \in Kept(path) /\ \A y \in Kept(path) : y <= Max(Kept(path))
        BY <1>1, <1>8, <2>1, GreatestOf
      <3> QED BY <3>1
    <2>3. PICK i \in 1 .. L : i = m
      BY <2>1
    <2> DEFINE K == Kept(path) \ {i}
    <2>4. K \subseteq 1 .. i - 1 /\ Kept(path) = K \cup {i}
      <3>1. ASSUME NEW k \in K PROVE k \in 1 .. i - 1
        BY <2>1, <2>2, <2>3
      <3> QED BY <2>2, <2>3, <3>1
    <2> HIDE DEF K
    <2>5. J = Extended(Joined(path, K), path, i)
      BY <2>3, <2>4, JoinedAppend
    <2>6. Joined(path, K) \in Seq(Byte)
      BY JoinedType
    <2>7. /\ J = Joined(path, K) \o (<<Slash>> \o Segment(path, i))
          /\ <<Slash>> \o Segment(path, i) \in Seq(Byte)
          /\ Len(<<Slash>> \o Segment(path, i)) = 1 + Len(Segment(path, i))
      <3> HIDE DEF J
      <3> QED BY <2>3, <2>5, <2>6, ExtendedType
    <2>8. Len(Segment(path, i)) \in Nat
      <3>1. Segment(path, i) \in Seq(Byte)
        BY <2>3, SegmentType
      <3> QED BY <3>1, LenProperties
    <2>9. <<Slash>> \o Segment(path, i) # << >>
      <3>1. Len(<< >>) = 0 /\ Len(<<Slash>> \o Segment(path, i)) # 0
        BY <2>7, <2>8
      <3> QED BY <3>1
    <2> HIDE DEF J
    <2> QED BY <2>6, <2>7, <2>9, ConcatEqualIffEmpty
  <1>9. <<Slash>> # << >>
    OBVIOUS
  <1>10. ASSUME Kept(path) = {} PROVE J = << >>
    BY <1>10, JoinedNone
  <1> HIDE DEF J, L
  <1>11. J \o << >> = J /\ J \o <<Slash>> # << >> /\ << >> \o <<Slash>> = <<Slash>>
         /\ << >> \o << >> = << >> /\ J \o <<Slash>> \in Seq(Byte)
    <2>1. J \o << >> = J /\ << >> \o <<Slash>> = <<Slash>> /\ << >> \o << >> = << >>
      BY <1>4, ConcatEmptySeq
    <2>2. J \o <<Slash>> # << >>
      BY <1>4, <1>9, ConcatEqualIffEmpty
    <2>3. J \o <<Slash>> \in Seq(Byte)
      BY <1>4, ConcatProperties
    <2> QED BY <2>1, <2>2, <2>3
  <1>12. CASE path[L] = Slash
    <2>1. Written(path, L) = J \o <<Slash>> /\ Resolved(path) = J \o <<Slash>>
      BY <1>6, <1>7, <1>12
    <2> QED BY <1>3, <1>11, <2>1 DEF L
  <1>13. CASE path[L] # Slash /\ Kept(path) = {}
    <2>1. Written(path, L) = << >> /\ Resolved(path) = <<Slash>>
      BY <1>6, <1>7, <1>10, <1>11, <1>13
    <2> QED BY <1>3, <1>4, <2>1 DEF L
  <1>14. CASE path[L] # Slash /\ Kept(path) # {}
    <2>1. Written(path, L) = J /\ Resolved(path) = J /\ J # << >>
      BY <1>6, <1>7, <1>8, <1>11, <1>14
    <2> QED BY <1>3, <1>4, <2>1 DEF L
  <1> QED BY <1>12, <1>13, <1>14

\* What normalize_path_inplace leaves in the buffer, and where
Normal(n, path, t) ==
    /\ path # << >> /\ Head(path) = Slash /\ ~Leaves(path)
    /\ n.text \in Seq(Byte) /\ Len(n.text) = Len(t)
    /\ n.len \in 1 .. Len(path) /\ SubSeq(n.text, 1, n.len) = Resolved(path)
    /\ \A k \in Len(path) + 1 .. Len(t) : n.text[k] = t[k]

LEMMA EndNormal ==
    ASSUME NEW path, NEW t, Starts(path, t), path[1] = Slash,
           NEW s, Reading(path, t, s), s.read = Len(path) + 1, s.write # Invalid,
           NEW n, n = [text |-> IF s.write = 0 THEN Overwrite(s.text, 1, <<Slash>>) ELSE s.text,
                       len  |-> IF s.write = 0 THEN 1 ELSE s.write]
    PROVE  Normal(n, path, t)
  <1> DEFINE L == Len(path)
  <1>1. /\ path \in Seq(Byte) /\ t \in Seq(Byte) /\ L \in Nat \ {0} /\ L <= Len(t) /\ Len(t) \in Nat
    <2>1. /\ path \in Seq(Byte) /\ t \in Seq(Byte) /\ L \in Nat \ {0} /\ L <= Len(t)
      BY DEF Starts
    <2> QED BY <2>1, LenProperties
  <1>2. /\ s.text \in Seq(Byte) /\ Len(s.text) = Len(t) /\ s.write \in 0 .. L
        /\ \A k \in L + 1 .. Len(t) : s.text[k] = t[k]
        /\ Balanced(path, L) /\ SubSeq(s.text, 1, s.write) = Written(path, L)
    <2>1. (L + 1) - 1 = L
      BY <1>1
    <2> QED BY <2>1 DEF Reading
  <1>3. /\ ~Leaves(path) /\ Written(path, L) \in Seq(Byte)
        /\ Resolved(path) = IF Written(path, L) = << >> THEN <<Slash>> ELSE Written(path, L)
    BY <1>1, <1>2, WrittenAtEnd
  <1>4. path # << >> /\ Head(path) = Slash
    <2>1. path # << >>
      BY <1>1, EmptySeq
    <2> QED BY <1>1, <2>1
  <1>5. Len(Written(path, L)) = s.write
    <2>1. s.write \in Nat /\ s.write <= Len(s.text) /\ 1 <= s.write + 1 /\ s.write - 1 + 1 = s.write
      BY <1>1, <1>2
    <2>2. PICK w \in Nat : w = s.write
      BY <2>1
    <2>3. Len(SubSeq(s.text, 1, w)) = w - 1 + 1
      BY <1>2, <2>1, <2>2, Piece
    <2> QED BY <1>2, <2>2, <2>3
  <1>6. CASE s.write = 0
    <2>1. Resolved(path) = <<Slash>>
      <3>1. Written(path, L) = << >>
        BY <1>3, <1>5, <1>6, EmptySeq
      <3> QED BY <1>3, <3>1
    <2> DEFINE o == Overwrite(s.text, 0 + 1, <<Slash>>)
    <2>2. <<Slash>> \in Seq(Byte) /\ Len(<<Slash>>) = 1
      <3>1. Slash \in Byte
        BY DEF Slash, Byte
      <3> QED BY <3>1
    <2>3. /\ o \in Seq(Byte) /\ Len(o) = Len(s.text)
          /\ \A k \in 1 .. Len(s.text) : k <= 0 \/ k > 0 + Len(<<Slash>>) => o[k] = s.text[k]
          /\ SubSeq(o, 1, 0 + Len(<<Slash>>)) = SubSeq(s.text, 1, 0) \o <<Slash>>
      <3>1. 0 + Len(<<Slash>>) <= Len(s.text) /\ 0 \in Nat
        BY <1>1, <1>2, <2>2
      <3> QED BY <1>2, <2>2, <3>1, OverwriteIs
    <2> HIDE DEF o
    <2>4. SubSeq(o, 1, 1) = <<Slash>>
      <3>1. SubSeq(s.text, 1, 0) = << >>
        BY SubSeqEmpty
      <3>2. << >> \o <<Slash>> = <<Slash>>
        BY <2>2, ConcatEmptySeq
      <3>3. 0 + Len(<<Slash>>) = 1
        OBVIOUS
      <3> QED BY <2>3, <3>1, <3>2, <3>3, Zenon
    <2>5. n.text = o /\ n.len = 1
      BY <1>6 DEF o
    <2>6. \A k \in L + 1 .. Len(t) : o[k] = t[k]
      <3> TAKE k \in L + 1 .. Len(t)
      <3>1. k \in 1 .. Len(s.text) /\ k > 0 + Len(<<Slash>>)
        BY <1>1, <1>2, <2>2
      <3> QED BY <1>2, <2>3, <3>1
    <2>7. 1 \in 1 .. Len(path) /\ Len(o) = Len(t)
      BY <1>1, <1>2, <2>3
    <2> QED BY <1>3, <1>4, <2>1, <2>3, <2>4, <2>5, <2>6, <2>7, Zenon DEF Normal
  <1>7. CASE s.write # 0
    <2>1. Resolved(path) = Written(path, L)
      <3>1. Written(path, L) # << >>
        BY <1>5, <1>7, EmptySeq
      <3> QED BY <1>3, <3>1
    <2>2. n.text = s.text /\ n.len = s.write /\ s.write \in 1 .. L
      BY <1>1, <1>2, <1>7
    <2> QED BY <1>2, <1>3, <1>4, <2>1, <2>2 DEF Normal
  <1> QED BY <1>6, <1>7

\* A path that is not refused is resolved, and what is behind it stays.
LEMMA NormalizeResolves ==
    ASSUME NEW path, NEW t, Starts(path, t) \/ (path = << >> /\ Len(path) = 0),
           Normalize(t, Len(path)).len # Invalid
    PROVE  Normal(Normalize(t, Len(path)), path, t)
  <1> DEFINE L == Len(path)
  <1>1. ~(L = 0 \/ Head(t) # Slash \/ \E i \in 1 .. L : t[i] = NUL)
    <2> SUFFICES ASSUME L = 0 \/ Head(t) # Slash \/ \E i \in 1 .. L : t[i] = NUL PROVE FALSE
      OBVIOUS
    <2>1. Normalize(t, L) = [text |-> t, len |-> Invalid]
      BY Zenon DEF Normalize
    <2> HIDE DEF L
    <2>2. Normalize(t, L).len = Invalid
      BY <2>1
    <2> QED BY <2>2 DEF L
  <1>2. Starts(path, t)
    BY <1>1
  <1>3. path[1] = Slash
    <2>1. t \in Seq(Byte) /\ Len(t) # 0 /\ path[1] = t[1]
      BY <1>2 DEF Starts
    <2>2. t # << >>
      BY <2>1
    <2>3. Head(t) = t[1]
      BY <2>1, <2>2
    <2> QED BY <1>1, <2>1, <2>3
  <1>4. PICK f : /\ Turns(f, path, t)
                 /\ Normalize(t, L) = [text |-> IF f[L].write = 0
                                                THEN Overwrite(f[L].text, 1, <<Slash>>)
                                                ELSE f[L].text,
                                       len  |-> IF f[L].write = 0 THEN 1 ELSE f[L].write]
    BY <1>1, <1>2, <1>3, TurnSteps
  <1>5. Reading(path, t, f[L]) /\ (f[L].write = Invalid \/ f[L].read = L + 1)
    BY <1>2, <1>4, TurnsEnd
  <1>6. f[L].write # Invalid
    <2> HIDE DEF L
    <2> SUFFICES ASSUME f[L].write = Invalid PROVE FALSE
      OBVIOUS
    <2>1. Normalize(t, L).len = Invalid
      BY <1>4 DEF Invalid
    <2> QED BY <2>1 DEF L
  <1> QED BY <1>2, <1>3, <1>4, <1>5, <1>6, EndNormal

-----------------------------------------------------------------------------
(* url_decode_inplace                                                      *)

LEMMA HexDigitRange ==
    ASSUME NEW b PROVE /\ HexDigit(b) # Invalid => HexDigit(b) \in 0 .. 15
                       /\ HexDigit(Percent) = Invalid
  <1>1. b \in Digits => HexDigit(b) \in 0 .. 15
    BY DEF HexDigit, Digits
  <1>2. b \notin Digits /\ b \in 65 .. 70 => HexDigit(b) \in 0 .. 15
    BY DEF HexDigit
  <1>3. b \notin Digits /\ b \notin 65 .. 70 /\ b \in 97 .. 102 => HexDigit(b) \in 0 .. 15
    BY DEF HexDigit
  <1>4. b \notin Digits /\ b \notin 65 .. 70 /\ b \notin 97 .. 102 => HexDigit(b) = Invalid
    BY DEF HexDigit
  <1>5. HexDigit(Percent) = Invalid
    BY DEF HexDigit, Percent, Digits
  <1> QED BY <1>1, <1>2, <1>3, <1>4, <1>5

\* An escape stands for a byte.
LEMMA EscapedRange ==
    ASSUME NEW s, NEW i, NEW to, IsEscape(s, i, to) PROVE Escaped(s, i) \in Byte
  <1>1. HexDigit(s[i + 1]) \in 0 .. 15 /\ HexDigit(s[i + 2]) \in 0 .. 15
    BY HexDigitRange DEF IsEscape
  <1> QED BY <1>1 DEF Escaped, Byte

\* The escapes of a string, and the byte that begins at a position
Escapes(s) == {i \in 1 .. Len(s) : IsEscape(s, i, Len(s))}

ByteAt(s, i) == IF i \in Escapes(s) THEN Escaped(s, i)
                ELSE IF s[i] = Plus THEN Space ELSE s[i]

\* No escape begins within another.
LEMMA EscapesApart ==
    ASSUME NEW s \in Seq(Byte), NEW i \in Escapes(s)
    PROVE  i + 1 \notin Escapes(s) /\ i + 2 \notin Escapes(s)
  <1>1. s[i + 1] # Percent /\ s[i + 2] # Percent
    <2>1. HexDigit(s[i + 1]) # Invalid /\ HexDigit(s[i + 2]) # Invalid
      BY DEF Escapes, IsEscape
    <2>2. HexDigit(Percent) = Invalid
      BY HexDigitRange
    <2> QED BY <2>1, <2>2
  <1> QED BY <1>1 DEF Escapes, IsEscape

LEMMA ByteAtType ==
    ASSUME NEW s \in Seq(Byte), NEW i \in 1 .. Len(s) PROVE ByteAt(s, i) \in Byte
  <1>1. i \in Escapes(s) => Escaped(s, i) \in Byte
    BY EscapedRange DEF Escapes
  <1>2. s[i] \in Byte /\ Space \in Byte
    <2>1. s[i] \in Byte
      BY ElementOfSeq
    <2>2. Space \in Byte
      BY DEF Space, Byte
    <2> QED BY <2>1, <2>2
  <1> QED BY <1>1, <1>2 DEF ByteAt

\* The strings that Decoded goes through
Decodes(d, s) ==
    /\ d \in [0 .. Len(s) -> Seq(Byte)] /\ d[0] = << >>
    /\ \A i \in 1 .. Len(s) :
          d[i] = IF i - 1 \in Escapes(s) \/ i - 2 \in Escapes(s) THEN d[i - 1]
                 ELSE Append(d[i - 1], ByteAt(s, i))

LEMMA DecodedSteps ==
    ASSUME NEW s \in Seq(Byte)
    PROVE  \E d : Decodes(d, s) /\ Decoded(s) = d[Len(s)]
  <1> DEFINE L == Len(s)
             V == Seq(Byte)
             Next1(p, i) == IF i - 1 \in Escapes(s) \/ i - 2 \in Escapes(s) THEN p
                            ELSE Append(p, ByteAt(s, i))
             Step(f, i) == IF i = 0 THEN << >> ELSE Next1(f[i - 1], i)
             decoded[i \in 0 .. L] ==
                 IF i = 0 THEN << >>
                 ELSE IF i - 1 \in Escapes(s) \/ i - 2 \in Escapes(s) THEN decoded[i - 1]
                 ELSE Append(decoded[i - 1], IF i \in Escapes(s) THEN Escaped(s, i)
                                             ELSE IF s[i] = Plus THEN Space ELSE s[i])
             step == [x \in (1 .. L) \X V |-> Next1(x[2], x[1])]
  <1>1. L \in Nat /\ << >> \in V
    BY LenProperties
  <1>2. Decoded(s) = decoded[L] /\ decoded = CHOOSE f : f = [i \in 0 .. L |-> Step(f, i)]
    BY DEF Decoded, ByteAt, Escapes
  <1> HIDE DEF decoded
  <1>3. ASSUME NEW p \in V, NEW i \in 1 .. L PROVE Next1(p, i) \in V
    <2>1. Append(p, ByteAt(s, i)) \in V
      BY ByteAtType, AppendProperties
    <2> QED BY <2>1
  <1> HIDE DEF L, V, Next1
  <1>4. Steps(step, L, V)
    <2>1. \A x \in (1 .. L) \X V : Next1(x[2], x[1]) \in V
      BY <1>1, <1>3
    <2> QED BY <2>1 DEF Steps
  <1>5. PICK f : Goes(f, << >>, step, L, V)
    <2> HIDE DEF step
    <2> QED BY <1>1, <1>4, Recursion
  <1>6. f \in [0 .. L -> V] /\ f[0] = << >> /\ \A i \in 1 .. L : f[i] = Next1(f[i - 1], i)
    <2>1. f \in [0 .. L -> V] /\ f[0] = << >> /\ \A i \in 1 .. L : f[i] = step[<<i, f[i - 1]>>]
      <3> HIDE DEF step
      <3> QED BY <1>5 DEF Goes
    <2>2. ASSUME NEW i \in 1 .. L PROVE f[i] = Next1(f[i - 1], i)
      <3>1. <<i, f[i - 1]>> \in (1 .. L) \X V
        BY <1>1, <2>1
      <3> QED BY <2>1, <3>1
    <2> QED BY <2>1, <2>2
  <1>7. f = [i \in 0 .. L |-> Step(f, i)]
    <2>1. ASSUME NEW i \in 0 .. L PROVE f[i] = Step(f, i)
      BY <1>6
    <2> HIDE DEF Step
    <2> QED BY <1>6, <2>1
  <1>8. decoded = [i \in 0 .. L |-> Step(decoded, i)]
    <2> HIDE DEF Step
    <2> QED BY <1>2, <1>7
  <1>9. \A i \in 0 .. L : decoded[i] = Step(decoded, i)
    <2> HIDE DEF Step
    <2> QED BY <1>8
  <1>10. decoded[0] = << >> /\ \A i \in 1 .. L : decoded[i] = Next1(decoded[i - 1], i)
    BY <1>1, <1>9
  <1>11. \A i \in 0 .. L : decoded[i] \in V
    <2> DEFINE Good == {i \in Nat : i <= L => decoded[i] \in V}
    <2>1. 0 \in Good
      BY <1>1, <1>10
    <2>2. ASSUME NEW i \in Nat, i \in Good PROVE i + 1 \in Good
      <3> SUFFICES ASSUME i + 1 <= L PROVE decoded[i + 1] \in V
        OBVIOUS
      <3>1. decoded[i] \in V /\ i + 1 \in 1 .. L /\ (i + 1) - 1 = i
        BY <1>1, <2>2
      <3>2. decoded[i + 1] = Next1(decoded[i], i + 1)
        BY <1>10, <3>1
      <3> QED BY <1>3, <3>1, <3>2
    <2>3. Nat \subseteq Good
      <3> HIDE DEF Good
      <3> QED BY <2>1, <2>2, Induction
    <2> QED BY <1>1, <2>3
  <1>12. decoded \in [0 .. L -> V]
    <2> HIDE DEF Step
    <2> QED BY <1>8, <1>11
  <1>13. Decodes(decoded, s)
    BY <1>10, <1>12, Zenon DEF Decodes, L, V, Next1
  <1> QED BY <1>2, <1>13 DEF L

\* o is s with one byte more behind its first w
OneMore(o, s, w, b, a) ==
    /\ o \in Seq(Byte) /\ Len(o) = Len(s)
    /\ \A k \in 1 .. Len(s) : o[k] = IF k = w + 1 THEN b ELSE s[k]
    /\ SubSeq(o, a, w + 1) = Append(SubSeq(s, a, w), b)

LEMMA OverwriteOne ==
    ASSUME NEW s \in Seq(Byte), NEW w \in Nat, w < Len(s), NEW b \in Byte,
           NEW a \in 1 .. w + 1
    PROVE  OneMore(Overwrite(s, w + 1, <<b>>), s, w, b, a)
  <1> DEFINE o == Overwrite(s, w + 1, <<b>>)
  <1>1. /\ Len(s) \in Nat /\ s \in [1 .. Len(s) -> Byte] /\ DOMAIN s = 1 .. Len(s)
    BY LenProperties
  <1>2. o = [k \in 1 .. Len(s) |-> IF k = w + 1 THEN b ELSE s[k]]
    <2>1. ASSUME NEW k \in 1 .. Len(s)
          PROVE  (IF k \in w + 1 .. w + 1 + Len(<<b>>) - 1 THEN <<b>>[k - (w + 1) + 1] ELSE s[k])
                   = IF k = w + 1 THEN b ELSE s[k]
      <3>1. Len(<<b>>) = 1 /\ <<b>>[1] = b
        OBVIOUS
      <3>2. k \in w + 1 .. w + 1 + 1 - 1 <=> k = w + 1
        OBVIOUS
      <3>3. k = w + 1 => k - (w + 1) + 1 = 1
        OBVIOUS
      <3> QED BY <3>1, <3>2, <3>3
    <2> QED BY <1>1, <2>1, Zenon DEF Overwrite
  <1> HIDE DEF o
  <1>3. o \in [1 .. Len(s) -> Byte]
    BY <1>1, <1>2
  <1>4. o \in Seq(Byte) /\ Len(o) = Len(s)
    BY <1>1, <1>3
  <1>5. \A k \in 1 .. Len(s) : o[k] = IF k = w + 1 THEN b ELSE s[k]
    BY <1>2
  <1>6. SubSeq(o, a, w + 1) = Append(SubSeq(s, a, w), b)
    <2>1. a \in 1 .. Len(o) /\ w + 1 \in a .. Len(o) /\ (w + 1) - 1 = w
      BY <1>1, <1>4
    <2>2. SubSeq(o, a, w + 1) = SubSeq(o, a, (w + 1) - 1) \o <<o[w + 1]>>
      BY <1>4, <2>1, SubSeqRecursiveSecond
    <2>3. o[w + 1] = b
      BY <1>1, <1>5
    <2>4. SubSeq(o, a, w) = SubSeq(s, a, w)
      <3>1. \A k \in a .. w : o[k] = s[k]
        BY <1>1, <1>5
      <3>2. a \in Nat \ {0} /\ w <= Len(o) /\ w <= Len(s)
        BY <1>1, <1>4
      <3> QED BY <1>4, <3>1, <3>2, SamePiece
    <2>5. SubSeq(s, a, w) \in Seq(Byte)
      <3>1. a \in Nat \ {0} /\ w <= Len(s) /\ a <= w + 1
        BY <1>1
      <3> QED BY <3>1, Piece
    <2>6. Append(SubSeq(s, a, w), b) = SubSeq(s, a, w) \o <<b>>
      BY <2>5, AppendIsConcat
    <2> QED BY <2>1, <2>2, <2>3, <2>4, <2>6
  <1> QED BY <1>4, <1>5, <1>6 DEF o, OneMore

\* One turn of the loop, at position i of a span that ends at to
DecodeStep(s, i, to) ==
    LET escape == IsEscape(s.text, i, to)
        byte   == IF escape THEN Escaped(s.text, i)
                  ELSE IF s.text[i] = Plus THEN Space ELSE s.text[i]
    IN  IF i < s.next \/ ~s.ok THEN s
        ELSE IF escape /\ byte = NUL THEN [s EXCEPT !.ok = FALSE]
        ELSE [s EXCEPT !.text = Overwrite(@, s.to + 1, <<byte>>), !.to = @ + 1,
                       !.next = i + (IF escape THEN 3 ELSE 1)]

DecodeStates(n) == {s \in [text : Seq(Byte), to : Int, next : Int, ok : BOOLEAN] : Len(s.text) = n}

\* What a turn does to the bytes
LEMMA DecodeStepType ==
    ASSUME NEW n \in Nat, NEW s \in DecodeStates(n), NEW i \in 1 .. n, NEW to
    PROVE  DecodeStep(s, i, to) \in DecodeStates(n)
  <1> DEFINE escape == IsEscape(s.text, i, to)
             byte   == IF escape THEN Escaped(s.text, i)
                       ELSE IF s.text[i] = Plus THEN Space ELSE s.text[i]
             o      == Overwrite(s.text, s.to + 1, <<byte>>)
  <1>1. s \in [text : Seq(Byte), to : Int, next : Int, ok : BOOLEAN] /\ Len(s.text) = n
    BY DEF DecodeStates
  <1>2. byte \in Byte
    <2>1. escape => Escaped(s.text, i) \in Byte
      BY EscapedRange
    <2>2. s.text[i] \in Byte
      BY <1>1, ElementOfSeq
    <2>3. Space \in Byte
      BY DEF Space, Byte
    <2> QED BY <2>1, <2>2, <2>3
  <1> HIDE DEF byte
  <1>3. o \in Seq(Byte) /\ Len(o) = n
    <2>1. s.text \in [1 .. n -> Byte] /\ DOMAIN s.text = 1 .. n
      BY <1>1, LenProperties
    <2>2. ASSUME NEW k \in s.to + 1 .. s.to + 1 + Len(<<byte>>) - 1
          PROVE  <<byte>>[k - (s.to + 1) + 1] = byte
      <3>1. Len(<<byte>>) = 1
        OBVIOUS
      <3>2. k - (s.to + 1) + 1 = 1
        BY <1>1, <3>1
      <3> QED BY <3>2
    <2>3. o \in [1 .. n -> Byte]
      BY <1>2, <2>1, <2>2 DEF Overwrite
    <2> HIDE DEF o
    <2> QED BY <2>3
  <1> HIDE DEF o
  <1>4. CASE i < s.next \/ ~s.ok
    BY <1>4 DEF DecodeStep
  <1>5. CASE ~(i < s.next \/ ~s.ok) /\ escape /\ byte = NUL
    <2>1. DecodeStep(s, i, to) = [s EXCEPT !.ok = FALSE]
      BY <1>5, Zenon DEF DecodeStep, byte
    <2> QED BY <1>1, <2>1 DEF DecodeStates
  <1>6. CASE ~(i < s.next \/ ~s.ok) /\ ~(escape /\ byte = NUL)
    <2>1. DecodeStep(s, i, to) = [s EXCEPT !.text = Overwrite(@, s.to + 1, <<byte>>), !.to = @ + 1,
                                           !.next = i + (IF escape THEN 3 ELSE 1)]
      BY <1>6, Zenon DEF DecodeStep, byte
    <2>2. DecodeStep(s, i, to) = [text |-> o, to |-> s.to + 1,
                                  next |-> i + (IF escape THEN 3 ELSE 1), ok |-> s.ok]
      BY <1>1, <2>1 DEF o
    <2>3. i + (IF escape THEN 3 ELSE 1) \in Int /\ s.to + 1 \in Int
      BY <1>1
    <2> QED BY <1>1, <1>3, <2>2, <2>3 DEF DecodeStates
  <1> QED BY <1>4, <1>5, <1>6

\* The states after each position of a span
DecodeGoes(f, text, a, b) ==
    /\ f[a - 1] = [text |-> text, to |-> a - 1, next |-> a, ok |-> TRUE]
    /\ \A i \in 0 .. b : f[i] \in DecodeStates(Len(text))
    /\ \A i \in a .. b : f[i] = DecodeStep(f[i - 1], i, b)

LEMMA DecodeSteps ==
    ASSUME NEW text \in Seq(Byte), NEW b \in 1 .. Len(text), NEW a \in 1 .. b
    PROVE  \E f : /\ DecodeGoes(f, text, a, b)
                  /\ Decode(text, <<a, b>>)
                       = [text |-> f[b].text, span |-> <<a, f[b].to>>, ok |-> f[b].ok]
  <1> DEFINE V    == DecodeStates(Len(text))
             init == [text |-> text, to |-> a - 1, next |-> a, ok |-> TRUE]
             Next1(s, i) == IF i < a THEN init ELSE DecodeStep(s, i, b)
             Step(f, i) == IF i < a THEN init ELSE DecodeStep(f[i - 1], i, b)
             TurnOf(s, i) ==
               LET escape == IsEscape(s.text, i, b)
                   c == IF escape THEN Escaped(s.text, i)
                        ELSE IF s.text[i] = Plus THEN Space ELSE s.text[i]
               IN  IF i < s.next \/ ~s.ok THEN s
                   ELSE IF escape /\ c = NUL THEN [s EXCEPT !.ok = FALSE]
                   ELSE [s EXCEPT !.text = Overwrite(@, s.to + 1, <<c>>), !.to = @ + 1,
                                  !.next = i + (IF escape THEN 3 ELSE 1)]
             after[i \in 0 .. b] == IF i < a THEN init ELSE TurnOf(after[i - 1], i)
             step == [x \in (1 .. b) \X V |-> Next1(x[2], x[1])]
             Result(f) == [text |-> f[b].text, span |-> <<a, f[b].to>>, ok |-> f[b].ok]
  <1>1. Len(text) \in Nat /\ b \in Nat /\ init \in V
    <2>1. Len(text) \in Nat
      BY LenProperties
    <2> QED BY <2>1 DEF DecodeStates
  <1>2. Decode(text, <<a, b>>) = Result(after) /\ after = CHOOSE f : f = [i \in 0 .. b |-> Step(f, i)]
    <2>1. Decode(text, <<a, b>>) = Result(after)
      BY SMTT(30) DEF Decode
    <2>2. after = CHOOSE f : f = [i \in 0 .. b |-> Step(f, i)]
      BY Zenon DEF DecodeStep
    <2> HIDE DEF after
    <2> QED BY <2>1, <2>2
  <1> HIDE DEF after
  <1>3. ASSUME NEW s \in V, NEW i \in 1 .. b PROVE Next1(s, i) \in V
    <2>1. i \in 1 .. Len(text)
      BY <1>1
    <2>2. DecodeStep(s, i, b) \in V
      BY <1>1, <2>1, DecodeStepType
    <2> QED BY <1>1, <2>2
  <1> HIDE DEF V, init, Next1
  <1>4. Steps(step, b, V)
    <2>1. \A x \in (1 .. b) \X V : Next1(x[2], x[1]) \in V
      BY <1>1, <1>3
    <2> QED BY <2>1 DEF Steps
  <1>5. PICK f : Goes(f, init, step, b, V)
    <2> HIDE DEF step
    <2> QED BY <1>1, <1>4, Recursion
  <1>6. f \in [0 .. b -> V] /\ f[0] = init /\ \A i \in 1 .. b : f[i] = Next1(f[i - 1], i)
    <2>1. f \in [0 .. b -> V] /\ f[0] = init /\ \A i \in 1 .. b : f[i] = step[<<i, f[i - 1]>>]
      <3> HIDE DEF step
      <3> QED BY <1>5 DEF Goes
    <2>2. ASSUME NEW i \in 1 .. b PROVE f[i] = Next1(f[i - 1], i)
      <3>1. <<i, f[i - 1]>> \in (1 .. b) \X V
        BY <1>1, <2>1
      <3> QED BY <2>1, <3>1
    <2> QED BY <2>1, <2>2
  <1>7. f = [i \in 0 .. b |-> Step(f, i)]
    <2>1. ASSUME NEW i \in 0 .. b PROVE f[i] = Step(f, i)
      <3>1. i = 0 => f[i] = Step(f, i)
        BY <1>6
      <3>2. i # 0 => f[i] = Step(f, i)
        BY <1>6 DEF Next1
      <3> QED BY <3>1, <3>2
    <2> HIDE DEF Step
    <2> QED BY <1>6, <2>1
  <1>8. after = [i \in 0 .. b |-> Step(after, i)]
    <2> HIDE DEF Step
    <2> QED BY <1>2, <1>7
  <1>9. \A i \in 0 .. b : after[i] = Step(after, i)
    <2> HIDE DEF Step
    <2> QED BY <1>8
  <1>10. \A i \in 0 .. b : after[i] \in V
    <2> DEFINE Good == {i \in Nat : i <= b => after[i] \in V}
    <2>1. 0 \in Good
      BY <1>1, <1>9
    <2>2. ASSUME NEW i \in Nat, i \in Good PROVE i + 1 \in Good
      <3> SUFFICES ASSUME i + 1 <= b PROVE after[i + 1] \in V
        OBVIOUS
      <3>1. after[i] \in V /\ i + 1 \in 1 .. b /\ i + 1 \in 0 .. b /\ (i + 1) - 1 = i
        BY <1>1, <2>2
      <3>2. after[i + 1] = Next1(after[i], i + 1)
        BY <1>9, <3>1 DEF Next1
      <3> QED BY <1>3, <3>1, <3>2
    <2>3. Nat \subseteq Good
      <3> HIDE DEF Good
      <3> QED BY <2>1, <2>2, Induction
    <2> QED BY <1>1, <2>3
  <1>11. after[a - 1] = init
    <2>1. a - 1 \in 0 .. b /\ a - 1 < a
      OBVIOUS
    <2> QED BY <1>9, <2>1
  <1>12. \A i \in a .. b : after[i] = DecodeStep(after[i - 1], i, b)
    <2> TAKE i \in a .. b
    <2>1. i \in 0 .. b /\ ~(i < a)
      OBVIOUS
    <2> QED BY <1>9, <2>1
  <1>13. DecodeGoes(after, text, a, b)
    BY <1>10, <1>11, <1>12, Zenon DEF DecodeGoes, V, init
  <1>14. Decode(text, <<a, b>>) = Result(after)
    BY <1>2
  <1> QED BY <1>13, <1>14, Zenon

\* Position j of raw and position i of u, which ends at b, hold the same byte or escape
SameEscape(raw, j, u, i, b) ==
    /\ j \in 1 .. Len(raw) /\ raw[j] = u[i]
    /\ j \in Escapes(raw) <=> IsEscape(u, i, b)
    /\ IsEscape(u, i, b) => Escaped(raw, j) = Escaped(u, i)

\* An escape of a span is one of the text.
LEMMA EscapeShift ==
    ASSUME NEW text \in Seq(Byte), NEW b \in 1 .. Len(text), NEW a \in 1 .. b,
           NEW i \in a .. b, NEW u, \A k \in i .. b : u[k] = text[k]
    PROVE  SameEscape(SubSeq(text, a, b), i - a + 1, u, i, b)
  <1> DEFINE raw == SubSeq(text, a, b)
             j   == i - a + 1
  <1>1. /\ Len(raw) = b - a + 1 /\ \A k \in 1 .. b - a + 1 : raw[k] = text[a + k - 1]
        /\ Len(text) \in Nat
    <2>1. a \in Nat \ {0} /\ b \in Nat /\ b <= Len(text) /\ a <= b + 1 /\ Len(text) \in Nat
      BY LenProperties
    <2> QED BY <2>1, Piece
  <1>2. j \in 1 .. Len(raw)
    BY <1>1
  <1>3. raw[j] = u[i]
    BY <1>1, <1>2
  <1>4. j + 2 <= Len(raw) <=> i + 2 <= b
    BY <1>1
  <1>5. ASSUME i + 2 <= b PROVE raw[j + 1] = u[i + 1] /\ raw[j + 2] = u[i + 2]
    <2>1. j + 1 \in 1 .. b - a + 1 /\ j + 2 \in 1 .. b - a + 1
          /\ a + (j + 1) - 1 = i + 1 /\ a + (j + 2) - 1 = i + 2
          /\ i + 1 \in i .. b /\ i + 2 \in i .. b
      BY <1>5
    <2>2. raw[j + 1] = text[a + (j + 1) - 1] /\ raw[j + 2] = text[a + (j + 2) - 1]
      BY <1>1, <2>1
    <2> HIDE DEF raw, j
    <2> QED BY <2>1, <2>2
  <1> HIDE DEF raw, j
  <1>6. j \in Escapes(raw) <=> IsEscape(u, i, b)
    BY <1>2, <1>3, <1>4, <1>5 DEF Escapes, IsEscape
  <1>7. IsEscape(u, i, b) => Escaped(raw, j) = Escaped(u, i)
    BY <1>5 DEF IsEscape, Escaped
  <1>8. SameEscape(raw, j, u, i, b)
    BY <1>2, <1>3, <1>6, <1>7 DEF SameEscape
  <1> QED BY <1>8 DEF raw, j

\* The state when the first j bytes of the span, raw, have been read
Decoding(text, a, raw, d, s, j) ==
    /\ s \in DecodeStates(Len(text))
    /\ s.to \in a - 1 .. a + j - 1
    /\ \A k \in 1 .. Len(text) : k < a \/ k > s.to => s.text[k] = text[k]
    /\ s.ok => /\ s.next = a + j + (IF j \in Escapes(raw) THEN 2
                                    ELSE IF j - 1 \in Escapes(raw) THEN 1 ELSE 0)
               /\ SubSeq(s.text, a, s.to) = d[j]
               /\ \A k \in a .. s.to : s.text[k] # NUL

\* A turn decodes one byte, an escape, or nothing.
LEMMA DecodeTurn ==
    ASSUME NEW text \in Seq(Byte), NEW b \in 1 .. Len(text), NEW a \in 1 .. b,
           \A k \in a .. b : text[k] # NUL,
           NEW raw, raw = SubSeq(text, a, b), NEW d, Decodes(d, raw),
           NEW j \in 0 .. b - a, NEW s, Decoding(text, a, raw, d, s, j)
    PROVE  Decoding(text, a, raw, d, DecodeStep(s, a + j, b), j + 1)
  <1>0. PICK i \in a .. b : i = a + j
    <2>1. a + j \in a .. b
      OBVIOUS
    <2> QED BY <2>1
  <1> SUFFICES Decoding(text, a, raw, d, DecodeStep(s, i, b), j + 1)
    BY <1>0
  <1> DEFINE E      == Escapes(raw)
             escape == IsEscape(s.text, i, b)
             byte   == IF escape THEN Escaped(s.text, i)
                       ELSE IF s.text[i] = Plus THEN Space ELSE s.text[i]
             u      == DecodeStep(s, i, b)
  <1>1. /\ Len(text) \in Nat /\ raw \in Seq(Byte) /\ Len(raw) = b - a + 1
        /\ i - a + 1 = j + 1 /\ j + 1 \in 1 .. Len(raw) /\ i \in 1 .. Len(text)
    <2>1. Len(text) \in Nat
      BY LenProperties
    <2>2. a \in Nat \ {0} /\ b \in Nat /\ b <= Len(text) /\ a <= b + 1
      BY <2>1
    <2>3. raw \in Seq(Byte) /\ Len(raw) = b - a + 1
      BY <2>2, Piece
    <2> QED BY <1>0, <2>1, <2>3
  <1>2. /\ s \in DecodeStates(Len(text))
        /\ s.text \in Seq(Byte) /\ Len(s.text) = Len(text) /\ s.to \in Int /\ s.next \in Int
        /\ s.to \in a - 1 .. i - 1
        /\ \A k \in 1 .. Len(text) : k < a \/ k > s.to => s.text[k] = text[k]
    <2>1. a + j - 1 = i - 1
      BY <1>0
    <2> QED BY <2>1 DEF Decoding, DecodeStates
  <1>3. \A k \in i .. b : s.text[k] = text[k]
    <2> TAKE k \in i .. b
    <2>1. k \in 1 .. Len(text) /\ k > s.to
      BY <1>1, <1>2
    <2> QED BY <1>2, <2>1
  <1>4. /\ raw[j + 1] = s.text[i] /\ (j + 1 \in E <=> escape)
        /\ escape => Escaped(raw, j + 1) = Escaped(s.text, i)
    <2>1. /\ i - a + 1 \in 1 .. Len(SubSeq(text, a, b))
          /\ SubSeq(text, a, b)[i - a + 1] = s.text[i]
          /\ i - a + 1 \in Escapes(SubSeq(text, a, b)) <=> IsEscape(s.text, i, b)
          /\ IsEscape(s.text, i, b) => Escaped(SubSeq(text, a, b), i - a + 1) = Escaped(s.text, i)
      <3>1. PICK v : v = s.text
        OBVIOUS
      <3>2. \A k \in i .. b : v[k] = text[k]
        BY <1>3, <3>1
      <3>3. SameEscape(SubSeq(text, a, b), i - a + 1, v, i, b)
        BY <3>2, EscapeShift
      <3> QED BY <3>1, <3>3 DEF SameEscape
    <2> QED BY <1>1, <2>1, Zenon
  <1>5. byte = ByteAt(raw, j + 1)
    BY <1>4, Zenon DEF ByteAt
  <1>6. d[j + 1] = IF j \in E \/ j - 1 \in E THEN d[j] ELSE Append(d[j], ByteAt(raw, j + 1))
    <2>1. (j + 1) - 1 = j /\ (j + 1) - 2 = j - 1
      OBVIOUS
    <2> QED BY <1>1, <2>1 DEF Decodes
  <1>7. /\ j \in E => j + 1 \notin E
        /\ j - 1 \in E => j + 1 \notin E /\ j \notin E
    <2>1. (j - 1) + 1 = j /\ (j - 1) + 2 = j + 1
      OBVIOUS
    <2> QED BY <1>1, <2>1, EscapesApart
  <1>8. byte \in Byte
    BY <1>1, <1>5, ByteAtType
  <1>9. ~escape => byte # NUL
    <2>1. s.text[i] # NUL
      BY <1>1, <1>3
    <2> QED BY <2>1 DEF Space, NUL
  <1>10. a + (j + 1) - 1 = i /\ (j + 1) - 1 = j /\ a + (j + 1) = i + 1
    BY <1>0
  <1>11. s.ok => /\ s.next = i + (IF j \in E THEN 2 ELSE IF j - 1 \in E THEN 1 ELSE 0)
                 /\ SubSeq(s.text, a, s.to) = d[j]
                 /\ \A k \in a .. s.to : s.text[k] # NUL
    BY <1>0 DEF Decoding
  <1> HIDE DEF byte, E, escape
  <1>12. CASE ~s.ok
    <2>1. u = s
      BY <1>12 DEF DecodeStep
    <2>2. s.to \in a - 1 .. a + (j + 1) - 1
      <3>1. s.to \in a - 1 .. i
        BY <1>2
      <3> QED BY <1>10, <3>1
    <2> QED BY <1>2, <1>12, <2>1, <2>2 DEF Decoding
  <1>13. CASE s.ok /\ (j \in E \/ j - 1 \in E)
    <2>1. i < s.next
      BY <1>1, <1>11, <1>13
    <2>2. u = s
      BY <2>1 DEF DecodeStep
    <2>3. s.to \in a - 1 .. a + (j + 1) - 1
      <3>1. s.to \in a - 1 .. i
        BY <1>2
      <3> QED BY <1>10, <3>1
    <2>4. d[j + 1] = d[j]
      BY <1>6, <1>13
    <2>5. s.next = a + (j + 1) + (IF j + 1 \in E THEN 2 ELSE IF (j + 1) - 1 \in E THEN 1 ELSE 0)
      <3>1. j + 1 \notin E /\ i \in Int
        BY <1>7, <1>13
      <3>2. CASE j \in E
        <4>1. s.next = i + 2 /\ (j + 1) - 1 \in E
          BY <1>10, <1>11, <1>13, <3>2
        <4> QED BY <1>10, <3>1, <4>1
      <3>3. CASE j \notin E
        <4>1. s.next = i + 1 /\ (j + 1) - 1 \notin E
          BY <1>10, <1>11, <1>13, <3>3
        <4> QED BY <1>10, <3>1, <4>1
      <3> QED BY <3>2, <3>3
    <2> QED BY <1>2, <1>11, <2>2, <2>3, <2>4, <2>5 DEF Decoding, E
  <1>14. CASE s.ok /\ ~(j \in E \/ j - 1 \in E)
    <2>1. ~(i < s.next \/ ~s.ok)
      BY <1>1, <1>11, <1>14
    <2>2. u = IF escape /\ byte = NUL THEN [s EXCEPT !.ok = FALSE]
              ELSE [s EXCEPT !.text = Overwrite(@, s.to + 1, <<byte>>), !.to = @ + 1,
                             !.next = i + (IF escape THEN 3 ELSE 1)]
      BY <2>1, Zenon DEF DecodeStep, byte, escape
    <2>3. CASE escape /\ byte = NUL
      <3>1. u.text = s.text /\ u.to = s.to /\ u.ok = FALSE /\ u \in DecodeStates(Len(text))
        BY <1>2, <2>2, <2>3 DEF DecodeStates
      <3>2. u.to \in a - 1 .. a + (j + 1) - 1
        BY <1>1, <1>2, <1>10, <3>1
      <3> HIDE DEF u
      <3>3. Decoding(text, a, raw, d, u, j + 1)
        BY <1>2, <3>1, <3>2 DEF Decoding
      <3> QED BY <3>3 DEF u
    <2>4. CASE ~(escape /\ byte = NUL)
      <3> DEFINE w == s.to
                 o == Overwrite(s.text, w + 1, <<byte>>)
      <3>1. PICK n \in Nat, t \in Seq(Byte) : n = w /\ t = s.text /\ n < Len(t) /\ a \in 1 .. n + 1
        <4>1. w \in Nat /\ w < Len(s.text) /\ a \in 1 .. w + 1
          BY <1>1, <1>2
        <4> HIDE DEF w
        <4> QED BY <1>2, <4>1
      <3>2. /\ o \in Seq(Byte) /\ Len(o) = Len(text)
            /\ \A k \in 1 .. Len(text) : o[k] = IF k = n + 1 THEN byte ELSE s.text[k]
            /\ SubSeq(o, a, n + 1) = Append(SubSeq(s.text, a, n), byte)
        <4>1. PICK c \in Byte : c = byte
          BY <1>8
        <4>2. PICK m \in 1 .. n + 1 : m = a
          BY <3>1
        <4> DEFINE v == Overwrite(t, n + 1, <<c>>)
        <4>3. OneMore(v, t, n, c, m)
          BY <3>1, OverwriteOne
        <4>4. v = o
          BY <3>1, <4>1 DEF o
        <4> HIDE DEF w, v
        <4> QED BY <1>2, <3>1, <4>1, <4>2, <4>3, <4>4 DEF OneMore
      <3> HIDE DEF o
      <3>3. /\ u \in DecodeStates(Len(text)) /\ u.text = o /\ u.to = n + 1 /\ u.ok
            /\ u.next = i + (IF escape THEN 3 ELSE 1)
        <4>1. u = [text |-> o, to |-> n + 1, next |-> i + (IF escape THEN 3 ELSE 1), ok |-> s.ok]
          BY <1>2, <2>2, <2>4, <3>1 DEF DecodeStates, o
        <4>2. i + (IF escape THEN 3 ELSE 1) \in Int
          BY <1>1
        <4>3. s.ok = TRUE
          BY <1>2, <2>1 DEF DecodeStates
        <4>4. u \in [text : Seq(Byte), to : Int, next : Int, ok : BOOLEAN]
          <5>1. PICK next \in Int : next = i + (IF escape THEN 3 ELSE 1)
            BY <4>2
          <5>2. u = [text |-> o, to |-> n + 1, next |-> next, ok |-> TRUE] /\ o \in Seq(Byte)
            BY <3>2, <4>1, <4>3, <5>1
          <5> HIDE DEF u
          <5> QED BY <5>2
        <4>5. u.text = o /\ u.to = n + 1 /\ u.ok /\ u.next = i + (IF escape THEN 3 ELSE 1)
          BY <4>1, <4>3
        <4> HIDE DEF u
        <4> QED BY <3>2, <4>4, <4>5 DEF DecodeStates
      <3>4. u.to \in a - 1 .. a + (j + 1) - 1
        BY <1>1, <1>2, <1>10, <3>1, <3>3
      <3>5. \A k \in 1 .. Len(text) : k < a \/ k > u.to => u.text[k] = text[k]
        <4> TAKE k \in 1 .. Len(text)
        <4> HAVE k < a \/ k > u.to
        <4>1. k # n + 1 /\ (k < a \/ k > s.to)
          BY <1>1, <1>2, <3>1, <3>3
        <4> QED BY <1>2, <3>2, <3>3, <4>1
      <3>6. u.next = a + (j + 1) + (IF j + 1 \in E THEN 2 ELSE IF (j + 1) - 1 \in E THEN 1 ELSE 0)
        <4>1. i \in Int
          BY <1>1
        <4>2. j + 1 \in E <=> escape
          BY <1>4 DEF E, escape
        <4> QED BY <1>10, <1>14, <3>3, <4>1, <4>2
      <3>7. SubSeq(u.text, a, u.to) = d[j + 1]
        <4>1. d[j + 1] = Append(d[j], byte)
          BY <1>5, <1>6, <1>14
        <4>2. SubSeq(s.text, a, n) = d[j]
          BY <1>11, <1>14, <3>1
        <4> QED BY <3>2, <3>3, <4>1, <4>2
      <3>8. \A k \in a .. u.to : u.text[k] # NUL
        <4> TAKE k \in a .. u.to
        <4>1. k \in 1 .. Len(text) /\ (k = n + 1 \/ k \in a .. s.to)
          <5>1. k \in a .. n + 1 /\ n + 1 <= Len(text)
            BY <1>2, <3>1, <3>3
          <5> QED BY <1>1, <3>1, <5>1
        <4>2. byte # NUL
          BY <1>9, <2>4
        <4>3. k \in a .. s.to => s.text[k] # NUL
          BY <1>11, <1>14
        <4> QED BY <3>2, <3>3, <4>1, <4>2, <4>3
      <3> HIDE DEF u
      <3>9. Decoding(text, a, raw, d, u, j + 1)
        BY <3>3, <3>4, <3>5, <3>6, <3>7, <3>8 DEF Decoding, E
      <3> QED BY <3>9 DEF u
    <2> QED BY <2>3, <2>4
  <1> QED BY <1>12, <1>13, <1>14

\* What decoding a span leaves
DecodedSpan(c, text, a, b) ==
    /\ c.text \in Seq(Byte) /\ Len(c.text) = Len(text) /\ c.ok \in BOOLEAN
    /\ \A k \in 1 .. Len(text) : k < a \/ k > b => c.text[k] = text[k]
    /\ \E e \in a - 1 .. b :
          /\ c.span = <<a, e>>
          /\ c.ok => /\ SubSeq(c.text, a, e) = Decoded(SubSeq(text, a, b))
                     /\ \A k \in a .. e : c.text[k] # NUL

\* Decoding changes the bytes of the span only, and leaves what the span decodes to.
LEMMA DecodeIs ==
    ASSUME NEW text \in Seq(Byte), NEW b \in 1 .. Len(text), NEW a \in 1 .. b,
           \A k \in a .. b : text[k] # NUL
    PROVE  DecodedSpan(Decode(text, <<a, b>>), text, a, b)
  <1> DEFINE raw == SubSeq(text, a, b)
             c   == Decode(text, <<a, b>>)
  <1>1. PICK f : /\ DecodeGoes(f, text, a, b)
                 /\ c = [text |-> f[b].text, span |-> <<a, f[b].to>>, ok |-> f[b].ok]
    BY DecodeSteps
  <1> HIDE DEF c
  <1>2. raw \in Seq(Byte) /\ Len(raw) = b - a + 1
    <2>1. a \in Nat \ {0} /\ b \in Nat /\ b <= Len(text) /\ a <= b + 1
      OBVIOUS
    <2> QED BY <2>1, Piece
  <1>3. PICK d : Decodes(d, raw) /\ Decoded(raw) = d[Len(raw)]
    BY <1>2, DecodedSteps
  <1> DEFINE Good == {j \in Nat : j <= b - a + 1 => Decoding(text, a, raw, d, f[a + j - 1], j)}
  <1>4. 0 \in Good
    <2>1. a + 0 - 1 = a - 1 /\ a - 1 \in 0 .. b
      OBVIOUS
    <2>2. f[a - 1] = [text |-> text, to |-> a - 1, next |-> a, ok |-> TRUE]
          /\ f[a - 1] \in DecodeStates(Len(text))
      BY <1>1, <2>1 DEF DecodeGoes
    <2>3. 0 \notin Escapes(raw) /\ 0 - 1 \notin Escapes(raw)
      BY DEF Escapes
    <2>4. SubSeq(text, a, a - 1) = d[0]
      <3>1. SubSeq(text, a, a - 1) = << >>
        BY SubSeqEmpty
      <3> QED BY <1>3, <3>1 DEF Decodes
    <2> DEFINE s == f[a - 1]
    <2>5. s.text = text /\ s.to = a - 1 /\ s.next = a /\ s.ok
      BY <2>2
    <2> HIDE DEF s
    <2>6. a = a + 0 + (IF 0 \in Escapes(raw) THEN 2 ELSE IF 0 - 1 \in Escapes(raw) THEN 1 ELSE 0)
      BY <2>3
    <2>7. a - 1 \in a - 1 .. a + 0 - 1
      OBVIOUS
    <2>8. s \in DecodeStates(Len(text))
      BY <2>2 DEF s
    <2>9. Decoding(text, a, raw, d, s, 0)
      BY <2>4, <2>5, <2>6, <2>7, <2>8 DEF Decoding
    <2> QED BY <2>1, <2>9 DEF s
  <1>5. ASSUME NEW j \in Nat, j \in Good PROVE j + 1 \in Good
    <2> SUFFICES ASSUME j + 1 <= b - a + 1
                 PROVE  Decoding(text, a, raw, d, f[a + (j + 1) - 1], j + 1)
      OBVIOUS
    <2>1. j \in 0 .. b - a /\ a + (j + 1) - 1 = a + j /\ a + j \in a .. b /\ (a + j) - 1 = a + j - 1
      OBVIOUS
    <2>2. Decoding(text, a, raw, d, f[a + j - 1], j)
      BY <1>5, <2>1
    <2>3. f[a + j] = DecodeStep(f[a + j - 1], a + j, b)
      BY <1>1, <2>1 DEF DecodeGoes
    <2>4. Decoding(text, a, raw, d, DecodeStep(f[a + j - 1], a + j, b), j + 1)
      <3> HIDE DEF raw, Good
      <3>1. raw = SubSeq(text, a, b)
        BY DEF raw
      <3> QED BY <1>3, <2>1, <2>2, <3>1, DecodeTurn
    <2> QED BY <2>1, <2>3, <2>4
  <1>6. Decoding(text, a, raw, d, f[b], b - a + 1)
    <2>1. Nat \subseteq Good
      <3> HIDE DEF Good
      <3> QED BY <1>4, <1>5, Induction
    <2>2. b - a + 1 \in Nat /\ a + (b - a + 1) - 1 = b
      OBVIOUS
    <2>3. b - a + 1 \in Good
      BY <2>1, <2>2
    <2> QED BY <2>2, <2>3
  <1> HIDE DEF Good
  <1> DEFINE s == f[b]
  <1>7. /\ s.text \in Seq(Byte) /\ Len(s.text) = Len(text) /\ s.ok \in BOOLEAN
        /\ s.to \in a - 1 .. a + (b - a + 1) - 1
        /\ \A k \in 1 .. Len(text) : k < a \/ k > s.to => s.text[k] = text[k]
        /\ s.ok => /\ SubSeq(s.text, a, s.to) = d[b - a + 1]
                   /\ \A k \in a .. s.to : s.text[k] # NUL
    <2> HIDE DEF s, raw
    <2>1. Decoding(text, a, raw, d, s, b - a + 1)
      BY <1>6 DEF s
    <2> QED BY <2>1 DEF Decoding, DecodeStates
  <1>8. c.text = s.text /\ c.span = <<a, s.to>> /\ c.ok = s.ok
    BY <1>1
  <1>9. a + (b - a + 1) - 1 = b
    OBVIOUS
  <1> HIDE DEF s
  <1>10. s.to \in a - 1 .. b
    BY <1>7, <1>9
  <1>11. \A k \in 1 .. Len(text) : k < a \/ k > b => s.text[k] = text[k]
    <2> TAKE k \in 1 .. Len(text)
    <2> HAVE k < a \/ k > b
    <2>1. k < a \/ k > s.to
      BY <1>10
    <2> QED BY <1>7, <2>1
  <1>12. s.ok => SubSeq(s.text, a, s.to) = Decoded(raw)
    BY <1>2, <1>3, <1>7
  <1>13. DecodedSpan(c, text, a, b)
    BY <1>7, <1>8, <1>10, <1>11, <1>12 DEF DecodedSpan
  <1> QED BY <1>13 DEF c

LEMMA DecodeType ==
    ASSUME NEW text \in Seq(Byte), NEW b \in 1 .. Len(text), NEW a \in 1 .. b
    PROVE  /\ Decode(text, <<a, b>>).text \in Seq(Byte)
           /\ Len(Decode(text, <<a, b>>).text) = Len(text)
           /\ Decode(text, <<a, b>>).span \in Int \X Int
           /\ Decode(text, <<a, b>>).ok \in BOOLEAN
  <1>1. PICK f : /\ DecodeGoes(f, text, a, b)
                 /\ Decode(text, <<a, b>>)
                      = [text |-> f[b].text, span |-> <<a, f[b].to>>, ok |-> f[b].ok]
    BY DecodeSteps
  <1>2. f[b] \in DecodeStates(Len(text))
    <2>1. b \in 0 .. b
      OBVIOUS
    <2> QED BY <1>1, <2>1 DEF DecodeGoes
  <1> QED BY <1>1, <1>2 DEF DecodeStates

-----------------------------------------------------------------------------
(* The parameters of a route                                               *)

\* Spans that lie in the first len bytes, apart from each other
Sparse(spans, len) ==
    /\ DOMAIN spans \subseteq 2 .. len
    /\ \A i \in DOMAIN spans : spans[i] \in i .. len
    /\ \A i, j \in DOMAIN spans : i < j => spans[i] < j

LEMMA SpansSparse ==
    ASSUME NEW text, NEW len \in Nat, NEW spans \in Spans(text, len) PROVE Sparse(spans, len)
  <1> DEFINE Apart(S) == \A i, j \in S : i < j => SegmentEnd(text, len, i) < j
             Starting == {S \in SUBSET {i \in 2 .. len : text[i] # Slash} : Apart(S)}
  <1>1. PICK S \in Starting :
           \/ spans = [i \in S |-> SegmentEnd(text, len, i)]
           \/ spans = [i \in S |-> IF i = Max(S) THEN len ELSE SegmentEnd(text, len, i)]
    BY DEF Spans
  <1>2. S \subseteq 2 .. len /\ Apart(S) /\ \A i \in S : text[i] # Slash
    OBVIOUS
  <1>3. ASSUME NEW i \in S PROVE SegmentEnd(text, len, i) \in i .. len
    <2> DEFINE n == First(text, i, len, {Slash})
    <2>1. i \in Nat /\ i <= len + 1 /\ i <= len
      BY <1>2
    <2>2. /\ n \in i .. len + 1
          /\ n <= len => text[n] \in {Slash}
      BY <2>1, FirstOf
    <2>3. SegmentEnd(text, len, i) = n - 1
      BY DEF SegmentEnd
    <2> HIDE DEF n
    <2>4. n # i
      BY <1>2, <2>1, <2>2
    <2>5. n \in Nat /\ n - 1 \in i .. len
      <3> HIDE DEF Starting, Apart
      <3>1. n \in i .. len + 1 /\ n # i /\ i \in Nat /\ len \in Nat
        BY <2>1, <2>2, <2>4
      <3> QED BY <3>1
    <2> QED BY <2>3, <2>5
  <1>4. \A i, j \in S : i < j => i # Max(S)
    <2> TAKE i, j \in S
    <2> HAVE i < j
    <2>1. S \subseteq 0 .. len /\ S # {}
      BY <1>2
    <2>2. Max(S) \in S /\ \A y \in S : y <= Max(S)
      <3> HIDE DEF Starting
      <3> QED BY <2>1, GreatestOf
    <2>3. j <= Max(S) /\ i \in Nat /\ j \in Nat
      BY <1>2, <2>2
    <2> QED BY <2>3
  <1>5. DOMAIN spans = S
    BY <1>1
  <1>6. \A i \in S : spans[i] \in i .. len
    <2> TAKE i \in S
    <2>1. SegmentEnd(text, len, i) \in i .. len /\ len \in i .. len
      BY <1>2, <1>3
    <2> QED BY <1>1, <2>1
  <1>7. \A i, j \in S : i < j => spans[i] < j
    <2> TAKE i, j \in S
    <2> HAVE i < j
    <2>1. spans[i] = SegmentEnd(text, len, i)
      BY <1>1, <1>4
    <2> QED BY <1>2, <2>1
  <1> QED BY <1>2, <1>5, <1>6, <1>7 DEF Sparse

\* The parameter whose span begins at i is decoded, unless one before it was refused
CaptureNext(s, spans, i) ==
    IF s.ok /\ i \in DOMAIN spans
    THEN LET d == Decode(s.text, <<i, spans[i]>>)
         IN  [s EXCEPT !.text = d.text, !.params = Append(@, d.span), !.ok = d.ok]
    ELSE s

CaptureStates(len, total) ==
    {s \in [text : Seq(Byte), len : {len}, params : Seq(Int \X Int), ok : BOOLEAN] :
        Len(s.text) = total}

LEMMA CaptureNextIs ==
    ASSUME NEW total \in Nat, NEW len \in 0 .. total, NEW s \in CaptureStates(len, total),
           NEW spans, NEW i, s.ok, i \in DOMAIN spans,
           NEW d, d = Decode(s.text, <<i, spans[i]>>)
    PROVE  CaptureNext(s, spans, i)
             = [text |-> d.text, len |-> len, params |-> Append(s.params, d.span), ok |-> d.ok]
  <1>1. CaptureNext(s, spans, i)
          = [s EXCEPT !.text = d.text, !.params = Append(@, d.span), !.ok = d.ok]
    BY Zenon DEF CaptureNext
  <1>2. PICK t, p, o : s = [text |-> t, len |-> len, params |-> p, ok |-> o]
    BY DEF CaptureStates
  <1> QED BY <1>1, <1>2

LEMMA CaptureNextType ==
    ASSUME NEW total \in Nat, NEW len \in 0 .. total, NEW s \in CaptureStates(len, total),
           NEW spans, Sparse(spans, len), NEW i \in 1 .. len
    PROVE  CaptureNext(s, spans, i) \in CaptureStates(len, total)
  <1>1. CASE ~(s.ok /\ i \in DOMAIN spans)
    BY <1>1 DEF CaptureNext
  <1>2. CASE s.ok /\ i \in DOMAIN spans
    <2> DEFINE d == Decode(s.text, <<i, spans[i]>>)
    <2>1. s.text \in Seq(Byte) /\ Len(s.text) = total /\ s.params \in Seq(Int \X Int)
      BY DEF CaptureStates
    <2>2. PICK b \in 1 .. Len(s.text) : b = spans[i] /\ i <= b
      BY <1>2, <2>1 DEF Sparse
    <2>3. i \in 1 .. b
      BY <2>2
    <2>4. d.text \in Seq(Byte) /\ Len(d.text) = total /\ d.span \in Int \X Int /\ d.ok \in BOOLEAN
      BY <2>1, <2>2, <2>3, DecodeType
    <2> HIDE DEF d
    <2>5. Append(s.params, d.span) \in Seq(Int \X Int)
      <3> DEFINE V == Int \X Int
      <3> HIDE DEF V
      <3>1. s.params \in Seq(V) /\ d.span \in V
        BY <2>1, <2>4 DEF V
      <3>2. Append(s.params, d.span) \in Seq(V)
        BY <3>1, AppendProperties
      <3> QED BY <3>2 DEF V
    <2>6. CaptureNext(s, spans, i)
            = [text |-> d.text, len |-> len, params |-> Append(s.params, d.span), ok |-> d.ok]
      BY <1>2, CaptureNextIs DEF d
    <2> QED BY <2>4, <2>5, <2>6 DEF CaptureStates
  <1> QED BY <1>1, <1>2

\* The states after each position of the path
CaptureGoes(f, text, len, spans) ==
    /\ f[0] = [text |-> text, len |-> len, params |-> << >>, ok |-> TRUE]
    /\ \A i \in 0 .. len : f[i] \in CaptureStates(len, Len(text))
    /\ \A i \in 1 .. len : f[i] = CaptureNext(f[i - 1], spans, i)

LEMMA CaptureSteps ==
    ASSUME NEW text \in Seq(Byte), NEW len \in 1 .. Len(text), NEW spans, Sparse(spans, len),
           NEW n, n.text = text, n.len = len
    PROVE  \E f : CaptureGoes(f, text, len, spans) /\ Captured(n, spans) = f[len]
  <1> DEFINE V    == CaptureStates(len, Len(text))
             init == [text |-> text, len |-> len, params |-> << >>, ok |-> TRUE]
             Next1(s, i) == CaptureNext(s, spans, i)
             Step(f, i) == IF i = 0 THEN init ELSE Next1(f[i - 1], i)
             StepOf(s, span) == LET d == Decode(s.text, span)
                                IN  [s EXCEPT !.text = d.text, !.params = Append(@, d.span), !.ok = d.ok]
             after[i \in 0 .. n.len] ==
               IF i = 0 THEN [text |-> n.text, len |-> n.len, params |-> << >>, ok |-> TRUE]
               ELSE LET s == after[i - 1]
                    IN  IF s.ok /\ i \in DOMAIN spans THEN StepOf(s, <<i, spans[i]>>) ELSE s
             step == [x \in (1 .. len) \X V |-> Next1(x[2], x[1])]
  <1>1. Len(text) \in Nat /\ len \in Nat /\ len \in 0 .. Len(text) /\ init \in V
    <2>1. Len(text) \in Nat /\ << >> \in Seq(Int \X Int)
      BY LenProperties
    <2> QED BY <2>1 DEF CaptureStates
  <1>2. Captured(n, spans) = after[len] /\ after = CHOOSE f : f = [i \in 0 .. len |-> Step(f, i)]
    <2>1. Captured(n, spans) = after[n.len]
      BY DEF Captured
    <2>2. after = CHOOSE f : f = [i \in 0 .. len |-> Step(f, i)]
      BY Zenon DEF CaptureNext
    <2> HIDE DEF after
    <2> QED BY <2>1, <2>2
  <1> HIDE DEF after
  <1>3. ASSUME NEW s \in V, NEW i \in 1 .. len PROVE Next1(s, i) \in V
    BY <1>1, CaptureNextType
  <1> HIDE DEF V, init, Next1
  <1>4. Steps(step, len, V)
    <2>1. \A x \in (1 .. len) \X V : Next1(x[2], x[1]) \in V
      BY <1>1, <1>3
    <2> QED BY <2>1 DEF Steps
  <1>5. PICK f : Goes(f, init, step, len, V)
    <2> HIDE DEF step
    <2> QED BY <1>1, <1>4, Recursion
  <1>6. f \in [0 .. len -> V] /\ f[0] = init /\ \A i \in 1 .. len : f[i] = Next1(f[i - 1], i)
    <2>1. f \in [0 .. len -> V] /\ f[0] = init /\ \A i \in 1 .. len : f[i] = step[<<i, f[i - 1]>>]
      <3> HIDE DEF step
      <3> QED BY <1>5 DEF Goes
    <2>2. ASSUME NEW i \in 1 .. len PROVE f[i] = Next1(f[i - 1], i)
      <3>1. <<i, f[i - 1]>> \in (1 .. len) \X V
        BY <1>1, <2>1
      <3> QED BY <2>1, <3>1
    <2> QED BY <2>1, <2>2
  <1>7. f = [i \in 0 .. len |-> Step(f, i)]
    <2>1. ASSUME NEW i \in 0 .. len PROVE f[i] = Step(f, i)
      BY <1>6
    <2> HIDE DEF Step
    <2> QED BY <1>6, <2>1
  <1>8. after = [i \in 0 .. len |-> Step(after, i)]
    <2> HIDE DEF Step
    <2> QED BY <1>2, <1>7
  <1>9. \A i \in 0 .. len : after[i] = Step(after, i)
    <2> HIDE DEF Step
    <2> QED BY <1>8
  <1>10. after[0] = init /\ \A i \in 1 .. len : after[i] = Next1(after[i - 1], i)
    BY <1>1, <1>9
  <1>11. \A i \in 0 .. len : after[i] \in V
    <2> DEFINE Good == {i \in Nat : i <= len => after[i] \in V}
    <2>1. 0 \in Good
      BY <1>1, <1>10
    <2>2. ASSUME NEW i \in Nat, i \in Good PROVE i + 1 \in Good
      <3> SUFFICES ASSUME i + 1 <= len PROVE after[i + 1] \in V
        OBVIOUS
      <3>1. after[i] \in V /\ i + 1 \in 1 .. len /\ (i + 1) - 1 = i
        BY <1>1, <2>2
      <3>2. after[i + 1] = Next1(after[i], i + 1)
        BY <1>10, <3>1
      <3> QED BY <1>3, <3>1, <3>2
    <2>3. Nat \subseteq Good
      <3> HIDE DEF Good
      <3> QED BY <2>1, <2>2, Induction
    <2> QED BY <1>1, <2>3
  <1>12. CaptureGoes(after, text, len, spans)
    BY <1>10, <1>11, Zenon DEF CaptureGoes, V, init, Next1
  <1> QED BY <1>2, <1>12, Zenon

\* p is a parameter that begins within the first i bytes, decoded in u as what
\* its span is in text
CapturedParam(u, text, spans, i, p) ==
    \E m \in DOMAIN spans : \E e \in m - 1 .. spans[m] :
       /\ m <= i /\ p = <<m, e>>
       /\ SubSeq(u, m, e) = Decoded(SubSeq(text, m, spans[m]))
       /\ \A k \in m .. e : u[k] # NUL

\* The state when the first i bytes of the path have been looked at
Capturing(text, len, spans, s, i) ==
    /\ s \in CaptureStates(len, Len(text))
    /\ \A k \in 1 .. Len(text) :
          s.text[k] = text[k] \/ \E m \in DOMAIN spans : m <= i /\ k \in m .. spans[m]
    /\ s.ok => /\ \A m \in DOMAIN spans : m <= i => \E p \in Range(s.params) : p[1] = m
               /\ \A p \in Range(s.params) : CapturedParam(s.text, text, spans, i, p)

\* What a sequence has when an element is appended
LEMMA RangeAppend ==
    ASSUME NEW V, NEW q \in Seq(V), NEW x \in V
    PROVE  Range(Append(q, x)) = Range(q) \cup {x}
  <1> DEFINE r == Append(q, x)
  <1>1. /\ Len(q) \in Nat /\ DOMAIN q = 1 .. Len(q) /\ DOMAIN r = 1 .. Len(q) + 1
        /\ \A i \in 1 .. Len(q) : r[i] = q[i]
        /\ r[Len(q) + 1] = x
    <2>1. Len(q) \in Nat /\ DOMAIN q = 1 .. Len(q)
      BY LenProperties
    <2>2. /\ r \in Seq(V) /\ Len(r) = Len(q) + 1
          /\ \A i \in 1 .. Len(q) : r[i] = q[i]
          /\ r[Len(q) + 1] = x
      BY AppendProperties
    <2>3. DOMAIN r = 1 .. Len(r)
      BY <2>2, LenProperties
    <2> HIDE DEF r
    <2> QED BY <2>1, <2>2, <2>3
  <1> HIDE DEF r
  <1>2. \A i \in 1 .. Len(q) + 1 : i \in 1 .. Len(q) \/ i = Len(q) + 1
    BY <1>1
  <1>3. \A i \in 1 .. Len(q) : i \in 1 .. Len(q) + 1
    BY <1>1
  <1>4. Len(q) + 1 \in 1 .. Len(q) + 1
    BY <1>1
  <1>5. Range(r) = {r[i] : i \in 1 .. Len(q) + 1} /\ Range(q) = {q[i] : i \in 1 .. Len(q)}
    BY <1>1, Zenon DEF Range
  <1>6. ASSUME NEW y \in Range(r) PROVE y \in Range(q) \cup {x}
    BY <1>1, <1>2, <1>5
  <1>7. ASSUME NEW y \in Range(q) PROVE y \in Range(r)
    BY <1>1, <1>3, <1>5
  <1>8. x \in Range(r)
    BY <1>1, <1>4, <1>5
  <1>9. Range(r) = Range(q) \cup {x}
    BY <1>6, <1>7, <1>8
  <1> QED BY <1>9 DEF r

\* A position that no span begins at leaves everything as it is.
LEMMA CapturePasses ==
    ASSUME NEW text, NEW len, NEW spans, NEW i \in Nat, NEW s, DOMAIN spans \subseteq Nat,
           Capturing(text, len, spans, s, i), ~(s.ok /\ i + 1 \in DOMAIN spans)
    PROVE  Capturing(text, len, spans, s, i + 1)
  <1>1. \A m \in DOMAIN spans : m <= i => m <= i + 1
    OBVIOUS
  <1>2. \A k \in 1 .. Len(text) :
           s.text[k] = text[k] \/ \E m \in DOMAIN spans : m <= i + 1 /\ k \in m .. spans[m]
    BY <1>1 DEF Capturing
  <1>3. ASSUME s.ok
        PROVE  /\ \A m \in DOMAIN spans : m <= i + 1 => \E p \in Range(s.params) : p[1] = m
               /\ \A p \in Range(s.params) : CapturedParam(s.text, text, spans, i + 1, p)
    <2>1. \A m \in DOMAIN spans : m <= i + 1 => m <= i
      BY <1>3
    <2>2. ASSUME NEW p \in Range(s.params) PROVE CapturedParam(s.text, text, spans, i + 1, p)
      <3>1. CapturedParam(s.text, text, spans, i, p)
        BY <1>3 DEF Capturing
      <3> QED BY <1>1, <3>1 DEF CapturedParam
    <2> QED BY <1>3, <2>1, <2>2 DEF Capturing
  <1> QED BY <1>2, <1>3 DEF Capturing

\* A span that begins there is decoded; the parameters before it stay.
LEMMA CaptureTakes ==
    ASSUME NEW text \in Seq(Byte), NEW len \in 1 .. Len(text), NEW spans, Sparse(spans, len),
           \A k \in 1 .. len : text[k] # NUL,
           NEW i \in Nat, NEW q \in 1 .. len, q = i + 1, NEW s, Capturing(text, len, spans, s, i),
           s.ok, q \in DOMAIN spans
    PROVE  Capturing(text, len, spans, CaptureNext(s, spans, q), q)
  <1> DEFINE total == Len(text)
             d == Decode(s.text, <<q, spans[q]>>)
             o == CaptureNext(s, spans, q)
  <1>1. /\ total \in Nat /\ s \in CaptureStates(len, total)
        /\ s.text \in Seq(Byte) /\ Len(s.text) = total /\ s.params \in Seq(Int \X Int)
    <2>1. total \in Nat
      BY LenProperties
    <2> QED BY <2>1 DEF Capturing, CaptureStates
  <1>2. PICK b \in 1 .. Len(s.text) : b = spans[q] /\ q <= b /\ b <= len
    BY <1>1 DEF Sparse
  <1>3. q \in 1 .. b
    BY <1>2
  <1>4. ASSUME NEW m \in DOMAIN spans, m <= i
        PROVE  m \in Nat \ {0} /\ spans[m] \in m .. len /\ spans[m] < q
    <2>1. m \in 2 .. len /\ spans[m] \in m .. len
      BY DEF Sparse
    <2>2. m < q
      BY <1>4, <2>1
    <2>3. spans[m] < q
      BY <2>2 DEF Sparse
    <2> QED BY <2>1, <2>3
  <1>5. \A k \in q .. total : s.text[k] = text[k]
    <2> TAKE k \in q .. total
    <2>1. k \in 1 .. total
      BY <1>1
    <2>2. ASSUME NEW m \in DOMAIN spans, m <= i, k \in m .. spans[m] PROVE FALSE
      <3>1. spans[m] \in m .. len /\ spans[m] < q
        BY <1>4, <2>2
      <3> QED BY <2>2, <3>1
    <2> QED BY <2>1, <2>2 DEF Capturing
  <1>6. \A k \in q .. b : s.text[k] # NUL
    <2> TAKE k \in q .. b
    <2>1. k \in q .. total /\ k \in 1 .. len
      BY <1>1, <1>2
    <2> QED BY <1>5, <2>1
  <1>7. DecodedSpan(d, s.text, q, b)
    BY <1>1, <1>2, <1>3, <1>6, DecodeIs
  <1>8. SubSeq(s.text, q, b) = SubSeq(text, q, b)
    <2>1. \A k \in q .. b : s.text[k] = text[k]
      <3> TAKE k \in q .. b
      <3>1. k \in q .. total
        BY <1>1, <1>2
      <3> QED BY <1>5, <3>1
    <2>2. q \in Nat \ {0} /\ b \in Nat /\ b <= Len(s.text) /\ b <= Len(text)
      BY <1>1, <1>2
    <2> QED BY <1>1, <2>1, <2>2, SamePiece
  <1>9. o = [text |-> d.text, len |-> len, params |-> Append(s.params, d.span), ok |-> d.ok]
    <2>1. len \in 0 .. total /\ total \in Nat /\ s \in CaptureStates(len, total)
      BY <1>1
    <2>2. d = Decode(s.text, <<q, spans[q]>>)
      OBVIOUS
    <2>3. CaptureNext(s, spans, q)
            = [s EXCEPT !.text = d.text, !.params = Append(@, d.span), !.ok = d.ok]
      BY <2>2, Zenon DEF CaptureNext
    <2>4. PICK u, p, x : s = [text |-> u, len |-> len, params |-> p, ok |-> x]
      BY <2>1 DEF CaptureStates
    <2> HIDE DEF d
    <2> QED BY <2>3, <2>4
  <1>10. o \in CaptureStates(len, total)
    <2>1. len \in 0 .. total
      BY <1>1
    <2> QED BY <1>1, <2>1, CaptureNextType
  <1>11. PICK e \in q - 1 .. b :
            /\ d.span = <<q, e>>
            /\ d.ok => /\ SubSeq(d.text, q, e) = Decoded(SubSeq(text, q, b))
                       /\ \A k \in q .. e : d.text[k] # NUL
    BY <1>7, <1>8 DEF DecodedSpan
  <1>12. \A k \in 1 .. total : k < q \/ k > b => d.text[k] = s.text[k]
    BY <1>1, <1>7 DEF DecodedSpan
  <1>13. d.text \in Seq(Byte) /\ Len(d.text) = total
    BY <1>1, <1>7 DEF DecodedSpan
  <1>14. Range(Append(s.params, d.span)) = Range(s.params) \cup {<<q, e>>}
    <2> DEFINE V == Int \X Int
    <2>1. d.span \in V
      <3> HIDE DEF d
      <3>1. d.span = <<q, e>>
        BY <1>11
      <3>2. q \in Int /\ e \in Int
        OBVIOUS
      <3> QED BY <3>1, <3>2
    <2> HIDE DEF V, d
    <2>2. s.params \in Seq(V)
      BY <1>1 DEF V
    <2>3. Range(Append(s.params, d.span)) = Range(s.params) \cup {d.span}
      BY <2>1, <2>2, RangeAppend
    <2> QED BY <1>11, <2>3
  <1> HIDE DEF d
  <1>15. o.text = d.text /\ o.ok = d.ok /\ o.params = Append(s.params, d.span)
    BY <1>9
  <1> HIDE DEF o
  <1>16. \A m \in DOMAIN spans : m <= i => m <= q
    <2> TAKE m \in DOMAIN spans
    <2> HAVE m <= i
    <2>1. m \in Nat
      BY <1>4
    <2> QED BY <2>1
  <1>17. \A k \in 1 .. total :
            o.text[k] = text[k] \/ \E m \in DOMAIN spans : m <= q /\ k \in m .. spans[m]
    <2> TAKE k \in 1 .. total
    <2>1. CASE k \in q .. b
      <3>1. q <= q /\ k \in q .. spans[q]
        BY <1>2, <2>1
      <3> QED BY <3>1
    <2>2. CASE k \notin q .. b
      <3>1. o.text[k] = s.text[k]
        BY <1>2, <1>12, <1>15, <2>2
      <3>2. s.text[k] = text[k] \/ \E m \in DOMAIN spans : m <= i /\ k \in m .. spans[m]
        BY DEF Capturing
      <3> QED BY <1>16, <3>1, <3>2
    <2> QED BY <2>1, <2>2
  <1>18. ASSUME NEW m \in DOMAIN spans, m <= q PROVE \E p \in Range(o.params) : p[1] = m
    <2>1. CASE m = q
      <3>1. <<q, e>>[1] = q
        OBVIOUS
      <3> QED BY <1>14, <1>15, <2>1, <3>1
    <2>2. CASE m # q
      <3>1. m <= i
        <4>1. m \in Nat
          BY DEF Sparse
        <4> QED BY <1>18, <2>2, <4>1
      <3>2. PICK p \in Range(s.params) : p[1] = m
        BY <3>1 DEF Capturing
      <3> QED BY <1>14, <1>15, <3>2
    <2> QED BY <2>1, <2>2
  <1>19. ASSUME o.ok, NEW p \in Range(o.params) PROVE CapturedParam(o.text, text, spans, q, p)
    <2>1. CASE p = <<q, e>>
      <3>1. /\ q \in DOMAIN spans /\ e \in q - 1 .. spans[q] /\ q <= q
            /\ SubSeq(o.text, q, e) = Decoded(SubSeq(text, q, spans[q]))
            /\ \A k \in q .. e : o.text[k] # NUL
        BY <1>2, <1>11, <1>15, <1>19
      <3> QED BY <2>1, <3>1 DEF CapturedParam
    <2>2. CASE p # <<q, e>>
      <3>1. p \in Range(s.params)
        BY <1>14, <1>15, <1>19, <2>2
      <3>2. CapturedParam(s.text, text, spans, i, p)
        BY <3>1 DEF Capturing
      <3>3. PICK m \in DOMAIN spans : \E h \in m - 1 .. spans[m] :
               /\ m <= i /\ p = <<m, h>>
               /\ SubSeq(s.text, m, h) = Decoded(SubSeq(text, m, spans[m]))
               /\ \A k \in m .. h : s.text[k] # NUL
        BY <3>2 DEF CapturedParam
      <3>4. PICK h \in m - 1 .. spans[m] :
               /\ m <= i /\ p = <<m, h>>
               /\ SubSeq(s.text, m, h) = Decoded(SubSeq(text, m, spans[m]))
               /\ \A k \in m .. h : s.text[k] # NUL
        BY <3>3
      <3>5. m \in Nat \ {0} /\ spans[m] \in m .. len /\ spans[m] < q
        BY <1>4, <3>4
      <3>6. h \in Nat /\ h < q /\ h <= len /\ h <= total
        BY <1>1, <3>5
      <3>7. \A k \in m .. h : o.text[k] = s.text[k]
        <4> TAKE k \in m .. h
        <4>1. k \in 1 .. total /\ k < q
          BY <1>1, <3>5, <3>6
        <4> QED BY <1>12, <1>15, <4>1
      <3>8. SubSeq(o.text, m, h) = SubSeq(s.text, m, h)
        <4>1. o.text \in Seq(Byte) /\ Len(o.text) = total
          BY <1>13, <1>15
        <4>2. PICK u \in Seq(Byte), v \in Seq(Byte) : u = o.text /\ v = s.text
          BY <1>1, <4>1
        <4>3. h <= Len(u) /\ h <= Len(v) /\ \A k \in m .. h : u[k] = v[k]
          BY <1>1, <3>6, <3>7, <4>1, <4>2
        <4>4. m \in Nat \ {0} /\ h \in Nat
          BY <3>5, <3>6
        <4>5. SubSeq(u, m, h) = SubSeq(v, m, h)
          BY <4>3, <4>4, SamePiece
        <4> QED BY <4>2, <4>5
      <3>9. m <= q /\ \A k \in m .. h : o.text[k] # NUL
        BY <1>16, <3>4, <3>7
      <3> QED BY <3>4, <3>8, <3>9 DEF CapturedParam
    <2> QED BY <2>1, <2>2
  <1> QED BY <1>10, <1>17, <1>18, <1>19 DEF Capturing, o

LEMMA CaptureTurn ==
    ASSUME NEW text \in Seq(Byte), NEW len \in 1 .. Len(text), NEW spans, Sparse(spans, len),
           \A k \in 1 .. len : text[k] # NUL,
           NEW i \in Nat, i + 1 <= len, NEW s, Capturing(text, len, spans, s, i)
    PROVE  Capturing(text, len, spans, CaptureNext(s, spans, i + 1), i + 1)
  <1>1. PICK q \in 1 .. len : q = i + 1
    OBVIOUS
  <1>2. CASE ~(s.ok /\ q \in DOMAIN spans)
    <2>1. CaptureNext(s, spans, q) = s
      BY <1>2 DEF CaptureNext
    <2>2. DOMAIN spans \subseteq Nat
      BY DEF Sparse
    <2>3. Capturing(text, len, spans, s, i + 1)
      BY <1>1, <1>2, <2>2, CapturePasses
    <2> QED BY <1>1, <2>1, <2>3
  <1>3. CASE s.ok /\ q \in DOMAIN spans
    BY <1>1, <1>3, CaptureTakes
  <1> QED BY <1>2, <1>3

LEMMA CapturedIs ==
    ASSUME NEW text \in Seq(Byte), NEW len \in 1 .. Len(text), NEW spans, Sparse(spans, len),
           \A k \in 1 .. len : text[k] # NUL,
           NEW n, n.text = text, n.len = len
    PROVE  Capturing(text, len, spans, Captured(n, spans), len)
  <1>1. PICK f : CaptureGoes(f, text, len, spans) /\ Captured(n, spans) = f[len]
    BY CaptureSteps
  <1>2. len \in Nat
    BY LenProperties
  <1> DEFINE Good == {i \in Nat : i <= len => Capturing(text, len, spans, f[i], i)}
             s == [text |-> text, len |-> len, params |-> << >>, ok |-> TRUE]
  <1>3. 0 \in Good
    <2>1. f[0] = s /\ f[0] \in CaptureStates(len, Len(text))
      BY <1>1, <1>2 DEF CaptureGoes
    <2>2. s.text = text /\ s.params = << >>
      OBVIOUS
    <2>3. Range(<< >>) = {}
      BY DEF Range
    <2>4. \A m \in DOMAIN spans : ~(m <= 0)
      BY <1>2 DEF Sparse
    <2> HIDE DEF s
    <2>5. Capturing(text, len, spans, s, 0)
      BY <2>1, <2>2, <2>3, <2>4 DEF Capturing
    <2> QED BY <2>1, <2>5
  <1>4. ASSUME NEW i \in Nat, i \in Good PROVE i + 1 \in Good
    <2> SUFFICES ASSUME i + 1 <= len PROVE Capturing(text, len, spans, f[i + 1], i + 1)
      OBVIOUS
    <2>1. Capturing(text, len, spans, f[i], i)
      BY <1>2, <1>4
    <2>2. i + 1 \in 1 .. len /\ (i + 1) - 1 = i
      BY <1>2
    <2>3. f[i + 1] = CaptureNext(f[i], spans, i + 1)
      BY <1>1, <2>2 DEF CaptureGoes
    <2>4. Capturing(text, len, spans, CaptureNext(f[i], spans, i + 1), i + 1)
      BY <2>1, CaptureTurn
    <2> QED BY <2>3, <2>4
  <1>5. Nat \subseteq Good
    <2> HIDE DEF Good
    <2> QED BY <1>3, <1>4, Induction
  <1> QED BY <1>1, <1>2, <1>5

\* The bytes of a target, none of them NUL
Clean == 1 .. 255

LEMMA CleanBytes == ASSUME NEW s \in Seq(Clean) PROVE s \in Seq(Byte)
  <1>1. Clean \subseteq Byte
    BY DEF Clean, Byte
  <1>2. Len(s) \in Nat /\ s \in [1 .. Len(s) -> Clean]
    BY LenProperties
  <1>3. s \in [1 .. Len(s) -> Byte]
    BY <1>1, <1>2
  <1> QED BY <1>2, <1>3

\* Resolving a path makes no bytes that it has not.
LEMMA JoinedClean ==
    ASSUME NEW path \in Seq(Clean), NEW K PROVE Joined(path, K) \in Seq(Clean)
  <1>1. path \in Seq(Byte) /\ Len(path) \in Nat
    BY CleanBytes, LenProperties
  <1>2. PICK j : Joins(j, path, K) /\ Joined(path, K) = j[Len(path)]
    BY <1>1, JoinedSteps
  <1> DEFINE Good == {i \in Nat : i <= Len(path) => j[i] \in Seq(Clean)}
  <1>3. 0 \in Good
    BY <1>2 DEF Joins
  <1>4. ASSUME NEW i \in Nat, i \in Good PROVE i + 1 \in Good
    <2> SUFFICES ASSUME i + 1 <= Len(path) PROVE j[i + 1] \in Seq(Clean)
      OBVIOUS
    <2>1. j[i] \in Seq(Clean)
      BY <1>1, <1>4
    <2>2. PICK q \in 1 .. Len(path) : q = i + 1
      BY <1>1
    <2>3. q - 1 = i
      BY <2>2
    <2>4. Extended(j[i], path, q) \in Seq(Clean)
      <3>1. Segment(path, q) \in Seq(Clean)
        <4> DEFINE to == SegmentEnd(path, Len(path), q)
        <4>1. to \in q - 1 .. Len(path)
          BY <1>1, SegmentType
        <4> HIDE DEF to
        <4>2. path \in [1 .. Len(path) -> Clean]
          BY LenProperties
        <4>3. \A k \in q .. to : path[k] \in Clean
          <5> TAKE k \in q .. to
          <5>1. k \in 1 .. Len(path)
            BY <1>1, <4>1
          <5> QED BY <4>2, <5>1
        <4>4. SubSeq(path, q, to) \in Seq(Clean)
          BY <1>1, <4>1, <4>3, SubSeqProperties
        <4> QED BY <4>4 DEF Segment, to
      <3>2. <<Slash>> \in Seq(Clean)
        <4>1. Slash \in Clean
          BY DEF Slash, Clean
        <4> QED BY <4>1
      <3>3. j[i] \o <<Slash>> \in Seq(Clean)
        BY <2>1, <3>2, ConcatProperties
      <3>4. (j[i] \o <<Slash>>) \o Segment(path, q) \in Seq(Clean)
        BY <3>1, <3>3, ConcatProperties
      <3> QED BY <3>4 DEF Extended
    <2>5. j[q] = Extended(j[q - 1], path, q) \/ j[q] = j[q - 1]
      BY <1>2 DEF Joins
    <2> QED BY <2>1, <2>2, <2>3, <2>4, <2>5
  <1>5. Nat \subseteq Good
    <2> HIDE DEF Good
    <2> QED BY <1>3, <1>4, Induction
  <1> QED BY <1>1, <1>2, <1>5

LEMMA ResolvedClean ==
    ASSUME NEW path \in Seq(Clean)
    PROVE  /\ Resolved(path) \in Seq(Byte)
           /\ \A k \in 1 .. Len(Resolved(path)) : Resolved(path)[k] # NUL
  <1> DEFINE J == Joined(path, Kept(path))
             r == IF Last(path) = Slash \/ Kept(path) = {} THEN <<Slash>> ELSE << >>
  <1>1. J \in Seq(Clean)
    BY JoinedClean
  <1>2. r \in Seq(Clean)
    <2>1. Slash \in Clean
      BY DEF Slash, Clean
    <2>2. <<Slash>> \in Seq(Clean) /\ << >> \in Seq(Clean)
      BY <2>1
    <2> QED BY <2>2
  <1>3. Resolved(path) = J \o r
    BY DEF Resolved
  <1> HIDE DEF J, r
  <1>4. Resolved(path) \in Seq(Clean)
    <2>1. J \o r \in Seq(Clean)
      BY <1>1, <1>2, ConcatProperties
    <2> QED BY <1>3, <2>1
  <1>5. ASSUME NEW k \in 1 .. Len(Resolved(path)) PROVE Resolved(path)[k] # NUL
    <2>1. Resolved(path)[k] \in Clean
      BY <1>4, ElementOfSeq
    <2>2. NUL \notin Clean
      BY DEF Clean, NUL
    <2> QED BY <2>1, <2>2
  <1> QED BY <1>4, <1>5, CleanBytes

\* What a route may capture depends on the path only, not on what is behind it.
LEMMA SpansSame ==
    ASSUME NEW text, NEW path, NEW len \in Nat, \A k \in 1 .. len : text[k] = path[k],
           NEW spans \in Spans(text, len)
    PROVE  spans \in Spans(path, len)
  <1> DEFINE Apart(t, S) == \A i, j \in S : i < j => SegmentEnd(t, len, i) < j
             Starting(t) == {S \in SUBSET {i \in 2 .. len : t[i] # Slash} : Apart(t, S)}
  <1>1. PICK S \in Starting(text) :
           \/ spans = [i \in S |-> SegmentEnd(text, len, i)]
           \/ S # {} /\ spans = [i \in S |-> IF i = Max(S) THEN len ELSE SegmentEnd(text, len, i)]
    BY DEF Spans
  <1>2. S \subseteq 2 .. len /\ Apart(text, S) /\ \A i \in S : text[i] # Slash
    OBVIOUS
  <1>3. \A i \in S : SegmentEnd(text, len, i) = SegmentEnd(path, len, i)
    <2> TAKE i \in S
    <2>1. i \in Nat /\ i >= 1
      BY <1>2
    <2>2. \A k \in i .. len : text[k] = path[k]
      BY <2>1
    <2>3. First(text, i, len, {Slash}) = First(path, i, len, {Slash})
      BY <2>1, <2>2, FirstSame
    <2> QED BY <2>3 DEF SegmentEnd
  <1>4. S \in Starting(path)
    <2>1. \A i \in S : i \in 2 .. len /\ path[i] # Slash
      BY <1>2
    <2>2. Apart(path, S)
      BY <1>2, <1>3
    <2> QED BY <2>1, <2>2
  <1>5. \/ spans = [i \in S |-> SegmentEnd(path, len, i)]
        \/ S # {} /\ spans = [i \in S |-> IF i = Max(S) THEN len ELSE SegmentEnd(path, len, i)]
    <2> HIDE DEF Starting
    <2> QED BY <1>1, <1>3
  <1> QED BY <1>4, <1>5 DEF Spans

-----------------------------------------------------------------------------
(* The path and the parameters that the handlers see                       *)

\* The path of a target, a proper beginning of it or empty
LEMMA PathIs ==
    ASSUME NEW target \in Seq(Clean)
    PROVE  /\ PathOf(target) \in Seq(Clean)
           /\ Len(PathOf(target)) = First(target, 1, Len(target), {Question}) - 1
           /\ \/ Starts(PathOf(target), target)
              \/ PathOf(target) = << >> /\ Len(PathOf(target)) = 0
  <1> DEFINE n == First(target, 1, Len(target), {Question})
             path == PathOf(target)
  <1>1. target \in Seq(Byte) /\ Len(target) \in Nat
    BY CleanBytes, LenProperties
  <1>2. n \in 1 .. Len(target) + 1
    BY <1>1, FirstOf
  <1>3. path = SubSeq(target, 1, n - 1)
    BY DEF PathOf
  <1> HIDE DEF n, path
  <1>4. n - 1 \in Nat /\ n - 1 <= Len(target) /\ 1 <= (n - 1) + 1
    BY <1>1, <1>2
  <1>5. PICK m \in Nat : m = n - 1
    BY <1>4
  <1>6. /\ path \in Seq(Byte) /\ Len(path) = m - 1 + 1
        /\ \A i \in 1 .. m - 1 + 1 : path[i] = target[1 + i - 1]
    BY <1>1, <1>3, <1>4, <1>5, Piece
  <1>7. Len(path) = m /\ \A i \in 1 .. m : path[i] = target[i]
    BY <1>6
  <1>8. path \in Seq(Clean)
    <2>1. ASSUME NEW i \in 1 .. m PROVE target[i] \in Clean
      <3>1. i \in 1 .. Len(target)
        BY <1>1, <1>4, <1>5
      <3> QED BY <3>1, ElementOfSeq
    <2>2. SubSeq(target, 1, m) \in Seq(Clean)
      BY <1>1, <2>1, SubSeqProperties
    <2> QED BY <1>3, <1>5, <2>2
  <1>9. CASE m = 0
    <2>1. path = << >>
      BY <1>6, <1>7, <1>9, EmptySeq
    <2> QED BY <1>5, <1>7, <1>8, <1>9, <2>1 DEF n, path
  <1>10. CASE m # 0
    <2>1. Starts(path, target)
      BY <1>1, <1>4, <1>5, <1>6, <1>7, <1>10 DEF Starts
    <2> QED BY <1>5, <1>7, <1>8, <2>1 DEF n, path
  <1> QED BY <1>9, <1>10

\* What the handlers get when the parameters have been decoded
Given(v, path, spans) ==
    LET params == Range(v.params)
    IN  /\ {p[1] : p \in params} = DOMAIN spans
        /\ \A p \in params : /\ Bytes(v.text, p) = Decoded(SubSeq(path, p[1], spans[p[1]]))
                             /\ NUL \notin Range(Bytes(v.text, p))
        /\ v.len = Len(path)
        /\ \A i \in 1 .. Len(path) :
              v.text[i] = path[i] \/ \E k \in DOMAIN spans : i \in k .. spans[k]

\* What is behind position m of two strings is the same
SameBehind(t, u, m) == SubSeq(t, m, Len(t)) = SubSeq(u, m, Len(u))

LEMMA Behind ==
    ASSUME NEW t \in Seq(Byte), NEW u \in Seq(Byte), Len(t) = Len(u), NEW m \in Nat, NEW l \in Nat,
           l < m, \A k \in l + 1 .. Len(u) : t[k] = u[k]
    PROVE  SameBehind(t, u, m)
  <1>1. Len(u) \in Nat /\ m \in Nat \ {0}
    BY LenProperties
  <1>2. \A k \in m .. Len(u) : t[k] = u[k]
    BY <1>1
  <1>3. SubSeq(t, m, Len(u)) = SubSeq(u, m, Len(u))
    BY <1>1, <1>2, SamePiece
  <1> QED BY <1>3 DEF SameBehind

LEMMA CapturedGiven ==
    ASSUME NEW target \in Seq(Clean), NEW path, path = PathOf(target),
           NEW n, Normal(n, path, target),
           NEW spans \in Spans(n.text, n.len), NEW c, c = Captured(n, spans), c.ok
    PROVE  /\ spans \in Spans(Resolved(path), Len(Resolved(path)))
           /\ Given(c, Resolved(path), spans)
           /\ SameBehind(c.text, target, Len(path) + 2)
  <1> DEFINE text == n.text
             r    == Resolved(path)
  <1>1. /\ text \in Seq(Byte) /\ Len(text) = Len(target) /\ SubSeq(text, 1, n.len) = r
        /\ n.len \in 1 .. Len(path)
        /\ \A k \in Len(path) + 1 .. Len(target) : text[k] = target[k]
    BY DEF Normal
  <1>2. path \in Seq(Clean) /\ target \in Seq(Byte) /\ Len(target) \in Nat /\ path # << >>
    BY PathIs, CleanBytes, LenProperties DEF Normal
  <1>3. Len(path) \in Nat /\ Len(path) <= Len(target)
    <2>1. Starts(path, target)
      BY <1>2, PathIs
    <2> QED BY <2>1 DEF Starts
  <1>4. PICK len \in 1 .. Len(text) : len = n.len /\ len <= Len(path)
    BY <1>1, <1>2, <1>3
  <1>5. r \in Seq(Byte) /\ \A k \in 1 .. Len(r) : r[k] # NUL
    BY <1>2, ResolvedClean
  <1> HIDE DEF text, r
  <1>6. Len(r) = len /\ \A k \in 1 .. len : r[k] = text[k]
    <2>1. len \in Nat /\ len <= Len(text) /\ 1 <= len + 1 /\ 1 \in Nat \ {0}
      BY <1>1, <1>2
    <2>2. Len(SubSeq(text, 1, len)) = len - 1 + 1
          /\ \A k \in 1 .. len - 1 + 1 : SubSeq(text, 1, len)[k] = text[1 + k - 1]
      BY <1>1, <2>1, Piece
    <2>3. Len(r) = len - 1 + 1 /\ \A k \in 1 .. len - 1 + 1 : r[k] = text[1 + k - 1]
      BY <1>1, <1>4, <2>2
    <2> QED BY <2>3
  <1>7. \A k \in 1 .. len : text[k] # NUL
    BY <1>5, <1>6
  <1>8. spans \in Spans(text, len)
    BY <1>4 DEF text
  <1>9. len \in Nat
    OBVIOUS
  <1>10. Sparse(spans, len)
    BY <1>8, <1>9, SpansSparse
  <1>11. spans \in Spans(r, Len(r))
    <2>1. spans \in Spans(r, len)
      BY <1>6, <1>8, <1>9, SpansSame
    <2> QED BY <1>6, <2>1
  <1>12. Capturing(text, len, spans, c, len)
    <2>1. n.text = text /\ n.len = len
      BY <1>4 DEF text
    <2> QED BY <1>1, <1>7, <1>10, <2>1, CapturedIs
  <1>13. c.text \in Seq(Byte) /\ Len(c.text) = Len(text) /\ c.len = len
    BY <1>12 DEF Capturing, CaptureStates
  <1>14. \A m \in DOMAIN spans : m \in Nat \ {0} /\ m <= len /\ spans[m] \in m .. len
    BY <1>10 DEF Sparse
  <1>15. ASSUME NEW p \in Range(c.params)
         PROVE  /\ p[1] \in DOMAIN spans
                /\ Bytes(c.text, p) = Decoded(SubSeq(r, p[1], spans[p[1]]))
                /\ NUL \notin Range(Bytes(c.text, p))
    <2>1. CapturedParam(c.text, text, spans, len, p)
      BY <1>12 DEF Capturing
    <2>2. PICK m \in DOMAIN spans : \E e \in m - 1 .. spans[m] :
             /\ m <= len /\ p = <<m, e>>
             /\ SubSeq(c.text, m, e) = Decoded(SubSeq(text, m, spans[m]))
             /\ \A k \in m .. e : c.text[k] # NUL
      BY <2>1 DEF CapturedParam
    <2>3. PICK e \in m - 1 .. spans[m] :
             /\ m <= len /\ p = <<m, e>>
             /\ SubSeq(c.text, m, e) = Decoded(SubSeq(text, m, spans[m]))
             /\ \A k \in m .. e : c.text[k] # NUL
      BY <2>2
    <2>4. p[1] = m /\ p[2] = e
      BY <2>3
    <2>5. PICK i \in 1 .. len, b \in 1 .. len : i = m /\ b = spans[m] /\ i <= b
      BY <1>14
    <2>6. e \in Nat /\ e <= b /\ i <= e + 1
      BY <2>3, <2>5
    <2>7. SubSeq(text, i, b) = SubSeq(r, i, b)
      <3>1. \A k \in i .. b : text[k] = r[k]
        BY <1>6
      <3>2. i \in Nat \ {0} /\ b \in Nat /\ b <= Len(text) /\ b <= Len(r)
        BY <1>1, <1>2, <1>6
      <3> QED BY <1>1, <1>5, <3>1, <3>2, SamePiece
    <2>8. Bytes(c.text, p) = SubSeq(c.text, i, e)
      BY <2>4, <2>5 DEF Bytes
    <2>9. NUL \notin Range(SubSeq(c.text, i, e))
      <3>1. i \in Nat \ {0} /\ e <= Len(c.text)
        BY <1>1, <1>2, <1>13, <2>6
      <3>2. /\ SubSeq(c.text, i, e) \in Seq(Byte) /\ Len(SubSeq(c.text, i, e)) = e - i + 1
            /\ \A k \in 1 .. e - i + 1 : SubSeq(c.text, i, e)[k] = c.text[i + k - 1]
        BY <1>13, <2>6, <3>1, Piece
      <3>3. DOMAIN SubSeq(c.text, i, e) = 1 .. e - i + 1
        BY <3>2, LenProperties
      <3>4. ASSUME NEW k \in 1 .. e - i + 1 PROVE SubSeq(c.text, i, e)[k] # NUL
        <4>1. i + k - 1 \in m .. e
          BY <2>5, <2>6
        <4> QED BY <2>3, <3>2, <4>1
      <3> HIDE DEF text
      <3> QED BY <3>3, <3>4, Zenon DEF Range
    <2> QED BY <2>3, <2>4, <2>5, <2>7, <2>8, <2>9
  <1>16. {p[1] : p \in Range(c.params)} = DOMAIN spans
    <2>1. \A m \in DOMAIN spans : \E p \in Range(c.params) : p[1] = m
      BY <1>12, <1>14 DEF Capturing
    <2>2. \A p \in Range(c.params) : p[1] \in DOMAIN spans
      BY <1>15
    <2>3. ASSUME NEW m \in DOMAIN spans PROVE m \in {p[1] : p \in Range(c.params)}
      BY <2>1, Zenon
    <2>4. ASSUME NEW m \in {p[1] : p \in Range(c.params)} PROVE m \in DOMAIN spans
      BY <2>2, <2>4, Zenon
    <2> QED BY <2>3, <2>4, Zenon
  <1>17. \A k \in 1 .. Len(r) : c.text[k] = r[k] \/ \E m \in DOMAIN spans : k \in m .. spans[m]
    <2> TAKE k \in 1 .. Len(r)
    <2>1. k \in 1 .. Len(text) /\ k \in 1 .. len
      BY <1>1, <1>2, <1>6
    <2>2. c.text[k] = text[k] \/ \E m \in DOMAIN spans : m <= len /\ k \in m .. spans[m]
      BY <1>12, <2>1 DEF Capturing
    <2> QED BY <1>6, <2>1, <2>2
  <1>18. Given(c, r, spans)
    BY <1>6, <1>13, <1>15, <1>16, <1>17 DEF Given
  <1>19. SameBehind(c.text, target, Len(path) + 2)
    <2>1. ASSUME NEW k \in Len(path) + 1 .. Len(target) PROVE c.text[k] = target[k]
      <3>1. k \in 1 .. Len(text) /\ k > len
        BY <1>1, <1>2, <1>3, <1>4
      <3>2. ~(\E m \in DOMAIN spans : m <= len /\ k \in m .. spans[m])
        BY <1>14, <3>1
      <3>3. c.text[k] = text[k]
        BY <1>12, <3>1, <3>2 DEF Capturing
      <3> QED BY <1>1, <3>3
    <2>2. Len(path) + 2 \in Nat /\ Len(path) < Len(path) + 2 /\ Len(c.text) = Len(target)
      BY <1>1, <1>3, <1>13
    <2> QED BY <1>2, <1>3, <1>13, <2>1, <2>2, Behind
  <1> QED BY <1>11, <1>18, <1>19 DEF r

\* What the handlers see, and what they will be given
Views ==
    /\ req.target \in Seq(Clean)
    /\ \E t, p, q, b : view = [text |-> t, path |-> p, params |-> q, body |-> b]
    /\ phase \in {"received", "parsed"} => view.text = req.target
    /\ phase = "parsed" => view.path = Len(PathOf(req.target))

Seen == Views /\ PathIsResolved /\ ParamsAreDecoded

\* A handler that is entered has a path that was not refused.
LEMMA AcceptedIsNormal ==
    ASSUME Views, phase = "parsed", Refusal = 0
    PROVE  Normal(Normalized, PathOf(req.target), req.target)
  <1> DEFINE path == PathOf(req.target)
  <1>1. Starts(path, req.target) \/ (path = << >> /\ Len(path) = 0)
    BY PathIs DEF Views
  <1>2. Normalized = Normalize(req.target, Len(path))
    BY DEF Normalized, Views
  <1>3. Normalized.len # Invalid
    <2>1. ~(Normalized.len = Invalid)
      <3> SUFFICES ASSUME Normalized.len = Invalid PROVE FALSE
        OBVIOUS
      <3>1. Refusal \in {400, 501}
        BY DEF Refusal
      <3> QED BY <3>1
    <2> QED BY <2>1
  <1> HIDE DEF path
  <1>4. Normal(Normalize(req.target, Len(path)), path, req.target)
    BY <1>1, <1>2, <1>3, NormalizeResolves
  <1> QED BY <1>2, <1>4 DEF path

\* A step that leaves the view alone, and lets no handler in that was not there
LEMMA SeenStays ==
    ASSUME Seen, view' = view, req' = req, phase' \notin {"received", "parsed"},
           phase' = "chain" => phase = "chain", phase' = "not_found" => phase = "not_found",
           Active' => Active
    PROVE  Seen'
  <1>1. Views'
    BY DEF Seen, Views
  <1>2. PathIsResolved'
    BY Zenon DEF Seen, PathIsResolved
  <1>3. ParamsAreDecoded'
    BY Zenon DEF Seen, ParamsAreDecoded, ParamsOf
  <1> QED BY <1>1, <1>2, <1>3 DEF Seen

LEMMA ParseSees == ASSUME Seen, Parse PROVE Seen'
  <1>1. PICK t, p, q, b : view = [text |-> t, path |-> p, params |-> q, body |-> b]
    BY DEF Seen, Views
  <1> DEFINE n == First(t, 1, Len(t), {Question}) - 1
  <1>2. view' = [text |-> t, path |-> n, params |-> q, body |-> DeclaredLength(req.lengths)]
    BY <1>1 DEF Parse
  <1>3. req' = req /\ phase = "received" /\ phase' = "parsed"
    BY DEF Parse
  <1>4. t = req.target /\ req.target \in Seq(Clean)
    BY <1>1, <1>3 DEF Seen, Views
  <1>5. n = Len(PathOf(req.target))
    BY <1>4, PathIs
  <1> HIDE DEF n
  <1>6. Views'
    BY <1>2, <1>3, <1>4, <1>5 DEF Views
  <1>7. PathIsResolved' /\ ParamsAreDecoded'
    BY <1>3 DEF PathIsResolved, ParamsAreDecoded, Active
  <1> QED BY <1>6, <1>7 DEF Seen

\* The handlers of a route get the parameters of some spans of the path.
LEMMA EnterChainSees == ASSUME Seen, EnterChain PROVE Seen'
  <1> DEFINE path == PathOf(req.target)
  <1>1. /\ phase = "parsed" /\ Refusal = 0 /\ phase' = "chain" /\ req' = req
        /\ req.target \in Seq(Clean) /\ Views
    BY DEF EnterChain, Seen, Views
  <1>2. Normal(Normalized, path, req.target)
    BY <1>1, AcceptedIsNormal
  <1>3. PICK c \in Captures :
            /\ c.ok
            /\ view' = [view EXCEPT !.text = c.text, !.params = c.params, !.path = c.len]
    BY DEF EnterChain
  <1>4. PICK spans \in Spans(Normalized.text, Normalized.len) : c = Captured(Normalized, spans)
    BY <1>3 DEF Captures
  <1>5. PICK n : n = Normalized
    OBVIOUS
  <1> HIDE DEF path
  <1>6. PICK t, p, q, b : view = [text |-> t, path |-> p, params |-> q, body |-> b]
    BY DEF Seen, Views
  <1>7. /\ view' = [text |-> c.text, path |-> c.len, params |-> c.params, body |-> b]
        /\ view'.text = c.text /\ view'.path = c.len /\ view'.params = c.params
    <2>1. view' = [text |-> c.text, path |-> c.len, params |-> c.params, body |-> b]
      BY <1>3, <1>6
    <2> QED BY <2>1
  <1>8. /\ spans \in Spans(Resolved(path), Len(Resolved(path)))
        /\ Given(c, Resolved(path), spans)
        /\ SameBehind(c.text, req.target, Len(path) + 2)
    <2>1. /\ Normal(n, path, req.target) /\ spans \in Spans(n.text, n.len)
          /\ c = Captured(n, spans) /\ c.ok /\ path = PathOf(req.target)
      BY <1>2, <1>3, <1>4, <1>5 DEF path
    <2> QED BY <1>1, <2>1, CapturedGiven
  <1>9. Views'
    BY <1>1, <1>7 DEF Views
  <1>10. PathIsResolved'
    <2>1. path # << >> /\ Head(path) = Slash /\ ~Leaves(path)
      BY <1>2 DEF Normal
    <2> QED BY <1>1, <2>1 DEF PathIsResolved, path
  <1>11. ParamsAreDecoded'
    <2> DEFINE r == Resolved(path)
    <2>1. ParamsOf(r, spans)'
      <3> HIDE DEF r
      <3>1. /\ {p1[1] : p1 \in Range(c.params)} = DOMAIN spans
            /\ \A p1 \in Range(c.params) :
                  /\ Bytes(c.text, p1) = Decoded(SubSeq(r, p1[1], spans[p1[1]]))
                  /\ NUL \notin Range(Bytes(c.text, p1))
            /\ c.len = Len(r)
            /\ \A i \in 1 .. Len(r) : c.text[i] = r[i] \/ \E k \in DOMAIN spans : i \in k .. spans[k]
        BY <1>8, Zenon DEF Given, r
      <3>2. r' = r
        BY <1>1 DEF r, path
      <3> QED BY <1>7, <3>1, <3>2, Zenon DEF ParamsOf
    <2>2. SubSeq(view'.text, Len(path) + 2, Len(view'.text))
            = SubSeq(req.target, Len(path) + 2, Len(req.target))
      BY <1>7, <1>8 DEF SameBehind
    <2> QED BY <1>1, <1>8, <2>1, <2>2 DEF ParamsAreDecoded, path, r
  <1> QED BY <1>9, <1>10, <1>11 DEF Seen

\* The not-found handler gets the path resolved.
LEMMA NotFoundSees == ASSUME Seen, NotFound PROVE Seen'
  <1> DEFINE path == PathOf(req.target)
  <1>1. /\ phase = "parsed" /\ Refusal = 0 /\ req' = req
        /\ req.target \in Seq(Clean) /\ Views
    BY DEF NotFound, Seen, Views
  <1>2. Normal(Normalized, path, req.target)
    BY <1>1, AcceptedIsNormal
  <1>3. CASE "not_found" \notin custom
    <2>1. view' = view /\ phase' = "done"
      BY <1>3 DEF NotFound, ErrorResponse
    <2> QED BY <1>1, <2>1, SeenStays DEF Active
  <1>4. CASE "not_found" \in custom
    <2>1. /\ view' = [view EXCEPT !.text = Normalized.text, !.path = Normalized.len]
          /\ phase' = "not_found"
      BY <1>4 DEF NotFound
    <2> HIDE DEF path
    <2>2. PICK t, p, q, b : view = [text |-> t, path |-> p, params |-> q, body |-> b]
      BY DEF Seen, Views
    <2>3. /\ view' = [text |-> Normalized.text, path |-> Normalized.len, params |-> q, body |-> b]
          /\ view'.text = Normalized.text /\ view'.path = Normalized.len
      <3>1. view' = [text |-> Normalized.text, path |-> Normalized.len, params |-> q, body |-> b]
        BY <2>1, <2>2
      <3> QED BY <3>1
    <2>4. Views'
      BY <1>1, <2>1, <2>3 DEF Views
    <2>5. PICK n : n = Normalized
      OBVIOUS
    <2>6. SameBehind(n.text, req.target, Len(path) + 1)
      <3>1. /\ n.text \in Seq(Byte) /\ Len(n.text) = Len(req.target)
            /\ \A k \in Len(path) + 1 .. Len(req.target) : n.text[k] = req.target[k]
        BY <1>2, <2>5 DEF Normal
      <3>2. req.target \in Seq(Byte) /\ path \in Seq(Clean)
        BY <1>1, PathIs, CleanBytes DEF path
      <3>3. Len(path) \in Nat /\ Len(path) + 1 \in Nat /\ Len(path) < Len(path) + 1
        BY <3>2, LenProperties
      <3> QED BY <3>1, <3>2, <3>3, Behind
    <2>7. PathIsResolved'
      <3>1. /\ path # << >> /\ Head(path) = Slash /\ ~Leaves(path)
            /\ SubSeq(view'.text, 1, view'.path) = Resolved(path)
        BY <1>2, <2>3 DEF Normal
      <3>2. SubSeq(view'.text, Len(path) + 1, Len(view'.text))
              = SubSeq(req.target, Len(path) + 1, Len(req.target))
        BY <2>3, <2>5, <2>6 DEF SameBehind
      <3> QED BY <1>1, <3>1, <3>2 DEF PathIsResolved, path
    <2>8. ParamsAreDecoded'
      BY <2>1 DEF ParamsAreDecoded
    <2> QED BY <2>4, <2>7, <2>8 DEF Seen
  <1> QED BY <1>3, <1>4

LEMMA SeenInit == Init => Seen
  <1> SUFFICES ASSUME Init PROVE Seen
    OBVIOUS
  <1>1. req \in Requests
    BY HandlingAssumption DEF Init
  <1>2. req.target \in Seq(Clean)
    BY <1>1 DEF Requests, Clean
  <1>3. phase = "received"
        /\ view = [text |-> req.target, path |-> 0, params |-> << >>, body |-> Invalid]
    BY DEF Init
  <1>4. Views
    BY <1>2, <1>3 DEF Views
  <1>5. PathIsResolved /\ ParamsAreDecoded
    BY <1>3 DEF PathIsResolved, ParamsAreDecoded, Active
  <1> QED BY <1>4, <1>5 DEF Seen

\* Only parse_request and the dispatch change what is seen.
LEMMA SeenStep == ASSUME Seen, [Next]_vars PROVE Seen'
  <1>1. CASE RefuseMessage \/ Refuse \/ RefuseParam \/ AnswerOptions
    BY <1>1, SeenStays DEF RefuseMessage, Refuse, RefuseParam, AnswerOptions, ErrorResponse,
                           given, Active
  <1>2. CASE CallNext \/ SetHeader \/ NoContent \/ Redirect
    BY <1>2, SeenStays DEF CallNext, SetHeader, NoContent, Redirect, Change, given, Active
  <1>3. CASE Return \/ Fail \/ Escape
    BY <1>3, SeenStays DEF Return, Fail, Escape, ErrorResponse, given, Active
  <1>4. ASSUME NEW code, SetStatus(code) PROVE Seen'
    BY <1>4, SeenStays DEF SetStatus, Change, given, Active
  <1>5. ASSUME NEW body, Send(body) \/ SendPrebuilt(body) PROVE Seen'
    BY <1>5, SeenStays DEF Send, SendPrebuilt, Change, given, Active
  <1>6. ASSUME NEW k, Caught(k) PROVE Seen'
    BY <1>6, SeenStays DEF Caught, given, Active
  <1>7. CASE UNCHANGED vars
    <2>1. view' = view /\ req' = req /\ phase' = phase
      BY <1>7 DEF vars
    <2>2. Views' /\ PathIsResolved' /\ ParamsAreDecoded'
      <3>1. Views'
        BY <2>1 DEF Seen, Views
      <3>2. PathIsResolved'
        BY <2>1, Zenon DEF Seen, PathIsResolved, Active
      <3>3. ParamsAreDecoded'
        BY <2>1, Zenon DEF Seen, ParamsAreDecoded, ParamsOf
      <3> QED BY <3>1, <3>2, <3>3
    <2> QED BY <2>2 DEF Seen
  <1> QED BY <1>1, <1>2, <1>3, <1>4, <1>5, <1>6, <1>7,
             ParseSees, EnterChainSees, NotFoundSees DEF Next

LEMMA Sees == Spec => []Seen
  <1> QED BY SeenInit, SeenStep, PTL DEF Spec

(***************************************************************************)
(* Whatever the target of a request is, of any length, with empty segments *)
(* and with any "." and ".." in it: if normalize_path_inplace lets it      *)
(* pass, the path does not leave the root, and what the not-found handler  *)
(* gets is the path resolved as its segments say, with the query as it was *)
(* sent.                                                                   *)
(***************************************************************************)
THEOREM PathAlwaysResolved == Spec => []PathIsResolved
  <1>1. Seen => PathIsResolved
    BY DEF Seen
  <1> QED BY <1>1, Sees, PTL

(***************************************************************************)
(* Whatever a route captures of the path, each parameter that its handlers *)
(* get is what the escapes and pluses of that part of the path decode to,  *)
(* and has no NUL; decoding one in the buffer leaves those before and      *)
(* behind it, the rest of the path and the query as they are               *)
(* (url_decode_inplace, process_request).                                  *)
(***************************************************************************)
THEOREM ParamsAlwaysDecoded == Spec => []ParamsAreDecoded
  <1>1. Seen => ParamsAreDecoded
    BY DEF Seen
  <1> QED BY <1>1, Sees, PTL
=============================================================================
