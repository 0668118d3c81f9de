------------------------------ MODULE HttpParser ------------------------------
(***************************************************************************)
(* What src/http_parser.cpp makes of a request that picohttpparser has     *)
(* taken apart: the length of the body, the normalised path and the        *)
(* decoded parameters; and the query parameters of src/ctx.cpp.            *)
(*                                                                         *)
(* Path and query are the bytes of the request target, in the receive      *)
(* buffer.  Both conversions write to the bytes they read: text is the     *)
(* target as it stands there, a span [from, to] a string_view into it.     *)
(***************************************************************************)
EXTENDS Integers, SequencesExt

CONSTANTS SizeMax,   \* SIZE_MAX
          MaxBody    \* config::max_body_size, 0 for no limit

ASSUME ParserAssumption == SizeMax \in Nat /\ MaxBody \in Nat

NUL == 0
Space == 32
Percent == 37
Ampersand == 38
Plus == 43
Dot == 46
Slash == 47
Equals == 61
Question == 63

Digits == 48 .. 57

Byte == 0 .. 255

\* The first position in from .. to of a byte in S; to + 1 if there is none
First(s, from, to, S) == Min({i \in from .. to : s[i] \in S} \cup {to + 1})

Bytes(text, span) == SubSeq(text, span[1], span[2])

Overwrite(s, at, bytes) ==
    [i \in DOMAIN s |-> IF i \in at .. at + Len(bytes) - 1 THEN bytes[i - at + 1] ELSE s[i]]

-----------------------------------------------------------------------------
(* Content-Length                                                          *)

Invalid == -1

\* Mutant: the test before the addition is missing
WithDigitWraps(n, digit) ==
    IF n = Invalid \/ digit \notin Digits \/ n > SizeMax \div 10 THEN Invalid
    ELSE (n * 10 + digit - 48) % (SizeMax + 1)

\* One digit more, without overflow
WithDigit(n, digit) ==
    IF n = Invalid \/ digit \notin Digits \/ n > SizeMax \div 10
           \/ n * 10 > SizeMax - (digit - 48)
    THEN Invalid
    ELSE n * 10 + digit - 48

\* The number in a value, digit after digit
LengthIn(value) ==
    LET n[i \in 0 .. Len(value)] == IF i = 0 THEN 0 ELSE WithDigit(n[i - 1], value[i])
    IN  n[Len(value)]

\* The length that the Content-Length headers agree on, 0 without one
DeclaredLength(values) ==
    IF values = << >> THEN 0
    ELSE IF \A i \in 1 .. Len(values) : LengthIn(values[i]) = LengthIn(values[1])
         THEN LengthIn(values[1])
         ELSE Invalid

\* The code of the error that parse_request returns, 0 for none
ParseError(values, chunked) ==
    LET n == DeclaredLength(values)
    IN  IF n = Invalid \/ chunked         THEN 400
        ELSE IF MaxBody > 0 /\ n > MaxBody THEN 413
        ELSE 0

-----------------------------------------------------------------------------
(* normalize_path_inplace                                                  *)

\* Mutant: the parent's slash stays, and the next segment adds its own
ParentKeepsSlash(text, write) ==
    Max({i \in 1 .. write : text[i] = Slash} \cup {0})

\* The bytes left of the path when its last segment is taken back; Invalid
\* if it has none
Parent(text, write) ==
    Max({i \in 1 .. write : text[i] = Slash} \cup {0}) - 1

\* One turn of the loop: the slashes at s.read and the segment behind them
Turn(s) ==
    LET from  == First(s.text, s.read, s.len, Byte \ {Slash})
        to    == First(s.text, from, s.len, {Slash}) - 1
        bytes == SubSeq(s.text, from, to)
        done  == [s EXCEPT !.read = to + 1]
    IN  IF s.read > s.len \/ s.write = Invalid THEN s
        ELSE IF bytes = <<Dot>>      THEN done
        ELSE IF bytes = <<Dot, Dot>> THEN [done EXCEPT !.write = Parent(s.text, s.write)]
        ELSE [done EXCEPT !.write = @ + 1 + Len(bytes),
                          !.text  = Overwrite(@, s.write + 1, <<Slash>> \o bytes)]

\* The path is the first len bytes of text; len becomes Invalid if the path
\* leaves the root.  Every turn reads at least one byte.
Normalize(text, len) ==
    IF len = 0 \/ Head(text) # Slash \/ \E i \in 1 .. len : text[i] = NUL
    THEN [text |-> text, len |-> Invalid]
    ELSE LET after[i \in 0 .. len] ==
                   IF i = 0 THEN [text |-> text, len |-> len, read |-> 1, write |-> 0]
                   ELSE Turn(after[i - 1])
             end == after[len]
         IN  [text |-> IF end.write = 0 THEN Overwrite(end.text, 1, <<Slash>>) ELSE end.text,
              len  |-> IF end.write = 0 THEN 1 ELSE end.write]

-----------------------------------------------------------------------------
(* url_decode_inplace                                                      *)

HexDigit(b) == IF b \in Digits    THEN b - 48
               ELSE IF b \in 65 .. 70  THEN b - 55
               ELSE IF b \in 97 .. 102 THEN b - 87
               ELSE Invalid

\* Mutant: the two digits may lie behind the end of the span
EscapePastEnd(text, i, to) ==
    /\ text[i] = Percent /\ i + 2 <= Len(text)
    /\ HexDigit(text[i + 1]) # Invalid /\ HexDigit(text[i + 2]) # Invalid

\* An escape begins at i, and lies before the end of the span
IsEscape(text, i, to) ==
    /\ text[i] = Percent /\ i + 2 <= to
    /\ HexDigit(text[i + 1]) # Invalid /\ HexDigit(text[i + 2]) # Invalid

Escaped(text, i) == 16 * HexDigit(text[i + 1]) + HexDigit(text[i + 2])

\* Decode the span; it becomes shorter, and what is behind it stays.  ok says
\* that it has no escaped NUL.
Decode(text, span) ==
    LET Step(s, i) ==
          LET escape == IsEscape(s.text, i, span[2])
              b == IF escape THEN Escaped(s.text, i)
                   ELSE IF s.text[i] = Plus THEN Space ELSE s.text[i]
          IN  IF i < s.next \/ ~s.ok THEN s
              ELSE IF escape /\ b = NUL THEN [s EXCEPT !.ok = FALSE]
              ELSE [s EXCEPT !.text = Overwrite(@, s.to + 1, <<b>>), !.to = @ + 1,
                             !.next = i + (IF escape THEN 3 ELSE 1)]
        after[i \in 0 .. span[2]] ==
          IF i < span[1] THEN [text |-> text, to |-> span[1] - 1, next |-> span[1], ok |-> TRUE]
          ELSE Step(after[i - 1], i)
        end == after[span[2]]
    IN  [text |-> end.text, span |-> <<span[1], end.to>>, ok |-> end.ok]

-----------------------------------------------------------------------------
(* ctx::query                                                              *)

\* The value of the first parameter of that name, decoded in a copy; empty if
\* there is none, and if a NUL is escaped in it
QueryParam(query, name) ==
    LET Pair(i) ==
          LET end == First(query, i, Len(query), {Ampersand}) - 1
              eq  == First(query, i, end, {Equals})
          IN  [name |-> SubSeq(query, i, eq - 1), value |-> SubSeq(query, eq + 1, end)]
        Named == {i \in 1 .. Len(query) : /\ i = 1 \/ query[i - 1] = Ampersand
                                          /\ Pair(i).name = name}
        Value(raw) == LET d == Decode(raw, <<1, Len(raw)>>)
                      IN  IF d.ok THEN Bytes(d.text, d.span) ELSE << >>
    IN  IF Named = {} THEN << >> ELSE Value(Pair(Min(Named)).value)
===============================================================================
