-------------------------------- MODULE Router --------------------------------
(***************************************************************************)
(* The radix trie of src/router.cpp.  A pattern or a path is a sequence of *)
(* symbols: characters, "/", and, in a pattern, a parameter ":x" or a      *)
(* catch-all "*x" as one symbol each.  A trie is the sequence of its nodes *)
(* in the order they were made, the root first; a node names its parent,   *)
(* and its children, in the order of the code's vector, are the nodes that *)
(* name it, as a child is only ever appended and a split moves all of them.*)
(* add_route maps a trie to the trie after the call, which a call that     *)
(* throws may also have changed.                                           *)
(***************************************************************************)
EXTENDS HttpMethods, SequencesExt

CONSTANTS ParamSyms,   \* the ":name" symbols patterns use
          CatchAlls,   \* the "*name" symbols
          MaxParams    \* entries of route_match::params (8 in the code)

ASSUME RouterAssumption ==
    /\ MaxParams \in Nat
    /\ ParamSyms \subseteq STRING /\ CatchAlls \subseteq STRING \ ParamSyms
    /\ "/" \notin ParamSyms \cup CatchAlls

NoChains == [m \in ToSet(Methods) |-> << >>]

Node(parent, kind, path, name) ==
    [parent |-> parent, kind |-> kind, path |-> path, name |-> name, chain |-> NoChains]

EmptyRouter == << Node(0, "static", <<"/">>, "none") >>

Children(t, at, kind) == {c \in DOMAIN t : t[c].parent = at /\ t[c].kind = kind}

Drop(s, n) == SubSeq(s, n + 1, Len(s))
SkipSlash(s) == IF s # << >> /\ Head(s) = "/" THEN Tail(s) ELSE s

\* Where the first symbol of S stands in s; behind its end if there is none
Before(s, S) == LET at == {i \in DOMAIN s : s[i] \in S}
                IN  IF at = {} THEN Len(s) ELSE Min(at) - 1

CommonPrefixLen(s, t) ==
    Before([i \in 1 .. Min({Len(s), Len(t)}) |-> s[i] = t[i]], {FALSE})

-----------------------------------------------------------------------------
(* insert: one call of it, which returns, throws, or ends in a call for a  *)
(* child with the rest of the path                                         *)

Goes(t, at, rest) == [trie |-> t, at |-> at, rest |-> rest, done |-> FALSE, ok |-> TRUE]
Returned(t) == [Goes(t, 1, << >>) EXCEPT !.done = TRUE]
Threw(t)    == [Returned(t) EXCEPT !.ok = FALSE]

\* The static children that share a first character with the path
Sharing(t, at, path) ==
    {c \in Children(t, at, "static") : CommonPrefixLen(t[c].path, path) > 0}

\* Mutant: the rest of the label does not take the node's children along
SplitForgetsChildren(t, c, n) ==
    Append([t EXCEPT ![c] = Node(t[c].parent, "static", SubSeq(t[c].path, 1, n), "none")],
           [t[c] EXCEPT !.parent = c, !.path = Drop(@, n)])

\* Cut the label of a static node after n characters: the rest, with all the
\* node had, becomes its only child.
Split(t, c, n) ==
    LET below == Len(t) + 1
        moved == [i \in DOMAIN t |-> IF t[i].parent = c THEN [t[i] EXCEPT !.parent = below]
                                                         ELSE t[i]]
    IN  Append([moved EXCEPT ![c] = Node(t[c].parent, "static", SubSeq(t[c].path, 1, n), "none")],
               [t[c] EXCEPT !.parent = c, !.path = Drop(@, n)])

\* Go on in a child that is appended
InsertNew(t, node, rest) == Goes(Append(t, node), Len(t) + 1, rest)

\* Mutant: the chain is stored before the check for a duplicate
InsertHereFirst(t, at, m, chain) ==
    LET stored == [t EXCEPT ![at].chain[m] = chain]
    IN  IF t[at].chain[m] # << >> THEN Threw(stored) ELSE Returned(stored)

InsertHere(t, at, m, chain) ==
    IF t[at].chain[m] # << >> THEN Threw(t)      \* duplicate route for method
    ELSE Returned([t EXCEPT ![at].chain[m] = chain])

InsertParam(t, at, path) ==
    LET params == Children(t, at, "param")
        rest   == Drop(path, Before(path, {"/"}) + 1)
    IN  IF params = {} THEN InsertNew(t, Node(at, "param", << >>, Head(path)), rest)
        ELSE IF t[Min(params)].name # Head(path) THEN Threw(t)
        ELSE Goes(t, Min(params), rest)

\* A second catch-all is refused whatever its method
InsertCatchAll(t, at, path) ==
    IF Children(t, at, "catchAll") # {} THEN Threw(t)
    ELSE InsertNew(t, Node(at, "catchAll", << >>, Head(path)), << >>)

InsertStatic(t, at, path) ==
    LET c     == Min(Sharing(t, at, path))
        n     == CommonPrefixLen(t[c].path, path)
        whole == Before(path, ParamSyms \cup CatchAlls \cup {"/"})
    IN  IF Sharing(t, at, path) = {}
        THEN InsertNew(t, Node(at, "static", SubSeq(path, 1, whole), "none"),
                       SkipSlash(Drop(path, whole)))
        ELSE Goes(IF n = Len(t[c].path) THEN t ELSE Split(t, c, n),
                  c, SkipSlash(Drop(path, n)))

Insert(t, at, path, m, chain) ==
    IF path = << >>                  THEN InsertHere(t, at, m, chain)
    ELSE IF Head(path) \in ParamSyms THEN InsertParam(t, at, path)
    ELSE IF Head(path) \in CatchAlls THEN InsertCatchAll(t, at, path)
    ELSE InsertStatic(t, at, path)

\* add_route; the pattern begins with "/", and each call has less of it left
AddRoute(root, m, pattern, chain) ==
    LET insert[n \in 0 .. Len(pattern)] ==
          IF n = 0 THEN Goes(root, 1, Tail(pattern))
          ELSE LET s == insert[n - 1]
               IN  IF s.done THEN s ELSE Insert(s.trie, s.at, s.rest, m, chain)
    IN  insert[Len(pattern)]

-----------------------------------------------------------------------------
(* lookup: the chain found, empty if there is none, and the parameters     *)

None == [chain |-> << >>, params |-> << >>]
Found(chain, params) == [chain |-> chain, params |-> params]

\* One call of search with so much of the path left and so many parameters
\* taken; below is what the calls for its children return.
SearchStatic(t, below, c, rest, taken) ==
    IF IsPrefix(t[c].path, rest)
    THEN below[c][SkipSlash(Drop(rest, Len(t[c].path)))][taken] ELSE None

SearchParam(t, below, c, rest, taken) ==
    LET n == Before(rest, {"/"})
    IN  IF n > 0 /\ taken < MaxParams
        THEN [below[c][Drop(rest, n + 1)][taken + 1] EXCEPT
                 !.params = << <<t[c].name, SubSeq(rest, 1, n)>> >> \o @]
        ELSE None

SearchCatchAll(t, c, m, rest, taken) ==
    Found(t[c].chain[m], IF taken < MaxParams THEN << <<t[c].name, rest>> >> ELSE << >>)

SearchChild(t, below, m, c, rest, taken) ==
    CASE t[c].kind = "static"   -> SearchStatic(t, below, c, rest, taken)
      [] t[c].kind = "param"    -> SearchParam(t, below, c, rest, taken)
      [] t[c].kind = "catchAll" -> SearchCatchAll(t, c, m, rest, taken)

\* What the first child of this kind that finds a chain returns
SearchBelow(t, below, m, at, kind, rest, taken) ==
    LET tried == {<<c, SearchChild(t, below, m, c, rest, taken)>> : c \in Children(t, at, kind)}
        hits  == {r \in tried : r[2].chain # << >>}
    IN  IF hits = {} THEN None ELSE (CHOOSE r \in hits : \A h \in hits : r[1] <= h[1])[2]

\* Children are tried static before param before catch-all.
Search(t, below, m, at, rest, taken) ==
    LET static == SearchBelow(t, below, m, at, "static", rest, taken)
        param  == SearchBelow(t, below, m, at, "param", rest, taken)
    IN  IF rest = << >>              THEN Found(t[at].chain[m], << >>)
        ELSE IF static.chain # << >> THEN static
        ELSE IF param.chain # << >>  THEN param
        ELSE SearchBelow(t, below, m, at, "catchAll", rest, taken)

\* lookup; the path begins with "/", and calls nest no deeper than it is long
Lookup(root, m, path) ==
    LET search[n \in 0 .. Len(path)] ==
          [at \in DOMAIN root |-> [rest \in Seq(ToSet(path)) |-> [taken \in 0 .. MaxParams |->
              IF n = 0 THEN None ELSE Search(root, search[n - 1], m, at, rest, taken)]]]
        found == search[Len(path)][1][Tail(path)][0]
    IN  IF found.chain = << >> THEN None ELSE found
===============================================================================
