----------------------------- MODULE RouteLookup -----------------------------
(***************************************************************************)
(* Registration with the router it writes to: which route a path gets,     *)
(* compared with a definition that knows the registrations and no trie.    *)
(* A path is given as its sequence of segments, like a pattern.            *)
(***************************************************************************)
EXTENDS Registration

CONSTANTS Paths     \* what is looked up

-----------------------------------------------------------------------------
(* Which route a path should get, without a trie.                          *)

IsParam(seg)    == Len(seg) = 1 /\ seg[1] \in ParamSyms
IsCatchAll(seg) == Len(seg) = 1 /\ seg[1] \in CatchAlls
IsWord(seg) == seg # << >> /\ \A n \in DOMAIN seg : seg[n] \notin ParamSyms \cup CatchAlls \cup {"/"}
Rank(seg) == IF IsCatchAll(seg) THEN 3 ELSE IF IsParam(seg) THEN 2 ELSE 1

\* Every segment is a word, a parameter or, at the end of a pattern, a catch-all
\* (the forms of README.md:89-94); "//" occurs in no path.
ASSUME RouteLookupAssumption ==
    /\ \A pat \in Patterns : \A i \in DOMAIN pat :
          IsWord(pat[i]) \/ IsParam(pat[i]) \/ (IsCatchAll(pat[i]) /\ i = Len(pat))
    /\ \A pat \in GroupPrefixes : \A i \in DOMAIN pat : IsWord(pat[i]) \/ IsParam(pat[i])
    /\ Paths \subseteq Seq(Seq(STRING))
    /\ \A path \in Paths : \A i \in DOMAIN path : path[i] # << >> /\ "/" \notin ToSet(path[i])

EndsInCatchAll(pat) == pat # << >> /\ IsCatchAll(Last(pat))

\* A path fits a pattern segment by segment; a catch-all takes all the rest.
Fits(pat, path) ==
    /\ IF EndsInCatchAll(pat) THEN Len(path) >= Len(pat) ELSE Len(path) = Len(pat)
    /\ \A i \in DOMAIN pat : Rank(pat[i]) = 1 => pat[i] = path[i]

\* At the first segment where they differ in kind, pat is the more specific.
MoreSpecific(pat, other) ==
    \E i \in DOMAIN pat \cap DOMAIN other :
        /\ Rank(pat[i]) < Rank(other[i])
        /\ \A j \in 1 .. i - 1 : Rank(pat[j]) = Rank(other[j])

\* The values of the parameters, in order
Captured(pat, path) ==
    FlattenSeq([i \in DOMAIN pat |->
        CASE IsCatchAll(pat[i]) -> << <<pat[i][1], Tail(Text(Drop(path, i - 1)))>> >>
          [] IsParam(pat[i])    -> << <<pat[i][1], path[i]>> >>
          [] OTHER              -> << >>])

Fitting(m, path) == {i \in DOMAIN routes : routes[i].method = m /\ Fits(routes[i].segments, path)}

\* What a search that has this much of a path left has left after a symbol of
\* a pattern, if it skips a "/" wherever one follows; "/" if it is stuck.
Advance(sym, rest) ==
    CASE rest = << >> \/ Head(rest) = "/" -> << "/" >>
      [] OTHER -> CASE sym \in ParamSyms -> Drop(rest, Before(rest, {"/"}) + 1)
                    [] sym \in CatchAlls -> << >>
                    [] OTHER -> IF sym = Head(rest) THEN SkipSlash(Tail(rest)) ELSE << "/" >>

\* What it has left after all these symbols
Left(syms, path) ==
    LET left[n \in 0 .. Len(syms)] ==
          IF n = 0 THEN path ELSE Advance(syms[n], left[n - 1])
    IN  left[Len(syms)]

\* The trie asks for no "/" where an edge ends, so a path may lead to a route
\* that it fits only when the "/"s of both are forgotten.  This one does not,
\* and no route it leads to has more parameters than a match has room for.
Plain(m, path) ==
    \A i \in DOMAIN routes :
        routes[i].method = m /\ Left(FlattenSeq(routes[i].segments), Tail(Text(path))) = << >> =>
            /\ Fits(routes[i].segments, path)
            /\ Len(Captured(routes[i].segments, path)) <= MaxParams

-----------------------------------------------------------------------------
(* Properties.                                                             *)

\* The trie is one a search can rely on: static siblings begin differently,
\* so at most one of them leads on, and there is at most one parameter and
\* one catch-all, which is a leaf; splits must keep it so.
WellFormed ==
    \A c, d \in DOMAIN root :
        /\ root[c].parent = d => root[d].kind # "catchAll"
        /\ c # d /\ root[c].parent = root[d].parent /\ root[c].kind = root[d].kind =>
              /\ root[c].kind = "static" /\ root[c].path # << >> /\ root[d].path # << >>
              /\ Head(root[c].path) # Head(root[d].path)

\* Lookup finds exactly the most specific of the routes that fit, with its chain
\* and the values of its parameters, in whatever order the routes were registered
\* and however often edges were split: backtracking from a more specific branch
\* loses nothing and leaves no parameter behind.
LookupIsBest ==
    \A m \in ToSet(Methods), path \in Paths : Plain(m, path) =>
        LET found == Lookup(root, m, Text(path))
        IN  IF Fitting(m, path) = {} THEN found = None
            ELSE \E i \in Fitting(m, path) :
                    /\ \A j \in Fitting(m, path) \ {i} :
                          MoreSpecific(routes[i].segments, routes[j].segments)
                    /\ found = Found(routes[i].chain, Captured(routes[i].segments, path))

\* A path that fits no route is not found.  Refuted where words continue each
\* other: search() goes on below a node without asking for a "/".
UnknownPathNotFound ==
    \A m \in ToSet(Methods), path \in Paths :
        Fitting(m, path) = {} => Lookup(root, m, Text(path)) = None

\* A registration of one method that throws leaves every lookup as it was.
RefusalChangesNothing ==
    [][calls' # calls /\ ~returned' /\ routes' = routes =>
          \A m \in ToSet(Methods), path \in Paths : Plain(m, path) =>
              Lookup(root', m, Text(path)) = Lookup(root, m, Text(path))]_vars
=============================================================================
