--------------------------- MODULE MCRegistration ---------------------------
(***************************************************************************)
(* Instances of RouteLookup for TLC.  The trie skips a "/" wherever an     *)
(* edge ends and does not ask for one.  In the first instance the routes   *)
(* overlap in every way, and one word is made of two others: "/abd" leads  *)
(* where "/ab/d" does, so the second of the two is refused, if need be     *)
(* after an edge was split, and neither path is Plain any more.  In the    *)
(* glued instance a parameter follows a word that another continues.       *)
(***************************************************************************)
EXTENDS RouteLookup

TwoMethods == << "GET", "POST" >>
OneMethod  == << "GET" >>
MCParams    == {":x", ":y"}
MCCatchAlls == {"*w"}

ab == << "a", "b" >>
ac == << "a", "c" >>
d  == << "d" >>
de == << "d", "e" >>
abd == << "a", "b", "d" >>
x  == << ":x" >>
y  == << ":y" >>
w  == << "*w" >>

Words == {ab, ac, d, abd}

\* Routes that overlap in every way: prefixes, parameters, catch-alls
MCPatterns == {<<abd>>, <<ab, d>>, <<x>>, <<y, d>>, <<ac, w>>, <<w>>}
MCPaths == {<< >>} \cup {<<p>> : p \in Words} \cup {<<p, d>> : p \in {ab, ac, d}}
           \cup {<<ac, ab>>, <<ab, abd>>, <<ab, ab, d>>, <<ab, ac, d>>}
ApiPrefix == {<<ab>>}

\* Words that continue others
GluedPatterns == {<<d, x>>}
GluedPaths == {<<d>>, <<de>>, <<d, ab>>}
NoPrefix == {}
=============================================================================
