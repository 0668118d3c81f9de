---------------------------- MODULE Registration ----------------------------
(***************************************************************************)
(* The registration of routes before the server listens, from               *)
(* include/voie/{app,group}.h and src/app.cpp: groups with a prefix and a   *)
(* stack of middleware, the chains their routes get, and the router they    *)
(* all write to.  Group 1 is the application itself: its prefix is empty    *)
(* and its middleware the global one, which app::get and app::group copy    *)
(* when they are called, as subgroup() copies its parent's.                 *)
(* A pattern is given as its sequence of segments, a segment as a sequence  *)
(* of symbols.                                                              *)
(***************************************************************************)
EXTENDS Router

CONSTANTS Patterns,     \* what routes may be registered for
          GroupPrefixes, \* what a group may be made with
          MaxGroups, MaxUses, MaxCalls,   \* bounds: groups, use(), get() and all()
          EarlyUse      \* use() only on a group that has no route or subgroup yet

ASSUME RegistrationAssumption ==
    /\ MaxGroups \in Nat \ {0} /\ MaxUses \in Nat /\ MaxCalls \in Nat
    /\ EarlyUse \in BOOLEAN
    /\ Patterns \subseteq Seq(Seq(STRING)) /\ GroupPrefixes \subseteq Seq(Seq(STRING))

VARIABLES root,      \* the trie
          groups,    \* [parent, prefix, uses]: middleware as <<group, number>>
          routes,    \* the accepted registrations, in order
          frozen,    \* listen() has been called
          calls,     \* calls of get() and all() so far; names the handlers
          returned   \* whether the last of them returned

vars == <<root, groups, routes, frozen, calls, returned>>

Group(parent, prefix, uses) == [parent |-> parent, prefix |-> prefix, uses |-> uses]

Init == /\ root = EmptyRouter
        /\ groups = << Group(0, << >>, << >>) >>
        /\ routes = << >> /\ frozen = FALSE /\ calls = 0 /\ returned = TRUE

\* Segments written with the "/" before each; no segment is the path "/"
Text(segments) ==
    IF segments = << >> THEN <<"/">>
    ELSE FlattenSeq([i \in DOMAIN segments |-> <<"/">> \o segments[i]])

Route(g, m, pattern, chain) ==
    [group |-> g, method |-> m, segments |-> groups[g].prefix \o pattern, chain |-> chain]

FullPattern(g, pattern) ==
    (IF groups[g].prefix = << >> THEN << >> ELSE Text(groups[g].prefix)) \o Text(pattern)

\* Mutant: the handler is left out
ChainWithoutHandler(g) == groups[g].uses

\* build_chain: the group's middleware, then the handler of this call
Chain(g) == groups[g].uses \o << <<"handler", calls + 1>> >>

Settled(g) == \E i \in DOMAIN groups : groups[i].parent = g
Used(g)    == \E i \in DOMAIN routes : routes[i].group = g

-----------------------------------------------------------------------------
Use(g) ==
    /\ g \in DOMAIN groups
    /\ Len(groups[g].uses) < MaxUses
    /\ EarlyUse => ~Settled(g) /\ ~Used(g)
    /\ groups' = [groups EXCEPT ![g].uses = Append(@, <<g, Len(@) + 1>>)]
    /\ UNCHANGED <<root, routes, frozen, calls, returned>>

\* Mutant: a new group starts without its parent's middleware
SubgroupForgets(g, prefix) ==
    /\ g \in DOMAIN groups /\ Len(groups) < MaxGroups
    /\ groups' = Append(groups, Group(g, groups[g].prefix \o prefix, << >>))
    /\ UNCHANGED <<root, routes, frozen, calls, returned>>

Subgroup(g, prefix) ==
    /\ g \in DOMAIN groups /\ Len(groups) < MaxGroups
    /\ groups' = Append(groups, Group(g, groups[g].prefix \o prefix, groups[g].uses))
    /\ UNCHANGED <<root, routes, frozen, calls, returned>>

\* add_route of one more method, going on from what the calls before it left
Register(s, g, m, pattern) ==
    LET r == IF frozen THEN Threw(s.trie)
                       ELSE AddRoute(s.trie, m, FullPattern(g, pattern), Chain(g))
    IN  [ok |-> r.ok, trie |-> r.trie,
         routes |-> IF r.ok THEN Append(s.routes, Route(g, m, pattern, Chain(g))) ELSE s.routes]

SoFar == [ok |-> TRUE, trie |-> root, routes |-> routes]

Settle(s) == /\ root' = s.trie /\ returned' = s.ok /\ routes' = s.routes
             /\ calls' = calls + 1
             /\ UNCHANGED <<groups, frozen>>

\* get, post, ...: one method
Get(g, m, pattern) ==
    /\ g \in DOMAIN groups /\ calls < MaxCalls
    /\ Settle(Register(SoFar, g, m, pattern))

\* all: every method in turn, until one registration throws
All(g, pattern) ==
    /\ g \in DOMAIN groups /\ calls < MaxCalls
    /\ LET after[i \in 0 .. Len(Methods)] ==
              IF i = 0 THEN SoFar
              ELSE LET s == after[i - 1]
                   IN  IF s.ok THEN Register(s, g, Methods[i], pattern) ELSE s
       IN  Settle(after[Len(Methods)])

Listen == /\ ~frozen /\ frozen' = TRUE
          /\ UNCHANGED <<root, groups, routes, calls, returned>>

Call(g) == \/ Use(g)
           \/ \E prefix \in GroupPrefixes : Subgroup(g, prefix)
           \/ \E pattern \in Patterns : \/ All(g, pattern)
                                        \/ \E m \in ToSet(Methods) : Get(g, m, pattern)

\* app::use; app::get, ..., app::all and app::group, which call root_group()
AppCall == Call(1)

GroupCall == \E g \in 2 .. MaxGroups : Call(g)

Next == Listen \/ AppCall \/ GroupCall

Spec == Init /\ [][Next]_vars

-----------------------------------------------------------------------------
(* Properties.                                                             *)

\* A chain ends in the handler of a call, behind nothing but middleware.
Proper(chain) ==
    /\ chain # << >> /\ Last(chain) \in {"handler"} \X (1 .. calls)
    /\ \A k \in 1 .. Len(chain) - 1 : chain[k] \in (DOMAIN groups) \X Nat

\* Type invariant: groups come after their parents, and chains are proper.
TypeOK ==
    /\ Len(groups) \in 1 .. MaxGroups
    /\ \A g \in DOMAIN groups : groups[g].parent \in 0 .. g - 1
    /\ frozen \in BOOLEAN /\ calls \in 0 .. MaxCalls
    /\ \A i \in DOMAIN routes : Proper(routes[i].chain)

\* A group and those around it
Around(g) ==
    LET around[a \in 0 .. Len(groups)] ==
          IF a = 0 THEN {} ELSE around[groups[a].parent] \cup {a}
    IN  around[g]

\* What use() was called with on a group itself
Own(g) == {u \in ToSet(groups[g].uses) : u[1] = g}

\* Before a handler runs only middleware of its group and of those around it,
\* outermost group first and in the order of use(), and each once; all of it, if
\* use() is called before anything else on a group (group::build_chain, which
\* copies what group::subgroup copied).
MiddlewareRunsBefore ==
    \A i \in DOMAIN routes :
        LET chain  == Front(routes[i].chain)
            around == UNION {Own(a) : a \in Around(routes[i].group)}
        IN  /\ \A j, k \in DOMAIN chain : j < k =>
                  \/ chain[j][1] < chain[k][1]
                  \/ chain[j][1] = chain[k][1] /\ chain[j][2] < chain[k][2]
            /\ ToSet(chain) \subseteq around
            /\ EarlyUse => ToSet(chain) = around
=============================================================================
