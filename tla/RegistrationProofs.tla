-------------------------- MODULE RegistrationProofs --------------------------
(***************************************************************************)
(* Two things about registered routes, for any groups and patterns and in  *)
(* whatever order use(), group(), get() and all() are called: what runs    *)
(* before a handler in its chain, and that the router finds, for a path,   *)
(* exactly the most specific of the routes that fit it.                    *)
(***************************************************************************)
EXTENDS RouteLookup, SequenceTheorems, WellFoundedInduction, TLAPS

-----------------------------------------------------------------------------
(* Induction, with the statement as a set of numbers.                      *)

\* A set that has 0, and with n also n + 1, has every natural number.
LEMMA Induction ==
    ASSUME NEW S, 0 \in S, \A n \in Nat : n \in S => n + 1 \in S
    PROVE  Nat \subseteq S
  <1> DEFINE T == Nat \ S
             Less == OpToRel(LAMBDA x, y : x < y, Nat)
  <1>1. ASSUME T # {} PROVE FALSE
    <2>1. PICK n \in T : \A m \in T : <<m, n>> \notin Less
      <3>1. IsWellFoundedOn(Less, Nat)
        BY NatLessThanWellFounded
      <3> HIDE DEF Less
      <3> QED BY <1>1, <3>1, WFMin
    <2>2. n \in Nat /\ n # 0 /\ n \notin S
      OBVIOUS
    <2>3. n - 1 \in Nat /\ <<n - 1, n>> \in Less /\ (n - 1) + 1 = n
      BY <2>2 DEF OpToRel
    <2>4. n - 1 \in S
      BY <2>1, <2>3
    <2> QED BY <2>2, <2>3, <2>4
  <1> QED BY <1>1

\* The same when a statement for n follows from those for all smaller numbers.
LEMMA StrongInduction ==
    ASSUME NEW S, \A n \in Nat : (\A m \in Nat : m < n => m \in S) => n \in S
    PROVE  Nat \subseteq S
  <1> DEFINE T == {n \in Nat : \A m \in Nat : m < n => m \in S}
  <1>1. 0 \in T
    OBVIOUS
  <1>2. ASSUME NEW n \in Nat, n \in T PROVE n + 1 \in T
    <2>1. n \in S
      BY <1>2
    <2>2. \A m \in Nat : m < n + 1 => m < n \/ m = n
      OBVIOUS
    <2> QED BY <1>2, <2>1, <2>2
  <1> HIDE DEF T
  <1>3. Nat \subseteq T
    BY <1>1, <1>2, Induction
  <1> QED BY <1>3 DEF T

-----------------------------------------------------------------------------
(* The inductive invariant                                                 *)

\* What chains, groups and routes are made of
Entries == (Nat \X Nat) \cup ({"handler"} \X Nat)

GroupRecords == [parent : Nat, prefix : Seq(Seq(STRING)), uses : Seq(Nat \X Nat)]

RouteRecords == [group : Nat, method : STRING, segments : Seq(Seq(STRING)), chain : Seq(Entries)]

\* The types of what a call reads
Typed == groups \in Seq(GroupRecords) /\ routes \in Seq(RouteRecords) /\ calls \in Nat

\* The middleware of the group around g
Above(g) == IF groups[g].parent = 0 THEN << >> ELSE groups[groups[g].parent].uses

\* u begins with the first n of what is above g, and goes on with g's own
Copied(g, u, n) ==
    /\ n \in 0 .. Len(Above(g)) /\ n <= Len(u)
    /\ \A k \in 1 .. n : u[k] = Above(g)[k]
    /\ \A k \in n + 1 .. Len(u) : u[k] = <<g, k>>
    /\ EarlyUse => n = Len(Above(g))

\* Every group has middleware of the groups around it, then its own.
Inherits == \A g \in 1 .. Len(groups) : \E n \in Nat : Copied(g, groups[g].uses, n)

\* The middleware of a group: each at its number, the outermost group's first
Ordered ==
    \A g \in 1 .. Len(groups) :
        LET u == groups[g].uses
        IN  /\ \A k \in 1 .. Len(u) : u[k][1] \in 1 .. g /\ u[k][2] = k
            /\ \A j, k \in 1 .. Len(u) : j < k => u[j][1] <= u[k][1]

\* A chain is what the group had when it was made, and the handler
Copies(r) ==
    LET u == groups[r.group].uses
    IN  /\ r.group \in 1 .. Len(groups) /\ Len(r.chain) - 1 <= Len(u)
        /\ EarlyUse => Len(r.chain) - 1 = Len(u)
        /\ \A k \in 1 .. Len(r.chain) - 1 : r.chain[k] = u[k]

\* The inductive invariant
RInv == Typed /\ TypeOK /\ Ordered /\ Inherits /\ \A i \in 1 .. Len(routes) : Copies(routes[i])

\* What the types say of single groups and routes.
LEMMA Types ==
    ASSUME Typed
    PROVE  /\ groups \in Seq(GroupRecords) /\ Len(groups) \in Nat /\ DOMAIN groups = 1 .. Len(groups)
           /\ \A g \in 1 .. Len(groups) :
                 /\ groups[g] \in GroupRecords /\ groups[g].parent \in Nat
                 /\ groups[g].uses \in Seq(Nat \X Nat) /\ Len(groups[g].uses) \in Nat
           /\ routes \in Seq(RouteRecords) /\ Len(routes) \in Nat /\ DOMAIN routes = 1 .. Len(routes)
           /\ \A i \in 1 .. Len(routes) :
                 routes[i].chain \in Seq(Entries) /\ Len(routes[i].chain) \in Nat
  <1>1. /\ groups \in Seq(GroupRecords) /\ Len(groups) \in Nat /\ DOMAIN groups = 1 .. Len(groups)
        /\ \A g \in 1 .. Len(groups) : groups[g] \in GroupRecords
    BY DEF Typed
  <1>2. /\ routes \in Seq(RouteRecords) /\ Len(routes) \in Nat /\ DOMAIN routes = 1 .. Len(routes)
        /\ \A i \in 1 .. Len(routes) : routes[i] \in RouteRecords
    BY DEF Typed
  <1>3. \A r \in GroupRecords : /\ r.parent \in Nat
                                /\ r.uses \in Seq(Nat \X Nat) /\ Len(r.uses) \in Nat
    BY DEF GroupRecords
  <1>4. \A r \in RouteRecords : r.chain \in Seq(Entries) /\ Len(r.chain) \in Nat
    BY DEF RouteRecords
  <1> QED BY <1>1, <1>2, <1>3, <1>4

\* Before any call there is the application alone, and no route.
LEMMA InvInit == Init => RInv
  <1> SUFFICES ASSUME Init PROVE RInv
    OBVIOUS
  <1>1. /\ groups = << Group(0, << >>, << >>) >> /\ routes = << >> /\ calls = 0 /\ frozen = FALSE
        /\ Group(0, << >>, << >>) \in GroupRecords
    BY DEF Init, Group, GroupRecords
  <1>2. Typed /\ Len(groups) = 1 /\ groups[1].parent = 0 /\ groups[1].uses = << >>
    BY <1>1 DEF Typed, Group
  <1>3. TypeOK
    <2>1. DOMAIN groups = {1} /\ DOMAIN routes = {} /\ 1 \in 1 .. MaxGroups /\ calls \in 0 .. MaxCalls
      BY <1>1, RegistrationAssumption
    <2>2. Len(groups) \in 1 .. MaxGroups /\ \A g \in DOMAIN groups : groups[g].parent \in 0 .. g - 1
      BY <1>2, <2>1
    <2> QED BY <1>1, <2>1, <2>2, Zenon DEF TypeOK
  <1>4. Copied(1, groups[1].uses, 0)
    BY <1>2 DEF Copied, Above
  <1>5. Inherits
    BY <1>2, <1>4 DEF Inherits
  <1>6. Ordered
    BY <1>2 DEF Ordered
  <1> QED BY <1>1, <1>2, <1>3, <1>5, <1>6 DEF RInv

-----------------------------------------------------------------------------
(* use() and group()                                                       *)

\* A route has its group's middleware in front, and keeps it when the group
\* gets more.
LEMMA UseKeeps == ASSUME RInv, NEW g, Use(g) PROVE RInv'
  <1> DEFINE u == groups[g].uses
             v == Append(u, <<g, Len(u) + 1>>)
  <1>1. /\ g \in 1 .. Len(groups) /\ groups \in Seq(GroupRecords) /\ u \in Seq(Nat \X Nat)
        /\ Len(u) \in Nat
    BY Types DEF Use, RInv
  <1>2. /\ v \in Seq(Nat \X Nat) /\ Len(v) = Len(u) + 1 /\ v[Len(u) + 1] = <<g, Len(u) + 1>>
        /\ \A k \in 1 .. Len(u) : v[k] = u[k]
    <2>1. <<g, Len(u) + 1>> \in Nat \X Nat
      BY <1>1
    <2> HIDE DEF u
    <2> QED BY <1>1, <2>1
  <1>13. ASSUME NEW k \in 1 .. Len(v)
         PROVE  \/ k \in 1 .. Len(u) /\ v[k] = u[k]
                \/ k = Len(u) + 1 /\ v[k] = <<g, k>>
    <2> HIDE DEF u, v
    <2>1. k \in 1 .. Len(u) \/ k = Len(u) + 1
      BY <1>1, <1>2
    <2> QED BY <1>2, <2>1
  <1>3. groups' = [groups EXCEPT ![g].uses = v]
    BY DEF Use
  <1> HIDE DEF v
  <1>4. /\ groups' \in Seq(GroupRecords) /\ Len(groups') = Len(groups)
        /\ groups'[g].uses = v /\ groups'[g].parent = groups[g].parent
        /\ \A h \in 1 .. Len(groups) : /\ groups'[h].parent = groups[h].parent
                                       /\ h # g => groups'[h].uses = groups[h].uses
    <2>1. [groups[g] EXCEPT !.uses = v] \in GroupRecords
      BY <1>1, <1>2, Types DEF RInv, GroupRecords
    <2>2. groups' = [groups EXCEPT ![g] = [groups[g] EXCEPT !.uses = v]]
      BY <1>3
    <2>3. /\ [groups[g] EXCEPT !.uses = v].uses = v
          /\ [groups[g] EXCEPT !.uses = v].parent = groups[g].parent
      BY <1>1 DEF GroupRecords
    <2> HIDE DEF v
    <2> QED BY <1>1, <2>1, <2>2, <2>3
  <1>5. /\ EarlyUse => \A h \in 1 .. Len(groups) : groups[h].parent # g
        /\ EarlyUse => \A i \in 1 .. Len(routes) : routes[i].group # g
    BY Types DEF Use, Settled, Used, RInv
  <1>6. UNCHANGED <<root, routes, frozen, calls, returned>>
    BY DEF Use
  <1>7. Typed'
    BY <1>4, <1>6 DEF RInv, Typed
  <1>8. TypeOK'
    <2>1. DOMAIN groups' = DOMAIN groups /\ DOMAIN groups = 1 .. Len(groups)
      BY <1>1, <1>4
    <2>2. ASSUME NEW c, Proper(c) PROVE Proper(c)'
      BY <1>6, <2>1, <2>2 DEF Proper
    <2>3. \A h \in DOMAIN groups : groups[h].parent \in 0 .. h - 1 /\ groups'[h].parent = groups[h].parent
      BY <1>4, <2>1 DEF RInv, TypeOK
    <2>4. \A h \in DOMAIN groups : groups'[h].parent \in 0 .. h - 1
      BY <2>3
    <2> QED BY <1>4, <1>6, <2>1, <2>2, <2>4, Zenon DEF RInv, TypeOK
  <1>9. ASSUME NEW h \in 1 .. Len(groups) PROVE \E n \in Nat : Copied(h, groups[h].uses, n)'
    <2>1. PICK n \in Nat : Copied(h, groups[h].uses, n)
      BY <1>9 DEF RInv, Inherits
    <2>2. groups[h].parent \in 0 .. h - 1 /\ groups[h].uses \in Seq(Nat \X Nat)
      BY <1>1, Types DEF RInv, TypeOK
    <2>3. /\ Len(Above(h)) \in Nat /\ Len(Above(h)') \in Nat
          /\ Len(Above(h)) <= Len(Above(h)')
          /\ \A k \in 1 .. Len(Above(h)) : Above(h)'[k] = Above(h)[k]
          /\ EarlyUse => Above(h)' = Above(h)
      <3>1. CASE groups[h].parent = 0
        BY <1>4, <3>1 DEF Above
      <3>2. CASE groups[h].parent = g
        <4>1. Above(h) = u /\ Above(h)' = v
          BY <1>1, <1>4, <3>2 DEF Above
        <4>2. ~EarlyUse
          BY <1>5, <3>2
        <4> HIDE DEF u
        <4> QED BY <1>1, <1>2, <4>1, <4>2
      <3>3. CASE groups[h].parent # 0 /\ groups[h].parent # g
        <4>1. groups[h].parent \in 1 .. Len(groups)
          BY <1>1, <2>2, <3>3
        <4>2. /\ Above(h) = groups[groups[h].parent].uses
              /\ Above(h)' = groups[groups[h].parent].uses
          BY <1>4, <3>3, <4>1 DEF Above
        <4>3. Len(groups[groups[h].parent].uses) \in Nat
          BY <4>1, Types DEF RInv
        <4> QED BY <4>2, <4>3
      <3> QED BY <3>1, <3>2, <3>3
    <2>4. CASE h # g
      <3>1. Copied(h, groups[h].uses, n)'
        <4>1. groups'[h].uses = groups[h].uses
          BY <1>4, <2>4
        <4>2. n \in 0 .. Len(Above(h)') /\ (EarlyUse => n = Len(Above(h)'))
          BY <2>1, <2>3 DEF Copied
        <4>3. \A k \in 1 .. n : groups[h].uses[k] = Above(h)'[k]
          BY <2>1, <2>3 DEF Copied
        <4> QED BY <2>1, <4>1, <4>2, <4>3 DEF Copied
      <3> QED BY <3>1
    <2>5. CASE h = g
      <3>1. \A k \in n + 1 .. Len(v) : v[k] = <<g, k>>
        <4>1. /\ n \in Nat /\ \A k \in n + 1 .. Len(u) : u[k] = <<g, k>>
          BY <2>1, <2>5 DEF Copied
        <4> HIDE DEF u
        <4> TAKE k \in n + 1 .. Len(v)
        <4>2. k \in 1 .. Len(v)
          BY <1>1, <1>2, <4>1
        <4>3. CASE k \in 1 .. Len(u) /\ v[k] = u[k]
          BY <1>1, <4>1, <4>3
        <4>4. CASE k = Len(u) + 1 /\ v[k] = <<g, k>>
          BY <4>4
        <4> QED BY <1>13, <4>2, <4>3, <4>4
      <3>2. Copied(h, groups[h].uses, n)'
        <4>1. n \in 0 .. Len(Above(h)') /\ (EarlyUse => n = Len(Above(h)'))
          BY <2>1, <2>3 DEF Copied
        <4>2. n <= Len(u) /\ \A k \in 1 .. n : u[k] = Above(h)'[k]
          BY <2>1, <2>3, <2>5 DEF Copied
        <4> HIDE DEF u
        <4>3. n <= Len(v) /\ \A k \in 1 .. n : v[k] = Above(h)'[k]
          BY <1>1, <1>2, <4>2
        <4> QED BY <1>4, <2>5, <3>1, <4>1, <4>3 DEF Copied
      <3> QED BY <3>2
    <2> QED BY <2>4, <2>5
  <1>10. Inherits'
    BY <1>4, <1>9 DEF Inherits
  <1>12. Ordered'
    <2>1. ASSUME NEW h \in 1 .. Len(groups)
          PROVE  LET w == groups'[h].uses
                 IN  /\ \A k \in 1 .. Len(w) : w[k][1] \in 1 .. h /\ w[k][2] = k
                     /\ \A j, k \in 1 .. Len(w) : j < k => w[j][1] <= w[k][1]
      <3>1. CASE h # g
        <4>1. groups'[h].uses = groups[h].uses
          BY <1>4, <3>1
        <4> QED BY <4>1 DEF RInv, Ordered
      <3>2. CASE h = g
        <4>1. /\ \A k \in 1 .. Len(u) : u[k][1] \in 1 .. g /\ u[k][2] = k
              /\ \A j, k \in 1 .. Len(u) : j < k => u[j][1] <= u[k][1]
          BY <1>1 DEF RInv, Ordered
        <4> HIDE DEF u
        <4>2. \A k \in 1 .. Len(v) : v[k][1] \in 1 .. g /\ v[k][2] = k
          <5> TAKE k \in 1 .. Len(v)
          <5>1. CASE k \in 1 .. Len(u) /\ v[k] = u[k]
            BY <4>1, <5>1
          <5>2. CASE k = Len(u) + 1 /\ v[k] = <<g, k>>
            BY <1>1, <5>2
          <5> QED BY <1>13, <5>1, <5>2
        <4>3. \A j, k \in 1 .. Len(v) : j < k => v[j][1] <= v[k][1]
          <5> TAKE j, k \in 1 .. Len(v)
          <5>0. HAVE j < k
          <5>1. CASE k \in 1 .. Len(u) /\ v[k] = u[k]
            <6>1. j \in 1 .. Len(u)
              BY <1>1, <5>0, <5>1
            <6>2. v[j] = u[j]
              BY <1>2, <6>1
            <6> QED BY <4>1, <5>0, <5>1, <6>1, <6>2
          <5>2. CASE k = Len(u) + 1 /\ v[k] = <<g, k>>
            BY <4>2, <1>1, <5>2
          <5> QED BY <1>13, <5>1, <5>2
        <4> QED BY <1>4, <3>2, <4>2, <4>3
      <3> QED BY <3>1, <3>2
    <2> QED BY <1>4, <2>1 DEF Ordered
  <1>11. ASSUME NEW i \in 1 .. Len(routes) PROVE Copies(routes[i])'
    <2>1. Copies(routes[i]) /\ Len(routes[i].chain) \in Nat
      BY Types DEF RInv
    <2>2. CASE routes[i].group # g
      BY <1>4, <1>6, <2>1, <2>2 DEF Copies
    <2>3. CASE routes[i].group = g
      <3>1. ~EarlyUse /\ groups'[g].uses = v /\ routes' = routes
        BY <1>4, <1>5, <1>6, <2>3
      <3>2. /\ Len(routes[i].chain) - 1 <= Len(u)
            /\ \A k \in 1 .. Len(routes[i].chain) - 1 : routes[i].chain[k] = u[k]
        BY <2>1, <2>3 DEF Copies
      <3> HIDE DEF u
      <3>3. /\ Len(routes[i].chain) - 1 <= Len(v)
            /\ \A k \in 1 .. Len(routes[i].chain) - 1 : routes[i].chain[k] = v[k]
        <4>1. Len(routes[i].chain) - 1 \in Int /\ Len(u) \in Nat /\ Len(v) = Len(u) + 1
          BY <1>1, <1>2, <2>1
        <4>2. \A k \in 1 .. Len(u) : v[k] = u[k]
          BY <1>2
        <4> QED BY <3>2, <4>1, <4>2
      <3> QED BY <1>1, <1>4, <2>3, <3>1, <3>3 DEF Copies
    <2> QED BY <2>2, <2>3
  <1> QED BY <1>6, <1>7, <1>8, <1>10, <1>11, <1>12 DEF RInv

\* A subgroup begins with what its parent has.
LEMMA SubgroupKeeps ==
    ASSUME RInv, NEW g, NEW prefix \in GroupPrefixes, Subgroup(g, prefix) PROVE RInv'
  <1> DEFINE new == Group(g, groups[g].prefix \o prefix, groups[g].uses)
  <1>1. /\ g \in 1 .. Len(groups) /\ groups \in Seq(GroupRecords) /\ Len(groups) \in Nat
        /\ groups[g] \in GroupRecords
    BY DEF Subgroup, RInv, Typed
  <1>2. new \in GroupRecords /\ new.parent = g /\ new.uses = groups[g].uses
    <2>1. groups[g].prefix \in Seq(Seq(STRING)) /\ prefix \in Seq(Seq(STRING))
      BY <1>1, RegistrationAssumption DEF GroupRecords
    <2>2. groups[g].prefix \o prefix \in Seq(Seq(STRING))
      BY <2>1
    <2> QED BY <1>1, <2>2 DEF Group, GroupRecords
  <1>3. groups' = Append(groups, new) /\ Len(groups) < MaxGroups
        /\ UNCHANGED <<root, routes, frozen, calls, returned>>
    BY DEF Subgroup
  <1> HIDE DEF new
  <1>0. PICK m : m = Len(groups) + 1
    OBVIOUS
  <1>4. /\ groups' \in Seq(GroupRecords) /\ Len(groups') = m /\ m = Len(groups) + 1
        /\ groups'[m] = new
        /\ \A h \in 1 .. Len(groups) : groups'[h] = groups[h]
    BY <1>0, <1>1, <1>2, <1>3
  <1>5. Typed'
    BY <1>3, <1>4 DEF RInv, Typed
  <1>6. TypeOK'
    <2>1. DOMAIN groups' = 1 .. Len(groups) + 1 /\ DOMAIN groups = 1 .. Len(groups)
      BY <1>1, <1>4
    <2>2. ASSUME NEW c, Proper(c) PROVE Proper(c)'
      <3>1. 1 .. Len(groups) \subseteq 1 .. Len(groups) + 1
        BY <1>1
      <3> QED BY <1>3, <2>1, <2>2, <3>1 DEF Proper
    <2>3. ASSUME NEW h \in 1 .. Len(groups) + 1 PROVE groups'[h].parent \in 0 .. h - 1
      <3>1. CASE h \in 1 .. Len(groups)
        BY <1>4, <2>1, <3>1 DEF RInv, TypeOK
      <3>2. CASE h = m
        BY <1>1, <1>2, <1>4, <3>2
      <3> QED BY <1>1, <1>4, <3>1, <3>2
    <2>4. Len(groups') \in 1 .. MaxGroups
      BY <1>1, <1>3, <1>4, RegistrationAssumption
    <2> QED BY <1>3, <2>1, <2>2, <2>3, <2>4, Zenon DEF RInv, TypeOK
  <1>7. ASSUME NEW h \in 1 .. Len(groups) PROVE \E n \in Nat : Copied(h, groups[h].uses, n)'
    <2>1. PICK n \in Nat : Copied(h, groups[h].uses, n)
      BY <1>7 DEF RInv, Inherits
    <2>2. groups[h].parent \in 0 .. h - 1
      BY <1>1 DEF RInv, TypeOK
    <2>3. Above(h)' = Above(h)
      BY <1>1, <1>4, <2>2 DEF Above
    <2>4. Copied(h, groups[h].uses, n)'
      BY <1>4, <2>1, <2>3 DEF Copied
    <2> QED BY <2>4
  <1>12. PICK n : n = Len(groups[g].uses)
    OBVIOUS
  <1>8. Copied(m, groups[m].uses, n)'
    <2>1. groups[g].uses \in Seq(Nat \X Nat)
      BY <1>1 DEF GroupRecords
    <2>2. Above(m)' = groups[g].uses
      <3>1. groups'[m].parent = g /\ g # 0 /\ groups'[g] = groups[g]
        BY <1>1, <1>2, <1>4
      <3> QED BY <3>1, Zenon DEF Above
    <2>3. groups'[m].uses = groups[g].uses /\ Len(groups[g].uses) \in Nat
      BY <1>2, <1>4, <2>1
    <2> QED BY <1>12, <2>2, <2>3 DEF Copied
  <1>9. Inherits'
    <2>1. Len(groups[g].uses) \in Nat
      BY <1>1 DEF GroupRecords
    <2>2. ASSUME NEW h \in 1 .. Len(groups') PROVE \E k \in Nat : Copied(h, groups[h].uses, k)'
      <3>1. CASE h \in 1 .. Len(groups)
        BY <1>7, <3>1
      <3>2. CASE h = m
        BY <1>8, <1>12, <2>1, <3>2
      <3> QED BY <1>1, <1>4, <3>1, <3>2
    <2> QED BY <2>2 DEF Inherits
  <1>10. ASSUME NEW i \in 1 .. Len(routes) PROVE Copies(routes[i])'
    <2>1. Copies(routes[i])
      BY DEF RInv
    <2> QED BY <1>1, <1>3, <1>4, <2>1 DEF Copies
  <1>11. Ordered'
    <2>1. ASSUME NEW h \in 1 .. Len(groups) + 1
          PROVE  LET w == groups'[h].uses
                 IN  /\ \A k \in 1 .. Len(w) : w[k][1] \in 1 .. h /\ w[k][2] = k
                     /\ \A j, k \in 1 .. Len(w) : j < k => w[j][1] <= w[k][1]
      <3>1. CASE h \in 1 .. Len(groups)
        BY <1>4, <3>1 DEF RInv, Ordered
      <3>2. CASE h = Len(groups) + 1
        <4>1. groups'[h].uses = groups[g].uses /\ Len(groups[g].uses) \in Nat /\ 1 .. g \subseteq 1 .. h
          BY <1>1, <1>2, <1>4, <3>2, Types DEF RInv
        <4>2. /\ \A k \in 1 .. Len(groups[g].uses) : groups[g].uses[k][1] \in 1 .. g /\ groups[g].uses[k][2] = k
              /\ \A j, k \in 1 .. Len(groups[g].uses) :
                    j < k => groups[g].uses[j][1] <= groups[g].uses[k][1]
          BY <1>1 DEF RInv, Ordered
        <4> QED BY <4>1, <4>2
      <3> QED BY <1>1, <3>1, <3>2
    <2> QED BY <1>4, <2>1 DEF Ordered
  <1> QED BY <1>3, <1>5, <1>6, <1>9, <1>10, <1>11 DEF RInv

-----------------------------------------------------------------------------
(* get() and all()                                                         *)

\* The routes so far, and after them routes of g as this call makes them
Extends(g, r) ==
    /\ r \in Seq(RouteRecords) /\ Len(routes) <= Len(r)
    /\ \A i \in 1 .. Len(routes) : r[i] = routes[i]
    /\ \A i \in Len(routes) + 1 .. Len(r) : r[i].group = g /\ r[i].chain = Chain(g)

\* The chain that build_chain makes has the group's middleware, then the handler.
LEMMA ChainMade ==
    ASSUME RInv, NEW g \in 1 .. Len(groups)
    PROVE  LET u == groups[g].uses
           IN  /\ Chain(g) \in Seq(Entries) /\ Len(Chain(g)) = Len(u) + 1
               /\ \A k \in 1 .. Len(u) : Chain(g)[k] = u[k]
               /\ Chain(g)[Len(u) + 1] = <<"handler", calls + 1>>
  <1> DEFINE u == groups[g].uses
             h == <<"handler", calls + 1>>
  <1>1. u \in Seq(Nat \X Nat) /\ calls + 1 \in Nat
    BY Types DEF RInv, Typed
  <1>2. h \in Entries
    BY <1>1 DEF Entries
  <1>3. u \in Seq(Entries) /\ Len(u) \in Nat
    BY <1>1 DEF Entries
  <1>4. Chain(g) = Append(u, h)
    <2> HIDE DEF u, h
    <2>1. Append(u, h) = u \o <<h>>
      BY <1>2, <1>3
    <2> QED BY <2>1 DEF Chain, u, h
  <1> HIDE DEF u, h
  <1>5. /\ Append(u, h) \in Seq(Entries) /\ Len(Append(u, h)) = Len(u) + 1
        /\ \A k \in 1 .. Len(u) : Append(u, h)[k] = u[k]
        /\ Append(u, h)[Len(u) + 1] = h
    BY <1>2, <1>3
  <1> QED BY <1>4, <1>5 DEF u, h

\* add_route of one more method adds a route, or nothing.
LEMMA RegisterExtends ==
    ASSUME RInv, NEW g \in 1 .. Len(groups), NEW pattern \in Patterns, NEW m \in STRING,
           NEW s, Extends(g, s.routes)
    PROVE  Extends(g, Register(s, g, m, pattern).routes)
  <1> DEFINE new == Route(g, m, pattern, Chain(g))
  <1>1. new \in RouteRecords /\ new.group = g /\ new.chain = Chain(g)
    <2>1. groups[g].prefix \in Seq(Seq(STRING)) /\ pattern \in Seq(Seq(STRING))
      BY Types, RegistrationAssumption DEF RInv, GroupRecords
    <2>2. groups[g].prefix \o pattern \in Seq(Seq(STRING))
      BY <2>1
    <2> QED BY <2>2, ChainMade DEF Route, RouteRecords
  <1>2. \/ Register(s, g, m, pattern).routes = s.routes
        \/ Register(s, g, m, pattern).routes = Append(s.routes, new)
    BY DEF Register
  <1>3. Extends(g, Append(s.routes, new))
    <2> HIDE DEF new
    <2> DEFINE r == s.routes
    <2>1. /\ r \in Seq(RouteRecords) /\ Len(r) \in Nat /\ Len(routes) \in Nat /\ Len(routes) <= Len(r)
          /\ \A i \in 1 .. Len(routes) : r[i] = routes[i]
          /\ \A i \in Len(routes) + 1 .. Len(r) : r[i].group = g /\ r[i].chain = Chain(g)
      BY Types DEF Extends, RInv
    <2> HIDE DEF r
    <2>2. /\ Append(r, new) \in Seq(RouteRecords) /\ Len(Append(r, new)) = Len(r) + 1
          /\ \A i \in 1 .. Len(r) : Append(r, new)[i] = r[i]
          /\ Append(r, new)[Len(r) + 1] = new
      BY <1>1, <2>1
    <2>3. \A i \in 1 .. Len(routes) : Append(r, new)[i] = routes[i]
      BY <2>1, <2>2
    <2>4. ASSUME NEW i \in Len(routes) + 1 .. Len(r) + 1
          PROVE  Append(r, new)[i].group = g /\ Append(r, new)[i].chain = Chain(g)
      <3>1. (i \in Len(routes) + 1 .. Len(r) /\ i \in 1 .. Len(r)) \/ i = Len(r) + 1
        BY <2>1
      <3> QED BY <1>1, <2>1, <2>2, <3>1
    <2>5. Extends(g, Append(r, new))
      BY <2>1, <2>2, <2>3, <2>4, SMTT(30) DEF Extends
    <2> QED BY <2>5 DEF r
  <1> QED BY <1>2, <1>3

\* What is said of the groups alone stays while they do.
LEMMA GroupsKept ==
    ASSUME groups' = groups PROVE (Inherits => Inherits') /\ (Ordered => Ordered')
  <1>1. \A g : Above(g)' = Above(g)
    BY DEF Above
  <1>2. \A g, n : Copied(g, groups[g].uses, n) => Copied(g, groups[g].uses, n)'
    BY <1>1 DEF Copied
  <1>3. Inherits => Inherits'
    BY <1>2 DEF Inherits
  <1>4. Ordered => Ordered'
    BY DEF Ordered
  <1> QED BY <1>3, <1>4

\* What a call of get() or all() leaves.
LEMMA SettleKeeps ==
    ASSUME RInv, calls < MaxCalls, NEW g \in 1 .. Len(groups), NEW s, Extends(g, s.routes), Settle(s)
    PROVE  RInv'
  <1>1. /\ routes' = s.routes /\ calls' = calls + 1 /\ groups' = groups /\ frozen' = frozen
        /\ routes' \in Seq(RouteRecords) /\ Len(routes') \in Nat
        /\ calls \in Nat /\ calls' \in Nat /\ MaxCalls \in Nat
    BY RegistrationAssumption DEF Settle, Extends, RInv, Typed
  <1> DEFINE u == groups[g].uses
  <1>2. /\ u \in Seq(Nat \X Nat) /\ Len(u) \in Nat /\ DOMAIN groups = 1 .. Len(groups)
        /\ Chain(g) \in Seq(Entries) /\ Len(Chain(g)) = Len(u) + 1
        /\ \A k \in 1 .. Len(u) : Chain(g)[k] = u[k]
        /\ Chain(g)[Len(u) + 1] = <<"handler", calls'>>
    BY <1>1, ChainMade, Types DEF RInv
  <1>3. \A k \in 1 .. Len(u) : u[k] \in (1 .. Len(groups)) \X Nat
    <2>1. \A k \in 1 .. Len(u) : u[k][1] \in 1 .. g
      BY DEF RInv, Ordered
    <2> HIDE DEF u
    <2>2. \A k \in 1 .. Len(u) : u[k] \in Nat \X Nat
      BY <1>2
    <2>3. 1 .. g \subseteq 1 .. Len(groups)
      BY <1>1
    <2> QED BY <2>1, <2>2, <2>3
  <1>4. PICK c : c = Chain(g)
    OBVIOUS
  <1> HIDE DEF u
  <1>5. /\ c \in Seq(Entries) /\ Len(c) = Len(u) + 1 /\ c[Len(c)] = <<"handler", calls'>>
        /\ \A k \in 1 .. Len(c) - 1 : c[k] = u[k]
    BY <1>2, <1>4
  <1>6. Proper(c)'
    <2>1. c # << >> /\ Last(c) \in {"handler"} \X (1 .. calls')
      BY <1>1, <1>2, <1>5 DEF Last
    <2>2. \A k \in 1 .. Len(c) - 1 : c[k] \in (DOMAIN groups') \X Nat
      <3>1. DOMAIN groups' = 1 .. Len(groups) /\ Len(c) - 1 = Len(u)
        BY <1>1, <1>2, <1>5
      <3> QED BY <1>3, <1>5, <3>1
    <2> QED BY <2>1, <2>2 DEF Proper
  <1>7. ASSUME NEW i \in 1 .. Len(routes')
        PROVE  \/ i \in 1 .. Len(routes) /\ routes'[i] = routes[i]
               \/ routes'[i].group = g /\ routes'[i].chain = c
    BY <1>1, <1>4, Types DEF Extends, RInv
  <1>8. Typed'
    BY <1>1 DEF RInv, Typed
  <1>9. TypeOK'
    <2>1. ASSUME NEW d, Proper(d) PROVE Proper(d)'
      <3>1. 1 .. calls \subseteq 1 .. calls'
        BY <1>1
      <3> QED BY <1>1, <2>1, <3>1 DEF Proper
    <2>2. ASSUME NEW i \in 1 .. Len(routes') PROVE Proper(routes[i].chain)'
      <3>1. CASE i \in 1 .. Len(routes) /\ routes'[i] = routes[i]
        <4>1. PICK d : d = routes[i].chain
          OBVIOUS
        <4>2. Proper(d)
          BY <3>1, <4>1, Types DEF RInv, TypeOK
        <4>3. Proper(d)'
          BY <2>1, <4>2
        <4>4. routes'[i].chain = d
          BY <3>1, <4>1
        <4> QED BY <4>3, <4>4 DEF Proper
      <3>2. CASE routes'[i].chain = c
        BY <1>6, <3>2 DEF Proper
      <3> QED BY <1>7, <3>1, <3>2
    <2>3. calls' \in 0 .. MaxCalls /\ DOMAIN routes' = 1 .. Len(routes')
      BY <1>1 DEF RInv
    <2>4. \A i \in DOMAIN routes' : Proper(routes[i].chain)'
      BY <2>2, <2>3
    <2>5. TypeOK /\ groups' = groups /\ frozen' = frozen
      BY <1>1 DEF RInv
    <2> QED BY <2>3, <2>4, <2>5, Zenon DEF TypeOK
  <1>10. Inherits' /\ Ordered'
    BY <1>1, GroupsKept DEF RInv
  <1>11. ASSUME NEW i \in 1 .. Len(routes') PROVE Copies(routes[i])'
    <2>1. CASE i \in 1 .. Len(routes) /\ routes'[i] = routes[i]
      BY <1>1, <2>1 DEF RInv, Copies
    <2>2. CASE routes'[i].group = g /\ routes'[i].chain = c
      BY <1>1, <1>2, <1>5, <2>2 DEF Copies, u
    <2> QED BY <1>7, <2>1, <2>2
  <1> QED BY <1>8, <1>9, <1>10, <1>11 DEF RInv

\* Before the first registration nothing is added.
LEMMA SoFarExtends == ASSUME RInv, NEW g PROVE Extends(g, SoFar.routes)
  BY Types DEF RInv, Extends, SoFar

\* get() adds one route, or none.
LEMMA GetKeeps ==
    ASSUME RInv, NEW g, NEW pattern \in Patterns, NEW m \in ToSet(Methods), Get(g, m, pattern)
    PROVE  RInv'
  <1>1. g \in 1 .. Len(groups) /\ m \in STRING /\ calls < MaxCalls
    BY Types, MethodsAssumption DEF RInv, Get, ToSet
  <1> DEFINE s == Register(SoFar, g, m, pattern)
  <1>2. Extends(g, s.routes)
    BY <1>1, SoFarExtends, RegisterExtends
  <1>3. Settle(s)
    BY DEF Get
  <1> HIDE DEF s
  <1> QED BY <1>1, <1>2, <1>3, SettleKeeps

\* all(), method by method
Tries(f, g, pattern) ==
    /\ f[0] = SoFar
    /\ \A i \in 1 .. Len(Methods) :
          f[i] = IF f[i - 1].ok THEN Register(f[i - 1], g, Methods[i], pattern) ELSE f[i - 1]

\* The recursion of all() has a value for every number of methods.
LEMMA AllUnfolds ==
    ASSUME NEW g, NEW pattern, All(g, pattern)
    PROVE  \E f : Tries(f, g, pattern) /\ Settle(f[Len(Methods)])
  <1> DEFINE N == Len(Methods)
             Step(f, i) == IF i = 0 THEN SoFar
                           ELSE LET s == f[i - 1]
                                IN  IF s.ok THEN Register(s, g, Methods[i], pattern) ELSE s
             after[i \in 0 .. N] ==
                 IF i = 0 THEN SoFar
                 ELSE LET s == after[i - 1]
                      IN  IF s.ok THEN Register(s, g, Methods[i], pattern) ELSE s
             Upto == {n \in Nat : \E f : f = [i \in 0 .. n |-> Step(f, i)]}
  <1>1. N \in Nat
    BY MethodsAssumption
  <1>2. Settle(after[N])
    BY DEF All
  <1>3. after = CHOOSE f : f = [i \in 0 .. N |-> Step(f, i)]
    OBVIOUS
  <1> HIDE DEF after, N
  <1>4. Nat \subseteq Upto
    <2>1. 0 \in Upto
      <3> DEFINE f == [i \in 0 .. 0 |-> SoFar]
      <3>1. f = [i \in 0 .. 0 |-> Step(f, i)]
        OBVIOUS
      <3> QED BY <3>1
    <2>2. ASSUME NEW n \in Nat, n \in Upto PROVE n + 1 \in Upto
      <3>1. PICK f : f = [i \in 0 .. n |-> Step(f, i)]
        BY <2>2
      <3> DEFINE h == [i \in 0 .. n + 1 |-> IF i <= n THEN f[i] ELSE Step(f, n + 1)]
      <3>2. ASSUME NEW i \in 0 .. n + 1 PROVE h[i] = Step(h, i)
        <4>1. CASE i = 0
          <5>1. h[i] = f[i] /\ f[i] = SoFar
            BY <3>1, <4>1
          <5> QED BY <4>1, <5>1
        <4>2. CASE i # 0
          <5>1. i - 1 \in 0 .. n /\ i - 1 <= n /\ i - 1 \in 0 .. n + 1
            BY <4>2
          <5>2. h[i - 1] = f[i - 1]
            BY <5>1
          <5>3. h[i] = Step(f, i)
            <6>1. CASE i <= n
              BY <3>1, <6>1
            <6>2. CASE i = n + 1
              BY <6>2
            <6> QED BY <6>1, <6>2
          <5> QED BY <4>2, <5>2, <5>3
        <4> QED BY <4>1, <4>2
      <3>3. h = [i \in 0 .. n + 1 |-> Step(h, i)]
        <4> HIDE DEF Step
        <4> QED BY <3>2
      <3>4. \E k : k = [i \in 0 .. n + 1 |-> Step(k, i)]
        BY <3>3
      <3> HIDE DEF Step
      <3> QED BY <2>2, <3>4
    <2> HIDE DEF Upto
    <2> QED BY <2>1, <2>2, Induction
  <1>5. after = [i \in 0 .. N |-> Step(after, i)]
    BY <1>1, <1>3, <1>4
  <1>6. \A i \in 0 .. N : after[i] = Step(after, i)
    <2> HIDE DEF Step
    <2> QED BY <1>5
  <1>7. after[0] = SoFar
    <2>1. 0 \in 0 .. N
      BY <1>1
    <2> QED BY <1>6, <2>1
  <1>8. ASSUME NEW i \in 1 .. N
        PROVE  after[i] = IF after[i - 1].ok THEN Register(after[i - 1], g, Methods[i], pattern)
                                             ELSE after[i - 1]
    <2>1. i \in 0 .. N /\ i # 0
      BY <1>1
    <2>2. after[i] = Step(after, i)
      BY <1>6, <2>1
    <2> QED BY <2>1, <2>2
  <1>9. Tries(after, g, pattern)
    BY <1>7, <1>8 DEF Tries, N
  <1> QED BY <1>2, <1>9 DEF N

\* all() goes from one method to the next: its recursion has a value for every
\* number of methods, and each value Extends what was there.
LEMMA AllKeeps == ASSUME RInv, NEW g, NEW pattern \in Patterns, All(g, pattern) PROVE RInv'
  <1> DEFINE N == Len(Methods)
  <1>1. g \in 1 .. Len(groups) /\ calls < MaxCalls /\ N \in Nat
        /\ \A i \in 1 .. N : Methods[i] \in STRING
    BY Types, MethodsAssumption DEF RInv, All
  <1>2. PICK f : Tries(f, g, pattern) /\ Settle(f[N])
    BY AllUnfolds
  <1> DEFINE Good == {n \in Nat : n <= N => Extends(g, f[n].routes)}
  <1>3. 0 \in Good
    BY <1>2, SoFarExtends DEF Tries
  <1>4. ASSUME NEW n \in Nat, n \in Good PROVE n + 1 \in Good
    <2> SUFFICES ASSUME n + 1 <= N PROVE Extends(g, f[n + 1].routes)
      OBVIOUS
    <2>1. n + 1 \in 1 .. N /\ (n + 1) - 1 = n /\ n <= N
      BY <1>1
    <2>2. \/ f[n + 1] = Register(f[n], g, Methods[n + 1], pattern)
          \/ f[n + 1] = f[n]
      BY <1>2, <2>1 DEF Tries
    <2>3. Extends(g, f[n].routes) /\ Methods[n + 1] \in STRING
      BY <1>1, <1>4, <2>1
    <2> QED BY <1>1, <2>2, <2>3, RegisterExtends
  <1>5. Extends(g, f[N].routes)
    <2> HIDE DEF Good
    <2>1. N \in Good
      BY <1>1, <1>3, <1>4, Induction
    <2> QED BY <1>1, <2>1 DEF Good
  <1> QED BY <1>1, <1>2, <1>5, SettleKeeps

-----------------------------------------------------------------------------
(* Every step                                                              *)

\* Every call keeps what is said of groups and routes.
LEMMA InvNext == RInv /\ [Next]_vars => RInv'
  <1> SUFFICES ASSUME RInv, [Next]_vars PROVE RInv'
    OBVIOUS
  <1>1. CASE UNCHANGED <<groups, routes, calls>> /\ frozen' \in BOOLEAN
    <2>1. Typed' /\ Inherits' /\ Ordered'
      BY <1>1, GroupsKept DEF RInv, Typed
    <2>2. TypeOK'
      BY <1>1, Zenon DEF RInv, TypeOK, Proper
    <2>3. \A i \in 1 .. Len(routes') : Copies(routes[i])'
      BY <1>1, Zenon DEF RInv, Copies
    <2> QED BY <2>1, <2>2, <2>3 DEF RInv
  <1>2. ASSUME NEW g, Call(g) PROVE RInv'
    BY <1>2, UseKeeps, SubgroupKeeps, GetKeeps, AllKeeps DEF Call
  <1>3. CASE Listen
    BY <1>1, <1>3 DEF Listen
  <1>4. CASE UNCHANGED vars
    BY <1>1, <1>4, Zenon DEF vars, RInv, TypeOK
  <1> QED BY <1>2, <1>3, <1>4 DEF Next, AppCall, GroupCall

\* What the groups and the chains of the routes are made of, at every moment.
THEOREM Invariant == Spec => []RInv
  BY InvInit, InvNext, PTL DEF Spec

\* Groups come after the groups they are made in, and every chain ends in the
\* handler of a call, behind nothing but middleware of groups there are.
THEOREM Typing == Spec => []TypeOK
  <1>1. RInv => TypeOK
    BY DEF RInv
  <1> QED BY <1>1, Invariant, PTL

-----------------------------------------------------------------------------
(* What a chain has before the handler                                     *)

\* Around goes out from a group to the application.
LEMMA AroundStep ==
    ASSUME RInv
    PROVE  /\ Around(0) = {}
           /\ \A g \in 1 .. Len(groups) : Around(g) = Around(groups[g].parent) \cup {g}
  <1> DEFINE N == Len(groups)
             Step(f, a) == IF a = 0 THEN {} ELSE f[groups[a].parent] \cup {a}
             around[a \in 0 .. N] == IF a = 0 THEN {} ELSE around[groups[a].parent] \cup {a}
             Upto == {n \in Nat : n <= N => \E f : f = [a \in 0 .. n |-> Step(f, a)]}
  <1>1. N \in Nat /\ \A a \in 1 .. N : groups[a].parent \in 0 .. a - 1
    BY Types DEF RInv, TypeOK
  <1>2. \A g : Around(g) = around[g]
    BY DEF Around
  <1>3. around = CHOOSE f : f = [a \in 0 .. N |-> Step(f, a)]
    OBVIOUS
  <1> HIDE DEF around, N
  <1>4. Nat \subseteq Upto
    <2>1. 0 \in Upto
      <3> DEFINE f == [a \in 0 .. 0 |-> {}]
      <3>1. f = [a \in 0 .. 0 |-> Step(f, a)]
        OBVIOUS
      <3> QED BY <3>1
    <2>2. ASSUME NEW n \in Nat, n \in Upto PROVE n + 1 \in Upto
      <3> SUFFICES ASSUME n + 1 <= N PROVE \E f : f = [a \in 0 .. n + 1 |-> Step(f, a)]
        OBVIOUS
      <3>1. PICK f : f = [a \in 0 .. n |-> Step(f, a)]
        BY <1>1, <2>2
      <3> DEFINE h == [a \in 0 .. n + 1 |-> IF a <= n THEN f[a] ELSE Step(f, n + 1)]
      <3>2. ASSUME NEW a \in 0 .. n + 1 PROVE h[a] = Step(h, a)
        <4>1. h[a] = Step(f, a)
          <5>1. CASE a \in 0 .. n
            <6>1. h[a] = f[a]
              BY <5>1
            <6>2. f[a] = Step(f, a)
              <7> HIDE DEF Step
              <7> QED BY <3>1, <5>1
            <6> QED BY <6>1, <6>2
          <5>2. CASE a = n + 1
            BY <5>2
          <5> QED BY <5>1, <5>2
        <4>2. CASE a = 0
          BY <4>1, <4>2
        <4>3. CASE a # 0
          <5>1. groups[a].parent \in 0 .. a - 1
            BY <1>1, <4>3
          <5>2. groups[a].parent \in 0 .. n + 1 /\ groups[a].parent <= n
            BY <5>1
          <5>3. h[groups[a].parent] = f[groups[a].parent]
            BY <5>2
          <5> QED BY <4>1, <4>3, <5>3
        <4> QED BY <4>2, <4>3
      <3>3. h = [a \in 0 .. n + 1 |-> Step(h, a)]
        <4> HIDE DEF Step
        <4> QED BY <3>2
      <3> QED BY <3>3
    <2> HIDE DEF Upto
    <2> QED BY <2>1, <2>2, Induction
  <1>5. around = [a \in 0 .. N |-> Step(around, a)]
    <2>1. \E f : f = [a \in 0 .. N |-> Step(f, a)]
      <3> HIDE DEF Step
      <3> QED BY <1>1, <1>4
    <2> HIDE DEF Step
    <2> QED BY <1>3, <2>1
  <1>6. \A a \in 0 .. N : around[a] = Step(around, a)
    <2> HIDE DEF Step
    <2> QED BY <1>5
  <1>7. \A a \in 1 .. N : around[a] = around[groups[a].parent] \cup {a}
    <2> TAKE a \in 1 .. N
    <2>1. a \in 0 .. N /\ a # 0
      BY <1>1
    <2>2. around[a] = Step(around, a)
      <3> HIDE DEF Step
      <3> QED BY <1>6, <2>1
    <2> QED BY <2>1, <2>2
  <1>8. around[0] = {}
    <2>1. 0 \in 0 .. N
      BY <1>1
    <2>2. around[0] = Step(around, 0)
      <3> HIDE DEF Step
      <3> QED BY <1>6, <2>1
    <2> QED BY <2>2
  <1> QED BY <1>2, <1>7, <1>8 DEF N

\* A group's middleware is its own and that of the groups around it.
LEMMA OnlyAround ==
    ASSUME RInv
    PROVE  \A g \in 1 .. Len(groups) : \A k \in 1 .. Len(groups[g].uses) :
               \E a \in Around(g) : groups[g].uses[k] \in Own(a)
  <1> DEFINE Claim(g) == \A k \in 1 .. Len(groups[g].uses) :
                             \E a \in Around(g) : groups[g].uses[k] \in Own(a)
             Good == {g \in Nat : g \in 1 .. Len(groups) => Claim(g)}
  <1>1. ASSUME NEW g \in Nat, \A h \in Nat : h < g => h \in Good PROVE g \in Good
    <2> SUFFICES ASSUME g \in 1 .. Len(groups), NEW k \in 1 .. Len(groups[g].uses)
                 PROVE  \E a \in Around(g) : groups[g].uses[k] \in Own(a)
      OBVIOUS
    <2> DEFINE p == groups[g].parent
    <2>1. PICK n \in Nat : Copied(g, groups[g].uses, n)
      BY DEF RInv, Inherits
    <2>2. /\ groups[g].uses \in Seq(Nat \X Nat) /\ Len(groups[g].uses) \in Nat
          /\ p \in 0 .. g - 1 /\ Len(groups) \in Nat /\ DOMAIN groups = 1 .. Len(groups)
      BY Types DEF RInv, TypeOK
    <2>3. CASE k > n
      <3>1. groups[g].uses[k] = <<g, k>>
        BY <2>1, <2>2, <2>3 DEF Copied
      <3>2. groups[g].uses[k] \in ToSet(groups[g].uses)
        BY <2>2 DEF ToSet
      <3>3. groups[g].uses[k] \in Own(g)
        BY <3>1, <3>2 DEF Own
      <3> QED BY <3>3, AroundStep
    <2>4. CASE k <= n
      <3>1. groups[g].uses[k] = Above(g)[k] /\ k \in 1 .. Len(Above(g))
        <4>1. k \in 1 .. n /\ n \in 0 .. Len(Above(g))
          BY <2>1, <2>2, <2>4 DEF Copied
        <4>2. \A j \in 1 .. n : groups[g].uses[j] = Above(g)[j]
          BY <2>1 DEF Copied
        <4>3. Len(Above(g)) \in Nat
          <5>1. CASE p = 0
            BY <5>1 DEF Above
          <5>2. CASE p # 0
            <6>1. p \in 1 .. Len(groups)
              BY <2>2, <5>2
            <6>2. Len(groups[p].uses) \in Nat
              BY <6>1, Types DEF RInv
            <6> QED BY <5>2, <6>2 DEF Above
          <5> QED BY <5>1, <5>2
        <4> QED BY <4>1, <4>2, <4>3
      <3>2. p # 0
        BY <3>1 DEF Above
      <3>3. p \in 1 .. Len(groups) /\ p < g /\ Above(g) = groups[p].uses
        BY <2>2, <3>2, SMTT(30) DEF Above
      <3>4. Claim(p)
        <4>1. p \in Nat /\ p < g
          BY <3>3
        <4> HIDE DEF Claim
        <4> QED BY <1>1, <3>3, <4>1
      <3>5. PICK a \in Around(p) : groups[p].uses[k] \in Own(a)
        BY <3>1, <3>3, <3>4
      <3> QED BY <3>1, <3>3, <3>5, AroundStep
    <2> QED BY <2>1, <2>2, <2>3, <2>4
  <1> HIDE DEF Claim
  <1>2. Nat \subseteq Good
    <2> HIDE DEF Good
    <2> QED BY <1>1, StrongInduction
  <1>3. \A g \in 1 .. Len(groups) : Claim(g)
    BY <1>2, Types DEF RInv
  <1> QED BY <1>3 DEF Claim

\* It is all of that, when use() comes before anything else on a group.
LEMMA AllAround ==
    ASSUME RInv, EarlyUse
    PROVE  \A g \in 1 .. Len(groups) : \A a \in Around(g) : Own(a) \subseteq ToSet(groups[g].uses)
  <1> DEFINE Claim(g) == \A a \in Around(g) : Own(a) \subseteq ToSet(groups[g].uses)
             Good == {g \in Nat : g \in 1 .. Len(groups) => Claim(g)}
  <1>1. ASSUME NEW g \in Nat, \A h \in Nat : h < g => h \in Good PROVE g \in Good
    <2> SUFFICES ASSUME g \in 1 .. Len(groups), NEW a \in Around(g)
                 PROVE  Own(a) \subseteq ToSet(groups[g].uses)
      OBVIOUS
    <2> DEFINE p == groups[g].parent
    <2>1. PICK n \in Nat : Copied(g, groups[g].uses, n)
      BY DEF RInv, Inherits
    <2>2. /\ groups[g].uses \in Seq(Nat \X Nat) /\ Len(groups[g].uses) \in Nat
          /\ p \in 0 .. g - 1 /\ Len(groups) \in Nat /\ DOMAIN groups = 1 .. Len(groups)
      BY Types DEF RInv, TypeOK
    <2>3. CASE a = g
      BY <2>3 DEF Own
    <2>4. CASE a # g
      <3>1. a \in Around(p)
        BY <2>4, AroundStep
      <3>2. p # 0
        BY <3>1, AroundStep
      <3>3. p \in 1 .. Len(groups) /\ p < g /\ Above(g) = groups[p].uses
        BY <2>2, <3>2 DEF Above
      <3>4. Own(a) \subseteq ToSet(groups[p].uses)
        BY <1>1, <2>2, <3>1, <3>3
      <3>5. /\ \A k \in 1 .. Len(groups[p].uses) : groups[g].uses[k] = groups[p].uses[k]
            /\ Len(groups[p].uses) <= Len(groups[g].uses)
        BY <2>1, <3>3 DEF Copied
      <3>6. /\ groups[p].uses \in Seq(Nat \X Nat) /\ Len(groups[p].uses) \in Nat
            /\ groups[g].uses \in Seq(Nat \X Nat) /\ Len(groups[g].uses) \in Nat
        BY <2>2, <3>3, Types DEF RInv
      <3>7. ToSet(groups[p].uses) \subseteq ToSet(groups[g].uses)
        <4>1. ASSUME NEW x \in ToSet(groups[p].uses) PROVE x \in ToSet(groups[g].uses)
          <5>1. PICK k \in 1 .. Len(groups[p].uses) : groups[p].uses[k] = x
            BY <3>6, <4>1 DEF ToSet
          <5>2. k \in 1 .. Len(groups[g].uses)
            <6>1. PICK l, m : l = Len(groups[p].uses) /\ m = Len(groups[g].uses)
              OBVIOUS
            <6>2. l \in Nat /\ m \in Nat /\ l <= m /\ k \in 1 .. l
              BY <3>5, <3>6, <6>1
            <6>3. k \in 1 .. m
              BY <6>2
            <6> QED BY <6>1, <6>3
          <5>3. groups[g].uses[k] = x
            BY <3>5, <5>1
          <5> QED BY <3>6, <5>2, <5>3 DEF ToSet
        <4> QED BY <4>1
      <3> QED BY <3>4, <3>7
    <2> QED BY <2>3, <2>4
  <1> HIDE DEF Claim
  <1>2. Nat \subseteq Good
    <2> HIDE DEF Good
    <2> QED BY <1>1, StrongInduction
  <1>3. \A g \in 1 .. Len(groups) : Claim(g)
    BY <1>2, Types DEF RInv
  <1> QED BY <1>3 DEF Claim

\* What comes before the handler is the beginning of the group's middleware.
LEMMA ChainFront ==
    ASSUME RInv, NEW i \in 1 .. Len(routes), NEW c, c = Front(routes[i].chain)
    PROVE  LET u == groups[routes[i].group].uses
           IN  /\ routes[i].group \in 1 .. Len(groups) /\ Len(c) \in Nat /\ DOMAIN c = 1 .. Len(c)
               /\ u \in Seq(Nat \X Nat) /\ Len(u) \in Nat
               /\ Len(c) <= Len(u) /\ (EarlyUse => Len(c) = Len(u))
               /\ \A k \in 1 .. Len(c) : c[k] = u[k]
  <1> DEFINE r == routes[i]
             u == groups[r.group].uses
  <1>1. /\ r.chain \in Seq(Entries) /\ Len(r.chain) \in Nat
        /\ DOMAIN routes = 1 .. Len(routes)
    BY Types DEF RInv
  <1>2. r.chain # << >>
    BY <1>1 DEF RInv, TypeOK, Proper
  <1>3. Copies(r)
    BY DEF RInv
  <1>4. r.group \in 1 .. Len(groups) /\ u \in Seq(Nat \X Nat) /\ Len(u) \in Nat
    BY <1>3, Types DEF RInv, Copies
  <1>5. /\ Len(r.chain) - 1 <= Len(u) /\ (EarlyUse => Len(r.chain) - 1 = Len(u))
        /\ \A k \in 1 .. Len(r.chain) - 1 : r.chain[k] = u[k]
    BY <1>3 DEF Copies
  <1> HIDE DEF u
  <1>6. /\ Len(c) = Len(r.chain) - 1 /\ Len(c) \in Nat /\ DOMAIN c = 1 .. Len(c)
        /\ \A k \in 1 .. Len(c) : c[k] = r.chain[k]
    <2> DEFINE s == r.chain
    <2>1. s \in Seq(Entries) /\ Len(s) \in Nat /\ Len(s) > 0 /\ c = SubSeq(s, 1, Len(s) - 1)
      BY <1>1, <1>2 DEF Front
    <2> HIDE DEF s
    <2>2. PICK n : n = Len(s) - 1
      OBVIOUS
    <2>4. n \in Nat /\ c = SubSeq(s, 1, n) /\ \A k \in 1 .. n : s[k] \in Entries
      BY <2>1, <2>2
    <2>5. /\ c \in Seq(Entries) /\ Len(c) = (IF 1 <= n THEN n - 1 + 1 ELSE 0)
          /\ \A k \in 1 .. n - 1 + 1 : c[k] = s[1 + k - 1]
      BY <2>4, SubSeqProperties
    <2>3. /\ Len(c) = Len(s) - 1
          /\ \A k \in 1 .. Len(s) - 1 : c[k] = s[k]
      <3>1. Len(c) = n
        BY <2>4, <2>5
      <3>2. ASSUME NEW k \in 1 .. n PROVE c[k] = s[k]
        <4>1. k \in 1 .. n - 1 + 1 /\ 1 + k - 1 = k
          BY <2>4
        <4> QED BY <2>5, <4>1
      <3> QED BY <2>1, <2>2, <3>1, <3>2
    <2> QED BY <2>1, <2>3, <2>5 DEF s
  <1>7. /\ Len(c) <= Len(u) /\ (EarlyUse => Len(c) = Len(u))
        /\ \A k \in 1 .. Len(c) : c[k] = u[k]
    BY <1>5, <1>6
  <1> QED BY <1>4, <1>6, <1>7 DEF u

\* Before a handler runs only middleware of its group and of those around it,
\* outermost group first and in the order of use(), and each once; all of it, if
\* use() is called before anything else on a group: group::build_chain copies
\* what group::subgroup copied.
THEOREM MiddlewareFirst == Spec => []MiddlewareRunsBefore
  <1>1. ASSUME RInv PROVE MiddlewareRunsBefore
    <2> SUFFICES ASSUME NEW i \in DOMAIN routes
                 PROVE  LET pre == Front(routes[i].chain)
                            all == UNION {Own(a) : a \in Around(routes[i].group)}
                        IN  /\ \A j, k \in DOMAIN pre : j < k =>
                                  \/ pre[j][1] < pre[k][1]
                                  \/ pre[j][1] = pre[k][1] /\ pre[j][2] < pre[k][2]
                            /\ ToSet(pre) \subseteq all
                            /\ EarlyUse => ToSet(pre) = all
      BY DEF MiddlewareRunsBefore
    <2>0. PICK chain, around : /\ chain = Front(routes[i].chain)
                               /\ around = UNION {Own(a) : a \in Around(routes[i].group)}
      OBVIOUS
    <2>6. i \in 1 .. Len(routes)
      BY <1>1, Types DEF RInv
    <2> DEFINE g == routes[i].group
               u == groups[g].uses
    <2>1. /\ g \in 1 .. Len(groups) /\ Len(chain) \in Nat /\ DOMAIN chain = 1 .. Len(chain)
          /\ u \in Seq(Nat \X Nat) /\ Len(u) \in Nat
          /\ Len(chain) <= Len(u) /\ (EarlyUse => Len(chain) = Len(u))
          /\ \A k \in 1 .. Len(chain) : chain[k] = u[k]
      BY <1>1, <2>0, <2>6, ChainFront
    <2>2. \A k \in 1 .. Len(chain) : k \in 1 .. Len(u) /\ chain[k] = u[k]
      <3> HIDE DEF u
      <3> TAKE k \in 1 .. Len(chain)
      <3>1. k \in 1 .. Len(u)
        BY <2>1
      <3> QED BY <2>1, <3>1
    <2>3. \A j, k \in DOMAIN chain : j < k =>
              \/ chain[j][1] < chain[k][1]
              \/ chain[j][1] = chain[k][1] /\ chain[j][2] < chain[k][2]
      <3>1. /\ \A k \in 1 .. Len(u) : u[k][1] \in 1 .. g /\ u[k][2] = k
            /\ \A j, k \in 1 .. Len(u) : j < k => u[j][1] <= u[k][1]
        BY <1>1, <2>1 DEF RInv, Ordered
      <3>2. g \in Nat
        BY <2>1
      <3> HIDE DEF u, g
      <3> TAKE j, k \in DOMAIN chain
      <3> HAVE j < k
      <3>3. j \in 1 .. Len(u) /\ k \in 1 .. Len(u) /\ chain[j] = u[j] /\ chain[k] = u[k]
        BY <2>1, <2>2
      <3>4. u[j][1] <= u[k][1] /\ u[j][2] = j /\ u[k][2] = k /\ u[j][1] \in Nat /\ u[k][1] \in Nat
        BY <3>1, <3>2, <3>3
      <3> QED BY <3>3, <3>4
    <2>4. ToSet(chain) \subseteq around
      <3>1. ASSUME NEW x \in ToSet(chain) PROVE x \in around
        <4>1. PICK k \in 1 .. Len(chain) : x = chain[k]
          BY <2>1, <3>1 DEF ToSet
        <4>2. PICK a \in Around(g) : u[k] \in Own(a)
          BY <1>1, <2>1, <2>2, OnlyAround
        <4> QED BY <2>0, <2>2, <4>1, <4>2
      <3> QED BY <3>1
    <2>5. ASSUME EarlyUse PROVE around \subseteq ToSet(chain)
      <3>1. around \subseteq ToSet(u)
        BY <1>1, <2>0, <2>1, <2>5, AllAround
      <3>2. ToSet(u) \subseteq ToSet(chain)
        <4> HIDE DEF u
        <4>1. DOMAIN u = DOMAIN chain /\ \A k \in DOMAIN chain : chain[k] = u[k]
          BY <2>1, <2>5
        <4> QED BY <4>1 DEF ToSet
      <3> QED BY <3>1, <3>2
    <2> QED BY <2>0, <2>3, <2>4, <2>5
  <1> QED BY <1>1, Invariant, PTL

-----------------------------------------------------------------------------
(* The trie: what its nodes stand for                                      *)

\* a begins b.
Prefix(a, b) == Len(a) <= Len(b) /\ \A i \in 1 .. Len(a) : a[i] = b[i]

\* k is p followed by l
Joined(k, p, l) ==
    /\ Len(k) = Len(p) + Len(l)
    /\ \A i \in 1 .. Len(p) : k[i] = p[i]
    /\ \A i \in 1 .. Len(l) : k[Len(p) + i] = l[i]

\* What the words of patterns are made of, and what there is in patterns and paths
Letters == STRING \ (ParamSyms \cup CatchAlls \cup {"/"})

Symbols == STRING \cup {"/"}

\* Nodes of a trie; the symbols of one on the way to it are its label.
NodeRecords == [parent : Nat, kind : {"static", "param", "catchAll"}, path : Seq(Symbols),
                name : STRING \cup {"none"}, chain : [ToSet(Methods) -> Seq(Entries)]]

Label(n) == IF n.kind = "static" THEN n.path ELSE << n.name >>

\* A label is a word, or one symbol that says which kind the node is of.
Labelled(n) ==
    /\ n.kind = "static" => n.path \in Seq(Letters) /\ n.path # << >>
    /\ n.kind = "param" => n.name \in ParamSyms
    /\ n.kind = "catchAll" => n.name \in CatchAlls

\* Every node but the first hangs below another, and its key, the symbols on
\* the way to it, is that of its parent with its label behind.
Hangs(t, key) ==
    /\ t \in Seq(NodeRecords) /\ Len(t) >= 1 /\ t[1].parent = 0 /\ t[1].kind = "static"
    /\ key \in [1 .. Len(t) -> Seq(STRING)] /\ key[1] = << >>
    /\ \A c \in 2 .. Len(t) :
          /\ t[c].parent \in 1 .. Len(t) /\ t[t[c].parent].kind # "catchAll"
          /\ Labelled(t[c]) /\ Joined(key[c], key[t[c].parent], Label(t[c]))

\* Children begin differently, and there is one parameter and one catch-all.
ApartHeads(t) ==
    \A c, d \in 2 .. Len(t) :
        t[c].parent = t[d].parent /\ Label(t[c])[1] = Label(t[d])[1] => c = d

ApartKinds(t) ==
    \A c, d \in 2 .. Len(t) :
        t[c].parent = t[d].parent /\ t[c].kind = t[d].kind /\ t[c].kind # "static" => c = d

\* No two nodes have the same key.
Distinct(t, key) == \A c, d \in 1 .. Len(t) : key[c] = key[d] => c = d

\* A key that goes on behind a node's goes on through one of its children.
Branches(t, key) ==
    \A a, y \in 1 .. Len(t) : Prefix(key[a], key[y]) /\ a # y =>
        \E c \in 2 .. Len(t) : t[c].parent = a /\ Prefix(key[c], key[y])

\* What a trie is: every node has a key.
Keyed(t, key) == Hangs(t, key) /\ ApartHeads(t) /\ ApartKinds(t) /\ Distinct(t, key) /\ Branches(t, key)

\* The types of a keyed trie
LEMMA KeyedTypes ==
    ASSUME NEW t, NEW key, Keyed(t, key)
    PROVE  /\ Len(t) \in Nat /\ DOMAIN t = 1 .. Len(t) /\ 1 \in 1 .. Len(t)
           /\ \A c \in 1 .. Len(t) : /\ t[c] \in NodeRecords /\ key[c] \in Seq(STRING)
                                     /\ Len(key[c]) \in Nat
  BY DEF Keyed, Hangs

\* What a label is.
LEMMA LabelType ==
    ASSUME NEW n \in NodeRecords, Labelled(n)
    PROVE  /\ Label(n) \in Seq(STRING) /\ Len(Label(n)) \in Nat /\ Len(Label(n)) >= 1
           /\ n.kind = "static" => Label(n) = n.path /\ \A i \in 1 .. Len(n.path) : n.path[i] \in Letters
           /\ n.kind # "static" => Len(Label(n)) = 1 /\ Label(n)[1] = n.name
           /\ n.kind = "static" <=> Label(n)[1] \in Letters
           /\ n.kind = "param" <=> Label(n)[1] \in ParamSyms
           /\ n.kind = "catchAll" <=> Label(n)[1] \in CatchAlls
  <1>1. n.kind \in {"static", "param", "catchAll"}
    BY DEF NodeRecords
  <1>2. CASE n.kind = "static"
    <2>1. Label(n) = n.path /\ n.path \in Seq(Letters) /\ n.path # << >>
      BY <1>2 DEF Label, Labelled
    <2>4. n.path \in Seq(STRING)
      BY <2>1 DEF Letters
    <2>2. Len(n.path) \in Nat /\ Len(n.path) >= 1 /\ \A i \in 1 .. Len(n.path) : n.path[i] \in Letters
      BY <2>1
    <2>3. n.path[1] \in Letters
      BY <2>2
    <2> QED BY <1>1, <1>2, <2>1, <2>2, <2>3, <2>4, RouterAssumption DEF Letters
  <1>3. CASE n.kind # "static"
    <2>1. Label(n) = << n.name >>
      BY <1>3 DEF Label
    <2>3. (n.kind = "param" /\ n.name \in ParamSyms) \/ (n.kind = "catchAll" /\ n.name \in CatchAlls)
      <3>1. n.kind = "param" \/ n.kind = "catchAll"
        BY <1>1, <1>3
      <3>2. (n.kind = "param" => n.name \in ParamSyms) /\ (n.kind = "catchAll" => n.name \in CatchAlls)
        BY Zenon DEF Labelled
      <3> QED BY <3>1, <3>2
    <2>2. Label(n)[1] = n.name /\ Len(Label(n)) = 1 /\ Label(n) \in Seq(STRING)
      <3>1. n.name \in STRING
        <4> HIDE DEF Labelled
        <4> QED BY <2>3, RouterAssumption
      <3> HIDE DEF Labelled
      <3> QED BY <2>1, <3>1
    <2>4. /\ n.name \notin Letters
          /\ n.kind = "param" <=> n.name \in ParamSyms
          /\ n.kind = "catchAll" <=> n.name \in CatchAlls
      <3> HIDE DEF Labelled
      <3> QED BY <2>3, RouterAssumption DEF Letters
    <2> QED BY <1>1, <1>3, <2>2, <2>4
  <1> QED BY <1>2, <1>3

\* What hangs below a node.
Parented(t, key, c, p) ==
    /\ p = t[c].parent /\ c \in 1 .. Len(t) /\ p \in 1 .. Len(t) /\ t[p].kind # "catchAll"
    /\ t[c] \in NodeRecords /\ Labelled(t[c]) /\ Joined(key[c], key[p], Label(t[c]))
    /\ Len(Label(t[c])) \in Nat /\ Len(Label(t[c])) >= 1
    /\ key[c] \in Seq(STRING) /\ key[p] \in Seq(STRING)
    /\ Len(key[c]) \in Nat /\ Len(key[p]) \in Nat
    /\ Len(key[c]) = Len(key[p]) + Len(Label(t[c])) /\ Len(key[p]) < Len(key[c])
    /\ Prefix(key[p], key[c]) /\ p # c /\ key[c][Len(key[p]) + 1] = Label(t[c])[1]

\* Every node but the first has such a parent.
LEMMA Child ==
    ASSUME NEW t, NEW key, Keyed(t, key), NEW c \in 2 .. Len(t)
    PROVE  Parented(t, key, c, t[c].parent)
  <1>1. c \in 1 .. Len(t) /\ t[c] \in NodeRecords /\ key[c] \in Seq(STRING) /\ Len(key[c]) \in Nat
    BY KeyedTypes
  <1> DEFINE p == t[c].parent
             l == Label(t[c])
  <1>2. p \in 1 .. Len(t) /\ t[p].kind # "catchAll" /\ Labelled(t[c]) /\ Joined(key[c], key[p], l)
    BY DEF Keyed, Hangs
  <1>3. Len(l) \in Nat /\ Len(l) >= 1
    BY <1>1, <1>2, LabelType
  <1>4. key[p] \in Seq(STRING) /\ Len(key[p]) \in Nat
    BY <1>2, KeyedTypes
  <1> HIDE DEF l, p
  <1>5. Len(key[c]) = Len(key[p]) + Len(l)
    BY <1>2 DEF Joined
  <1>6. Len(key[p]) <= Len(key[c]) /\ Len(key[p]) < Len(key[c])
    BY <1>1, <1>3, <1>4, <1>5
  <1>7. Prefix(key[p], key[c])
    BY <1>2, <1>6 DEF Joined, Prefix
  <1>8. key[c][Len(key[p]) + 1] = l[1]
    <2>1. 1 \in 1 .. Len(l)
      BY <1>3
    <2> QED BY <1>2, <2>1 DEF Joined
  <1>9. p # c
    BY <1>6, <1>4
  <1> QED BY <1>1, <1>2, <1>3, <1>4, <1>5, <1>6, <1>7, <1>8, <1>9 DEF Parented, l, p

\* A key that goes on as a child does goes on through it.
LEMMA Through ==
    ASSUME NEW t, NEW key, Keyed(t, key), NEW c \in 2 .. Len(t), NEW y \in 1 .. Len(t),
           Prefix(key[t[c].parent], key[y]), Len(key[t[c].parent]) < Len(key[y]),
           key[y][Len(key[t[c].parent]) + 1] = Label(t[c])[1]
    PROVE  Prefix(key[c], key[y])
  <1> DEFINE p == t[c].parent
  <1>1. p \in 1 .. Len(t) /\ Len(key[p]) \in Nat
    BY Child DEF Parented
  <1>2. PICK e \in 2 .. Len(t) : t[e].parent = p /\ Prefix(key[e], key[y])
    <2>1. p # y
      BY <1>1
    <2> QED BY <1>1, <2>1 DEF Keyed, Branches
  <1>3. Label(t[e])[1] = key[y][Len(key[p]) + 1]
    <2>1. Len(key[p]) < Len(key[e]) /\ key[e][Len(key[p]) + 1] = Label(t[e])[1] /\ Len(key[e]) \in Nat
      <3>1. Parented(t, key, e, p)
        BY <1>2, Child
      <3> HIDE DEF p
      <3> QED BY <3>1 DEF Parented
    <2>2. Len(key[p]) + 1 \in 1 .. Len(key[e])
      BY <1>1, <2>1
    <2> QED BY <1>2, <2>1, <2>2 DEF Prefix
  <1>4. e = c
    BY <1>2, <1>3 DEF Keyed, ApartHeads
  <1> QED BY <1>2, <1>4

\* Between a node and its parent there is none.
LEMMA Nearest ==
    ASSUME NEW t, NEW key, Keyed(t, key), NEW c \in 2 .. Len(t), NEW x \in 1 .. Len(t),
           Prefix(key[x], key[c]), x # c
    PROVE  Prefix(key[x], key[t[c].parent])
  <1> DEFINE p == t[c].parent
  <1>1. /\ p \in 1 .. Len(t) /\ Len(key[p]) \in Nat /\ Len(key[x]) \in Nat /\ Len(key[c]) \in Nat
        /\ key[x] \in Seq(STRING) /\ key[c] \in Seq(STRING)
        /\ Prefix(key[p], key[c]) /\ key[c][Len(key[p]) + 1] = Label(t[c])[1]
    BY Child, KeyedTypes DEF Parented
  <1>2. CASE Len(key[x]) <= Len(key[p])
    <2>1. \A i \in 1 .. Len(key[x]) : key[x][i] = key[c][i] /\ i \in 1 .. Len(key[p])
      <3>1. \A i \in 1 .. Len(key[x]) : key[x][i] = key[c][i]
        BY DEF Prefix
      <3> HIDE DEF p
      <3> QED BY <1>1, <1>2, <3>1
    <2>2. \A i \in 1 .. Len(key[p]) : key[p][i] = key[c][i]
      BY <1>1 DEF Prefix
    <2>3. Prefix(key[x], key[p])
      <3> HIDE DEF p
      <3> QED BY <1>2, <2>1, <2>2 DEF Prefix
    <2> QED BY <2>3
  <1>3. CASE Len(key[p]) < Len(key[x])
    <2>1. Prefix(key[p], key[x]) /\ key[x][Len(key[p]) + 1] = Label(t[c])[1]
      <3>1. Len(key[p]) <= Len(key[x]) /\ Len(key[p]) + 1 \in 1 .. Len(key[x])
        BY <1>1, <1>3
      <3>2. \A i \in 1 .. Len(key[x]) : key[x][i] = key[c][i]
        BY DEF Prefix
      <3>3. \A i \in 1 .. Len(key[p]) : key[p][i] = key[c][i] /\ i \in 1 .. Len(key[x])
        BY <1>1, <3>1 DEF Prefix
      <3> QED BY <1>1, <3>1, <3>2, <3>3 DEF Prefix
    <2>2. Prefix(key[c], key[x])
      BY <1>3, <2>1, Through
    <2>3. key[x] = key[c]
      <3>1. Len(key[x]) = Len(key[c]) /\ \A i \in 1 .. Len(key[x]) : key[x][i] = key[c][i]
        BY <1>1, <2>2 DEF Prefix
      <3> QED BY <1>1, <3>1, SeqEqual
    <2>4. x = c
      BY <1>1, <2>3, Child DEF Keyed, Distinct, Parented
    <2> QED BY <2>4
  <1> QED BY <1>1, <1>2, <1>3

\* Facts about sequences of symbols.
LEMMA PrefixTrans ==
    ASSUME NEW a \in Seq(STRING), NEW b \in Seq(STRING), NEW c \in Seq(STRING),
           Prefix(a, b), Prefix(b, c)
    PROVE  Prefix(a, c)
  <1>1. Len(a) \in Nat /\ Len(b) \in Nat /\ Len(c) \in Nat
    OBVIOUS
  <1>2. \A i \in 1 .. Len(a) : i \in 1 .. Len(b)
    BY <1>1 DEF Prefix
  <1> QED BY <1>1, <1>2 DEF Prefix

\* Two prefixes of a sequence: the shorter is one of the longer.
LEMMA PrefixOfBoth ==
    ASSUME NEW a \in Seq(STRING), NEW b \in Seq(STRING), NEW c \in Seq(STRING),
           Prefix(a, c), Prefix(b, c), Len(a) <= Len(b)
    PROVE  Prefix(a, b)
  <1>1. Len(a) \in Nat /\ Len(b) \in Nat /\ Len(c) \in Nat
    OBVIOUS
  <1>2. \A i \in 1 .. Len(a) : i \in 1 .. Len(b)
    BY <1>1
  <1> QED BY <1>1, <1>2 DEF Prefix

\* Sequences that agree everywhere are the same.
LEMMA SameSequence ==
    ASSUME NEW a \in Seq(STRING), NEW b \in Seq(STRING), Len(a) = Len(b),
           \A i \in 1 .. Len(a) : a[i] = b[i]
    PROVE  a = b
  OBVIOUS

\* A prefix that is not shorter is the whole.
LEMMA PrefixEqual ==
    ASSUME NEW a \in Seq(STRING), NEW b \in Seq(STRING), Prefix(a, b), Len(b) <= Len(a)
    PROVE  a = b
  <1>1. Len(a) \in Nat /\ Len(b) \in Nat /\ Len(a) = Len(b)
    BY DEF Prefix
  <1>2. \A i \in 1 .. Len(a) : a[i] = b[i]
    BY DEF Prefix
  <1> QED BY <1>1, <1>2

\* A sequence begins with itself.
LEMMA PrefixItself == ASSUME NEW a \in Seq(STRING) PROVE Prefix(a, a)
  BY DEF Prefix

\* Joined says what \o makes of two sequences.
LEMMA Join ==
    ASSUME NEW a \in Seq(STRING), NEW b \in Seq(STRING)
    PROVE  /\ a \o b \in Seq(STRING) /\ Joined(a \o b, a, b)
           /\ \A k \in Seq(STRING) : Joined(k, a, b) => k = a \o b
  <1>1. a \o b \in Seq(STRING) /\ Joined(a \o b, a, b)
    BY DEF Joined
  <1>2. ASSUME NEW k \in Seq(STRING), Joined(k, a, b) PROVE k = a \o b
    <2> DEFINE j == a \o b
    <2>1. j \in Seq(STRING) /\ Len(j) = Len(k) /\ Len(j) \in Nat
          /\ Len(j) = Len(a) + Len(b) /\ Len(a) \in Nat /\ Len(b) \in Nat
      BY <1>1, <1>2 DEF Joined
    <2>2. ASSUME NEW i \in 1 .. Len(j) PROVE j[i] = k[i]
      <3> HIDE DEF j
      <3>1. CASE i <= Len(a)
        <4>1. i \in 1 .. Len(a)
          BY <2>1, <3>1
        <4> QED BY <1>1, <1>2, <4>1 DEF Joined, j
      <3>2. CASE i > Len(a)
        <4>1. i - Len(a) \in 1 .. Len(b) /\ Len(a) + (i - Len(a)) = i
          BY <2>1, <3>2
        <4>2. j[Len(a) + (i - Len(a))] = b[i - Len(a)]
          BY <1>1, <4>1 DEF Joined, j
        <4>3. k[Len(a) + (i - Len(a))] = b[i - Len(a)]
          BY <1>2, <4>1 DEF Joined
        <4> QED BY <4>1, <4>2, <4>3
      <3> QED BY <2>1, <3>1, <3>2
    <2> HIDE DEF j
    <2>3. j = k
      BY <1>2, <2>1, <2>2, SameSequence
    <2> QED BY <2>3 DEF j
  <1> QED BY <1>1, <1>2

-----------------------------------------------------------------------------
(* A new child                                                             *)

\* Nothing is there yet that begins like the label of n, below its parent.
Free(t, n) ==
    /\ n \in NodeRecords /\ Labelled(n) /\ n.parent \in 1 .. Len(t) /\ t[n.parent].kind # "catchAll"
    /\ \A c \in 2 .. Len(t) : t[c].parent = n.parent =>
          Label(t[c])[1] # Label(n)[1] /\ (t[c].kind = n.kind => n.kind = "static")

\* The keys with that of n, which is appended
Longer(t, key, n) ==
    [c \in 1 .. Len(t) + 1 |-> IF c <= Len(t) THEN key[c] ELSE key[n.parent] \o Label(n)]

\* A trie stays keyed when a node is appended that shares no beginning with its siblings.
LEMMA NewChild ==
    ASSUME NEW t, NEW key, Keyed(t, key), NEW n, Free(t, n)
    PROVE  Keyed(Append(t, n), Longer(t, key, n))
  <1> DEFINE N == Len(t)
             p == n.parent
             l == Label(n)
             k == key[p] \o l
             t2 == Append(t, n)
             key2 == Longer(t, key, n)
  <1>1. N \in Nat /\ N >= 1 /\ t \in Seq(NodeRecords) /\ p \in 1 .. N /\ n \in NodeRecords
        /\ Labelled(n) /\ \A c \in 1 .. N : key[c] \in Seq(STRING) /\ Len(key[c]) \in Nat
    BY KeyedTypes DEF Keyed, Hangs, Free
  <1>2. l \in Seq(STRING) /\ Len(l) \in Nat /\ Len(l) >= 1 /\ key[p] \in Seq(STRING)
    BY <1>1, LabelType
  <1>3. k \in Seq(STRING) /\ Joined(k, key[p], l)
    BY <1>2, Join
  <1>4. t2 \in Seq(NodeRecords) /\ Len(t2) = N + 1 /\ t2[N + 1] = n /\ \A c \in 1 .. N : t2[c] = t[c]
    BY <1>1
  <1>5. key2 \in [1 .. N + 1 -> Seq(STRING)] /\ key2[N + 1] = k /\ \A c \in 1 .. N : key2[c] = key[c]
    <2>1. \A c \in 1 .. N + 1 : c <= N => c \in 1 .. N
      BY <1>1
    <2>2. key2 = [c \in 1 .. N + 1 |-> IF c <= N THEN key[c] ELSE k]
      BY DEF Longer
    <2>3. N + 1 \in 1 .. N + 1 /\ ~(N + 1 <= N) /\ \A c \in 1 .. N : c \in 1 .. N + 1 /\ c <= N
      BY <1>1
    <2> HIDE DEF k, key2, N
    <2> QED BY <1>1, <1>3, <2>1, <2>2, <2>3
  <1>6. Len(k) \in Nat /\ Len(k) = Len(key[p]) + Len(l) /\ Len(key[p]) < Len(k)
        /\ Prefix(key[p], k) /\ k[Len(key[p]) + 1] = l[1]
    <2> HIDE DEF k, l, p
    <2>1. Len(k) \in Nat /\ Len(k) = Len(key[p]) + Len(l) /\ Len(key[p]) < Len(k) /\ Len(key[p]) \in Nat
      BY <1>1, <1>2, <1>3 DEF Joined
    <2>2. 1 \in 1 .. Len(l)
      BY <1>2
    <2> QED BY <1>3, <2>1, <2>2 DEF Joined, Prefix
  <1> HIDE DEF k, t2, key2
  \* no key begins with the parent's and goes on as l does
  <1>7. ASSUME NEW y \in 1 .. N, Prefix(key[p], key[y]), Len(key[p]) < Len(key[y]),
               key[y][Len(key[p]) + 1] = l[1]
        PROVE  FALSE
    <2>1. p # y
      BY <1>1, <1>7
    <2>2. PICK e \in 2 .. N : t[e].parent = p /\ Prefix(key[e], key[y])
      BY <1>1, <1>7, <2>1 DEF Keyed, Branches
    <2>3. Parented(t, key, e, p)
      BY <2>2, Child
    <2>4. Label(t[e])[1] = l[1]
      <3> HIDE DEF l, p
      <3>0. Len(key[p]) \in Nat /\ Len(key[e]) \in Nat /\ Len(key[p]) < Len(key[e])
            /\ key[e][Len(key[p]) + 1] = Label(t[e])[1]
        BY <2>3 DEF Parented
      <3>1. Len(key[p]) + 1 \in 1 .. Len(key[e]) /\ key[e][Len(key[p]) + 1] = Label(t[e])[1]
        BY <3>0
      <3> QED BY <1>7, <2>2, <3>1 DEF Prefix
    <2> QED BY <2>2, <2>4 DEF Free
  <1>8. ASSUME NEW y \in 1 .. N PROVE ~Prefix(k, key[y])
    <2> SUFFICES ASSUME Prefix(k, key[y]) PROVE FALSE
      OBVIOUS
    <2>1. Prefix(key[p], key[y])
      BY <1>1, <1>2, <1>3, <1>6, PrefixTrans
    <2>2. Len(key[p]) < Len(key[y]) /\ key[y][Len(key[p]) + 1] = l[1]
      <3> HIDE DEF l, p
      <3>1. Len(key[p]) + 1 \in 1 .. Len(k) /\ Len(k) <= Len(key[y])
        BY <1>1, <1>6 DEF Prefix
      <3>2. k[Len(key[p]) + 1] = key[y][Len(key[p]) + 1]
        BY <3>1 DEF Prefix
      <3>3. Len(key[y]) \in Nat /\ Len(key[p]) \in Nat
        BY <1>1
      <3> QED BY <1>6, <3>1, <3>2, <3>3
    <2> QED BY <1>7, <2>1, <2>2
  <1>9. Hangs(t2, key2)
    <2>1. t2[1].parent = 0 /\ t2[1].kind = "static" /\ key2[1] = << >> /\ Len(t2) >= 1
      BY <1>1, <1>4, <1>5 DEF Keyed, Hangs
    <2>2. ASSUME NEW c \in 2 .. N + 1
          PROVE  /\ t2[c].parent \in 1 .. Len(t2) /\ t2[t2[c].parent].kind # "catchAll"
                 /\ Labelled(t2[c]) /\ Joined(key2[c], key2[t2[c].parent], Label(t2[c]))
      <3>1. CASE c = N + 1
        <4>1. t2[c] = n /\ t2[p] = t[p] /\ key2[c] = k /\ key2[p] = key[p] /\ p \in 1 .. N + 1
          BY <1>1, <1>4, <1>5, <3>1
        <4>2. t[p].kind # "catchAll"
          BY DEF Free
        <4> QED BY <1>1, <1>3, <1>4, <4>1, <4>2
      <3>2. CASE c \in 2 .. N
        <4>1. Parented(t, key, c, t[c].parent)
          BY <3>2, Child
        <4>2. t[c].parent \in 1 .. N /\ t[t[c].parent].kind # "catchAll" /\ Labelled(t[c])
              /\ Joined(key[c], key[t[c].parent], Label(t[c])) /\ c \in 1 .. N
          BY <4>1 DEF Parented
        <4>3. t2[c] = t[c] /\ t2[t[c].parent] = t[t[c].parent] /\ key2[c] = key[c]
              /\ key2[t[c].parent] = key[t[c].parent]
          BY <1>4, <1>5, <4>2
        <4> QED BY <1>1, <1>4, <4>2, <4>3
      <3> QED BY <1>1, <3>1, <3>2
    <2> QED BY <1>4, <1>5, <2>1, <2>2 DEF Hangs
  <1>10. ApartHeads(t2)
    <2>1. ASSUME NEW c \in 2 .. N + 1, NEW d \in 2 .. N + 1, c # d,
                 t2[c].parent = t2[d].parent, Label(t2[c])[1] = Label(t2[d])[1]
          PROVE  FALSE
      <3>1. CASE c \in 2 .. N /\ d \in 2 .. N
        BY <1>4, <2>1, <3>1 DEF Keyed, ApartHeads
      <3>2. CASE c = N + 1 /\ d \in 2 .. N
        BY <1>4, <2>1, <3>2 DEF Free
      <3>3. CASE d = N + 1 /\ c \in 2 .. N
        BY <1>4, <2>1, <3>3 DEF Free
      <3> QED BY <1>1, <2>1, <3>1, <3>2, <3>3
    <2> QED BY <1>4, <2>1 DEF ApartHeads
  <1>11. ApartKinds(t2)
    <2>1. ASSUME NEW c \in 2 .. N + 1, NEW d \in 2 .. N + 1, c # d,
                 t2[c].parent = t2[d].parent, t2[c].kind = t2[d].kind, t2[c].kind # "static"
          PROVE  FALSE
      <3>1. CASE c \in 2 .. N /\ d \in 2 .. N
        BY <1>4, <2>1, <3>1 DEF Keyed, ApartKinds
      <3>2. CASE c = N + 1 /\ d \in 2 .. N
        BY <1>4, <2>1, <3>2 DEF Free
      <3>3. CASE d = N + 1 /\ c \in 2 .. N
        BY <1>4, <2>1, <3>3 DEF Free
      <3> QED BY <1>1, <2>1, <3>1, <3>2, <3>3
    <2> QED BY <1>4, <2>1 DEF ApartKinds
  <1>12. Distinct(t2, key2)
    <2>1. ASSUME NEW c \in 1 .. N + 1, NEW d \in 1 .. N + 1, key2[c] = key2[d], c # d
          PROVE  FALSE
      <3>0. Prefix(k, k)
        BY <1>3, PrefixItself
      <3>1. CASE c \in 1 .. N /\ d \in 1 .. N
        BY <1>5, <2>1, <3>1 DEF Keyed, Distinct
      <3>2. CASE c = N + 1 /\ d \in 1 .. N
        BY <1>5, <1>8, <2>1, <3>0, <3>2
      <3>3. CASE d = N + 1 /\ c \in 1 .. N
        BY <1>5, <1>8, <2>1, <3>0, <3>3
      <3> QED BY <1>1, <2>1, <3>1, <3>2, <3>3
    <2> QED BY <1>4, <2>1 DEF Distinct
  <1>13. Branches(t2, key2)
    <2>1. ASSUME NEW a \in 1 .. N + 1, NEW y \in 1 .. N + 1, Prefix(key2[a], key2[y]), a # y
          PROVE  \E c \in 2 .. N + 1 : t2[c].parent = a /\ Prefix(key2[c], key2[y])
      <3>1. CASE a \in 1 .. N /\ y \in 1 .. N
        <4>1. PICK c \in 2 .. N : t[c].parent = a /\ Prefix(key[c], key[y])
          BY <1>5, <2>1, <3>1 DEF Keyed, Branches
        <4>2. c \in 2 .. N + 1 /\ t2[c].parent = a /\ key2[c] = key[c] /\ key2[y] = key[y]
          BY <1>1, <1>4, <1>5, <3>1, <4>1
        <4> QED BY <4>1, <4>2
      <3>2. CASE a = N + 1 /\ y \in 1 .. N
        BY <1>5, <1>8, <2>1, <3>2
      <3>3. CASE a \in 1 .. N /\ y = N + 1
        <4>0. Prefix(key[a], k) /\ key[a] \in Seq(STRING) /\ Len(key[a]) \in Nat
          BY <1>1, <1>5, <2>1, <3>3
        <4>1. CASE a = p
          <5>1. N + 1 \in 2 .. N + 1 /\ t2[N + 1].parent = a /\ Prefix(k, k)
            BY <1>1, <1>3, <1>4, <4>1, PrefixItself
          <5> QED BY <1>5, <3>3, <5>1
        <4>2. CASE a # p /\ Len(key[a]) <= Len(key[p])
          <5>1. Prefix(key[a], key[p])
            BY <1>2, <1>3, <1>6, <4>0, <4>2, PrefixOfBoth
          <5>2. PICK c \in 2 .. N : t[c].parent = a /\ Prefix(key[c], key[p])
            BY <1>1, <3>3, <4>2, <5>1 DEF Keyed, Branches
          <5>3. Prefix(key[c], k)
            BY <1>1, <1>2, <1>3, <1>6, <5>2, PrefixTrans
          <5>4. c \in 2 .. N + 1 /\ t2[c].parent = a /\ key2[c] = key[c] /\ key2[y] = k
            BY <1>1, <1>4, <1>5, <3>3, <5>2
          <5> QED BY <5>3, <5>4
        <4>3. CASE Len(key[p]) < Len(key[a])
          <5>1. Prefix(key[p], key[a])
            <6>1. Len(key[p]) <= Len(key[a])
              BY <1>1, <4>0, <4>3
            <6> QED BY <1>2, <1>3, <1>6, <4>0, <6>1, PrefixOfBoth
          <5>2. key[a][Len(key[p]) + 1] = l[1]
            <6>1. Len(key[p]) + 1 \in 1 .. Len(key[a])
              BY <1>1, <4>0, <4>3
            <6> QED BY <1>6, <4>0, <6>1 DEF Prefix
          <5> QED BY <1>7, <3>3, <4>3, <5>1, <5>2
        <4> QED BY <1>1, <4>0, <4>1, <4>2, <4>3
      <3> QED BY <1>1, <2>1, <3>1, <3>2, <3>3
    <2> QED BY <1>4, <2>1 DEF Branches
  <1> QED BY <1>9, <1>10, <1>11, <1>12, <1>13 DEF Keyed, t2, key2

-----------------------------------------------------------------------------
(* Splitting an edge                                                       *)

\* What a split leaves of a node that is not cut
Kept(t, t2, c, x) ==
    /\ t2[x] \in NodeRecords /\ Labelled(t2[x]) = Labelled(t[x])
    /\ Label(t2[x]) = Label(t[x]) /\ t2[x].kind = t[x].kind /\ t2[x].chain = t[x].chain
    /\ t2[x].parent = IF t[x].parent = c THEN Len(t) + 1 ELSE t[x].parent

\* One of the two nodes it makes of the one that is cut
Made(nd, parent, l, chain) ==
    /\ nd \in NodeRecords /\ Labelled(nd) /\ nd.kind = "static"
    /\ nd.parent = parent /\ Label(nd) = l /\ nd.chain = chain

\* What becomes of the nodes of t
Halved(t, t2, c, n) ==
    /\ t2 \in Seq(NodeRecords) /\ Len(t2) = Len(t) + 1
    /\ \A x \in 1 .. Len(t) : x # c => Kept(t, t2, c, x)
    /\ Made(t2[c], t[c].parent, SubSeq(t[c].path, 1, n), NoChains)
    /\ Made(t2[Len(t) + 1], c, Drop(t[c].path, n), t[c].chain)

\* The upper half of a split, as a node
LEMMA NodeType ==
    ASSUME NEW parent \in Nat, NEW path \in Seq(Letters), path # << >>
    PROVE  Made(Node(parent, "static", path, "none"), parent, path, NoChains)
  <1>1. NoChains \in [ToSet(Methods) -> Seq(Entries)]
    BY DEF NoChains
  <1>2. path \in Seq(Symbols)
    BY DEF Letters, Symbols
  <1> DEFINE nd == Node(parent, "static", path, "none")
  <1>3. nd \in NodeRecords /\ nd.kind = "static" /\ nd.parent = parent /\ nd.path = path /\ nd.chain = NoChains
    <2> DEFINE Chains == [ToSet(Methods) -> Seq(Entries)]
    <2>1. nd = [parent |-> parent, kind |-> "static", path |-> path, name |-> "none", chain |-> NoChains]
      BY DEF Node
    <2>2. NodeRecords = [parent : Nat, kind : {"static", "param", "catchAll"}, path : Seq(Symbols),
                         name : STRING \cup {"none"}, chain : Chains]
      BY DEF NodeRecords
    <2>3. NoChains \in Chains
      BY <1>1
    <2> HIDE DEF NoChains, nd, Chains
    <2>4. nd.kind = "static" /\ nd.parent = parent /\ nd.path = path /\ nd.chain = NoChains
      BY <2>1
    <2>5. "static" \in {"static", "param", "catchAll"} /\ "none" \in STRING \cup {"none"}
      OBVIOUS
    <2>6. nd \in NodeRecords
      BY <1>2, <2>1, <2>2, <2>3, <2>5, Zenon
    <2> QED BY <2>4, <2>6
  <1> HIDE DEF nd
  <1>4. Labelled(nd) /\ Label(nd) = path
    BY <1>3 DEF Labelled, Label
  <1> QED BY <1>3, <1>4 DEF Made, nd

\* What Split makes of a trie, node by node.
LEMMA SplitHalves ==
    ASSUME NEW t \in Seq(NodeRecords), NEW c \in 1 .. Len(t), t[c].kind = "static", Labelled(t[c]),
           NEW n \in 1 .. Len(t[c].path) - 1
    PROVE  Halved(t, Split(t, c, n), c, n)
  <1> DEFINE N == Len(t)
             l == t[c].path
             moved == [i \in DOMAIN t |-> IF t[i].parent = c THEN [t[i] EXCEPT !.parent = N + 1]
                                                             ELSE t[i]]
             a == Node(t[c].parent, "static", SubSeq(l, 1, n), "none")
             b == [t[c] EXCEPT !.parent = c, !.path = Drop(@, n)]
             cut == [moved EXCEPT ![c] = a]
             t2 == Split(t, c, n)
  <1>1. N \in Nat /\ DOMAIN t = 1 .. N /\ c \in 1 .. N /\ \A x \in 1 .. N : t[x] \in NodeRecords
    OBVIOUS
  <1>2. l \in Seq(Letters) /\ Len(l) \in Nat /\ n \in 1 .. Len(l) - 1
    <2>1. l \in Seq(Letters)
      BY DEF Labelled
    <2> QED BY <2>1
  <1>3. t2 = Append(cut, b)
    BY DEF Split
  <1>4. SubSeq(l, 1, n) \in Seq(Letters) /\ SubSeq(l, 1, n) # << >>
        /\ Drop(l, n) \in Seq(Letters) /\ Drop(l, n) # << >>
    <2> HIDE DEF l
    <2>1. SubSeq(l, 1, n) \in Seq(Letters) /\ Len(SubSeq(l, 1, n)) = n /\ n >= 1
      BY <1>2
    <2>2. Drop(l, n) \in Seq(Letters) /\ Len(Drop(l, n)) = Len(l) - n /\ Len(l) - n >= 1
      BY <1>2 DEF Drop
    <2> QED BY <2>1, <2>2
  <1>5. Made(a, t[c].parent, SubSeq(l, 1, n), NoChains)
    <2>1. t[c].parent \in Nat
      BY <1>1 DEF NodeRecords
    <2> QED BY <1>4, <2>1, NodeType
  <1>6. Made(b, c, Drop(l, n), t[c].chain)
    <2>1. t[c] \in NodeRecords /\ c \in Nat /\ Drop(l, n) \in Seq(Symbols)
      BY <1>1, <1>4 DEF Letters, Symbols
    <2>2. b \in NodeRecords /\ b.kind = t[c].kind /\ b.parent = c /\ b.path = Drop(l, n) /\ b.chain = t[c].chain
      BY <2>1 DEF NodeRecords
    <2> HIDE DEF b
    <2>3. b.kind = "static"
      BY <2>2
    <2>4. Labelled(b) /\ Label(b) = Drop(l, n)
      BY <1>4, <2>2, <2>3 DEF Labelled, Label
    <2> QED BY <2>2, <2>3, <2>4 DEF Made
  <1>7. ASSUME NEW x \in 1 .. N
        PROVE  /\ moved[x] \in NodeRecords /\ moved[x].path = t[x].path /\ moved[x].name = t[x].name
               /\ moved[x].kind = t[x].kind /\ moved[x].chain = t[x].chain
               /\ moved[x].parent = IF t[x].parent = c THEN N + 1 ELSE t[x].parent
    <2>1. t[x] \in NodeRecords /\ N + 1 \in Nat
      BY <1>1
    <2>2. moved[x] = IF t[x].parent = c THEN [t[x] EXCEPT !.parent = N + 1] ELSE t[x]
      BY <1>1
    <2> HIDE DEF moved
    <2> QED BY <2>1, <2>2 DEF NodeRecords
  <1>8. cut \in Seq(NodeRecords) /\ Len(cut) = N /\ cut[c] = a /\ \A x \in 1 .. N : x # c => cut[x] = moved[x]
    <2>1. moved \in [1 .. N -> NodeRecords]
      <3>1. moved = [x \in 1 .. N |-> moved[x]]
        BY <1>1
      <3> HIDE DEF moved
      <3> QED BY <1>7, <3>1
    <2>2. a \in NodeRecords
      BY <1>5 DEF Made
    <2> HIDE DEF moved, a
    <2>3. cut \in [1 .. N -> NodeRecords] /\ cut[c] = a /\ \A x \in 1 .. N : x # c => cut[x] = moved[x]
      BY <1>1, <2>1, <2>2
    <2> HIDE DEF cut
    <2> QED BY <1>1, <2>3
  <1>9. t2 \in Seq(NodeRecords) /\ Len(t2) = N + 1 /\ t2[N + 1] = b /\ \A x \in 1 .. N : t2[x] = cut[x]
    <2>1. b \in NodeRecords
      BY <1>6 DEF Made
    <2> HIDE DEF b, cut, t2
    <2>2. cut \in Seq(NodeRecords) /\ Len(cut) = N /\ N \in Nat
      BY <1>1, <1>8
    <2> HIDE DEF N
    <2> QED BY <1>3, <2>1, <2>2
  <1>10. ASSUME NEW x \in 1 .. N, x # c PROVE Kept(t, t2, c, x)
    <2>1. t2[x] = moved[x]
      BY <1>8, <1>9, <1>10
    <2> HIDE DEF moved, t2
    <2>2. Label(t2[x]) = Label(t[x]) /\ Labelled(t2[x]) = Labelled(t[x])
      BY <1>7, <2>1 DEF Label, Labelled
    <2> QED BY <1>7, <2>1, <2>2 DEF Kept
  <1> HIDE DEF a, b, cut, moved, t2
  <1>11. t2[c] = a
    BY <1>1, <1>8, <1>9
  <1> QED BY <1>5, <1>6, <1>9, <1>10, <1>11 DEF Halved, t2, l, N

\* The keys with that of the upper half of c, cut after n characters
Cut(t, key, c, n) ==
    [x \in 1 .. Len(t) + 1 |->
        IF x = c THEN SubSeq(key[c], 1, Len(key[t[c].parent]) + n)
        ELSE IF x = Len(t) + 1 THEN key[c] ELSE key[x]]

\* A split keeps the trie in order, and every key.
LEMMA SplitKeyed ==
    ASSUME NEW t, NEW key, Keyed(t, key), NEW c \in 2 .. Len(t), t[c].kind = "static",
           NEW n \in 1 .. Len(t[c].path) - 1, NEW t2, Halved(t, t2, c, n)
    PROVE  Keyed(t2, Cut(t, key, c, n))
  <1> DEFINE N == Len(t)
             p == t[c].parent
             l == t[c].path
             h == SubSeq(key[c], 1, Len(key[p]) + n)
             key2 == Cut(t, key, c, n)
  <1>1. N \in Nat /\ N >= 2 /\ c \in 1 .. N /\ c # N + 1 /\ p \in 1 .. N /\ p # c /\ t \in Seq(NodeRecords)
        /\ t[p].kind # "catchAll" /\ Labelled(t[c]) /\ Label(t[c]) = l
        /\ \A x \in 1 .. N : key[x] \in Seq(STRING) /\ Len(key[x]) \in Nat
    <2>1. Parented(t, key, c, p)
      BY Child
    <2>2. N \in Nat /\ t \in Seq(NodeRecords) /\ \A x \in 1 .. N : key[x] \in Seq(STRING) /\ Len(key[x]) \in Nat
      BY KeyedTypes DEF Keyed, Hangs
    <2>3. c \in 1 .. N /\ p \in 1 .. N /\ p # c /\ t[p].kind # "catchAll" /\ Labelled(t[c])
      BY <2>1 DEF Parented
    <2>4. Label(t[c]) = l
      BY DEF Label
    <2>5. N >= 2 /\ c # N + 1
      BY <2>2
    <2> QED BY <2>2, <2>3, <2>4, <2>5
  <1>nodes. N \in Nat /\ c \in 1 .. N /\ c \in 2 .. N /\ p \in 1 .. N
    BY <1>1
  <1>2. Joined(key[c], key[p], l) /\ Len(l) \in Nat /\ n \in 1 .. Len(l) - 1 /\ l \in Seq(STRING)
        /\ Len(key[c]) = Len(key[p]) + Len(l) /\ Prefix(key[p], key[c]) /\ key[c][Len(key[p]) + 1] = l[1]
        /\ key[c] \in Seq(STRING) /\ key[p] \in Seq(STRING) /\ Len(key[c]) \in Nat /\ Len(key[p]) \in Nat
    <2>1. Parented(t, key, c, p)
      BY Child
    <2>2. l \in Seq(STRING)
      BY <2>1 DEF Parented, Labelled, Letters
    <2> QED BY <1>1, <2>1, <2>2 DEF Parented
  <1>sizes. /\ key[c] \in Seq(STRING) /\ Len(key[c]) \in Nat /\ Len(key[p]) \in Nat /\ Len(l) \in Nat
            /\ n \in 1 .. Len(l) - 1 /\ Len(key[c]) = Len(key[p]) + Len(l)
    BY <1>2
  <1>3. /\ h \in Seq(STRING) /\ Len(h) = Len(key[p]) + n /\ Prefix(h, key[c]) /\ Prefix(key[p], h)
        /\ Len(key[p]) < Len(h) /\ Len(h) < Len(key[c])
        /\ \A i \in 1 .. Len(h) : h[i] = key[c][i]
    <2> HIDE DEF l, p
    <2>1. h \in Seq(STRING) /\ Len(h) = Len(key[p]) + n /\ \A i \in 1 .. Len(key[p]) + n : h[i] = key[c][i]
      <3>1. Len(key[p]) + n \in 0 .. Len(key[c])
        BY <1>sizes
      <3> QED BY <1>sizes, <3>1
    <2>2. Len(key[p]) < Len(h) /\ Len(h) < Len(key[c])
      BY <1>2, <2>1
    <2>3. Len(h) <= Len(key[c]) /\ Len(key[p]) <= Len(h)
      BY <1>2, <2>1
    <2>4. \A i \in 1 .. Len(key[p]) : i \in 1 .. Len(key[p]) + n /\ key[p][i] = key[c][i]
      BY <1>2 DEF Prefix
    <2> HIDE DEF h
    <2>5. Prefix(h, key[c])
      BY <2>1, <2>3 DEF Prefix
    <2>6. Prefix(key[p], h)
      BY <2>1, <2>3, <2>4 DEF Prefix
    <2> QED BY <2>1, <2>2, <2>5, <2>6
  <1>4. /\ key2 \in [1 .. N + 1 -> Seq(STRING)] /\ key2[c] = h /\ key2[N + 1] = key[c]
        /\ \A x \in 1 .. N : x # c => key2[x] = key[x]
    <2>1. key2 = [x \in 1 .. N + 1 |-> IF x = c THEN h ELSE IF x = N + 1 THEN key[c] ELSE key[x]]
      BY DEF Cut
    <2>2. /\ \A x \in 1 .. N + 1 : x # N + 1 => x \in 1 .. N
          /\ N + 1 \in 1 .. N + 1 /\ c \in 1 .. N + 1 /\ c # N + 1
          /\ \A x \in 1 .. N : x \in 1 .. N + 1 /\ x # N + 1
      <3> HIDE DEF N, h, key2, l
      <3> QED BY <1>nodes
    <2> HIDE DEF h, key2, N
    <2> QED BY <1>1, <1>3, <2>1, <2>2
  <1>5. /\ t2 \in Seq(NodeRecords) /\ Len(t2) = N + 1
        /\ \A x \in 1 .. N : x # c => Kept(t, t2, c, x)
        /\ Made(t2[c], p, SubSeq(l, 1, n), NoChains) /\ Made(t2[N + 1], c, Drop(l, n), t[c].chain)
    BY DEF Halved
  <1>6. /\ Joined(h, key[p], SubSeq(l, 1, n)) /\ Joined(key[c], h, Drop(l, n))
        /\ SubSeq(l, 1, n)[1] = l[1]
    <2>1. Len(SubSeq(l, 1, n)) = n /\ \A i \in 1 .. n : SubSeq(l, 1, n)[i] = l[i]
      BY <1>2
    <2>2. Len(Drop(l, n)) = Len(l) - n /\ \A i \in 1 .. Len(l) - n : Drop(l, n)[i] = l[n + i]
      BY <1>2 DEF Drop
    <2>3. \A i \in 1 .. Len(l) : key[c][Len(key[p]) + i] = l[i]
      BY <1>2 DEF Joined
    <2>4. \A i \in 1 .. Len(key[p]) : key[c][i] = key[p][i]
      BY <1>2 DEF Joined
    <2> HIDE DEF l, p, h
    <2>5. Joined(h, key[p], SubSeq(l, 1, n))
      <3>1. \A i \in 1 .. Len(key[p]) : h[i] = key[p][i]
        <4>1. \A i \in 1 .. Len(key[p]) : i \in 1 .. Len(h)
          BY <1>2, <1>3
        <4> QED BY <1>3, <2>4, <4>1
      <3>2. \A i \in 1 .. n : h[Len(key[p]) + i] = l[i]
        <4>1. \A i \in 1 .. n : Len(key[p]) + i \in 1 .. Len(h) /\ i \in 1 .. Len(l)
          <5>1. Len(h) = Len(key[p]) + n
            BY <1>3
          <5> QED BY <1>sizes, <5>1
        <4> QED BY <1>3, <2>3, <4>1
      <3> QED BY <1>3, <2>1, <3>1, <3>2 DEF Joined
    <2>6. Joined(key[c], h, Drop(l, n))
      <3>1. \A i \in 1 .. Len(l) - n : key[c][Len(h) + i] = l[n + i]
        <4>1. \A i \in 1 .. Len(l) - n : Len(h) + i = Len(key[p]) + (n + i) /\ n + i \in 1 .. Len(l)
          <5>1. Len(h) = Len(key[p]) + n /\ Len(key[p]) \in Nat /\ Len(l) \in Nat /\ n \in 1 .. Len(l) - 1
            BY <1>2, <1>3
          <5>2. ASSUME NEW P \in Nat, NEW H \in Nat, NEW L \in Nat, NEW k \in Nat, H = P + k, NEW i \in 1 .. L - k
                PROVE  H + i = P + (k + i) /\ k + i \in 1 .. L
            BY <5>2
          <5>3. n \in Nat /\ Len(h) \in Nat
            BY <1>2, <1>3
          <5> HIDE DEF h, l, p
          <5> QED BY <5>1, <5>2, <5>3
        <4> QED BY <2>3, <4>1
      <3>2. Len(key[c]) = Len(h) + (Len(l) - n)
        BY <1>2, <1>3
      <3> QED BY <1>3, <2>2, <3>1, <3>2 DEF Joined
    <2>7. 1 \in 1 .. n
      BY <1>2
    <2> QED BY <2>1, <2>5, <2>6, <2>7
  <1> HIDE DEF h, key2
  \* parents and labels afterwards
  <1>7. ASSUME NEW x \in 2 .. N, x # c
        PROVE  /\ x \in 1 .. N /\ t2[x].kind = t[x].kind /\ Label(t2[x]) = Label(t[x]) /\ Labelled(t2[x])
               /\ t[x].parent \in 1 .. N /\ t[t[x].parent].kind # "catchAll"
               /\ t2[x].parent = (IF t[x].parent = c THEN N + 1 ELSE t[x].parent)
               /\ t2[x].parent # c /\ Joined(key[x], key[t[x].parent], Label(t[x]))
    <2>1. Parented(t, key, x, t[x].parent)
      BY <1>7, Child
    <2>2. x \in 1 .. N /\ Labelled(t[x]) /\ t[x].parent \in 1 .. N /\ t[t[x].parent].kind # "catchAll"
          /\ Joined(key[x], key[t[x].parent], Label(t[x]))
      BY <2>1 DEF Parented
    <2>3. Kept(t, t2, c, x)
      BY <1>5, <1>7, <2>2
    <2> QED BY <1>1, <2>2, <2>3 DEF Kept
  <1>8. /\ t2[c].kind = "static" /\ t2[c].parent = p /\ Labelled(t2[c]) /\ Label(t2[c]) = SubSeq(l, 1, n)
        /\ t2[N + 1].kind = "static" /\ t2[N + 1].parent = c /\ Labelled(t2[N + 1])
        /\ Label(t2[N + 1]) = Drop(l, n)
    BY <1>5 DEF Made
  <1>9. Hangs(t2, key2)
    <2>1. t2[1].parent = 0 /\ t2[1].kind = "static" /\ key2[1] = << >>
      <3>1. t[1].parent = 0 /\ t[1].kind = "static" /\ key[1] = << >> /\ 1 \in 1 .. N /\ 1 # c
        BY <1>1 DEF Keyed, Hangs
      <3>2. Kept(t, t2, c, 1)
        BY <1>5, <3>1
      <3> QED BY <1>1, <1>4, <3>1, <3>2 DEF Kept
    <2>2. ASSUME NEW x \in 2 .. N + 1
          PROVE  /\ t2[x].parent \in 1 .. N + 1 /\ t2[t2[x].parent].kind # "catchAll"
                 /\ Labelled(t2[x]) /\ Joined(key2[x], key2[t2[x].parent], Label(t2[x]))
      <3>0. ASSUME NEW y \in 1 .. N, t[y].kind # "catchAll", y # c PROVE t2[y].kind # "catchAll"
        BY <1>5, <3>0 DEF Kept
      <3>1. CASE x = c
        <4>1. t2[p].kind # "catchAll" /\ key2[p] = key[p] /\ p \in 1 .. N + 1
          BY <1>1, <1>4, <3>0
        <4> QED BY <1>4, <1>6, <1>8, <3>1, <4>1
      <3>2. CASE x = N + 1
        <4>1. c \in 1 .. N + 1
          BY <1>1
        <4> QED BY <1>4, <1>6, <1>8, <3>2, <4>1
      <3>3. CASE x \in 2 .. N /\ x # c
        <4>1. CASE t[x].parent = c
          <5>1. t2[x].parent = N + 1 /\ key2[N + 1] = key[c] /\ key2[x] = key[x] /\ N + 1 \in 1 .. N + 1
            BY <1>1, <1>4, <1>7, <3>3, <4>1
          <5> QED BY <1>7, <1>8, <3>3, <4>1, <5>1
        <4>2. CASE t[x].parent # c
          <5>1. t2[x].parent = t[x].parent /\ key2[t[x].parent] = key[t[x].parent] /\ key2[x] = key[x]
                /\ t[x].parent \in 1 .. N + 1 /\ t2[t[x].parent].kind # "catchAll"
            <6>1. t2[x].parent = t[x].parent /\ t[x].parent \in 1 .. N /\ x \in 1 .. N
                  /\ t[t[x].parent].kind # "catchAll"
              BY <1>7, <3>3, <4>2
            <6>2. key2[t[x].parent] = key[t[x].parent] /\ key2[x] = key[x]
              BY <1>4, <3>3, <4>2, <6>1
            <6>3. t2[t[x].parent].kind # "catchAll"
              BY <3>0, <4>2, <6>1
            <6>4. t[x].parent \in 1 .. N + 1
              BY <1>1, <6>1
            <6> QED BY <6>1, <6>2, <6>3, <6>4
          <5> QED BY <1>7, <3>3, <5>1
        <4> QED BY <4>1, <4>2
      <3> QED BY <1>1, <3>1, <3>2, <3>3
    <2> QED BY <1>1, <1>4, <1>5, <2>1, <2>2 DEF Hangs
  \* siblings afterwards were siblings before
  <1>10. ASSUME NEW x \in 2 .. N + 1, NEW y \in 2 .. N + 1, x # y, t2[x].parent = t2[y].parent
         PROVE  /\ x \in 2 .. N /\ y \in 2 .. N /\ t[x].parent = t[y].parent
                /\ Label(t2[x])[1] = Label(t[x])[1] /\ Label(t2[y])[1] = Label(t[y])[1]
                /\ t2[x].kind = t[x].kind /\ t2[y].kind = t[y].kind
    <2>1. x # N + 1 /\ y # N + 1
      <3>1. CASE x = N + 1
        <4>1. y \in 2 .. N
          BY <1>nodes, <1>10, <3>1
        <4> QED BY <1>1, <1>7, <1>8, <1>10, <3>1, <4>1
      <3>2. CASE y = N + 1
        <4>1. x \in 2 .. N
          BY <1>nodes, <1>10, <3>2
        <4> QED BY <1>1, <1>7, <1>8, <1>10, <3>2, <4>1
      <3> QED BY <3>1, <3>2
    <2>2. x \in 2 .. N /\ y \in 2 .. N
      <3> HIDE DEF N
      <3> QED BY <1>nodes, <2>1
    <2>3. ASSUME NEW z \in 2 .. N
          PROVE  Label(t2[z])[1] = Label(t[z])[1] /\ t2[z].kind = t[z].kind
      <3>1. CASE z = c
        BY <1>1, <1>6, <1>8, <3>1
      <3>2. CASE z # c
        BY <1>7, <3>2
      <3> QED BY <3>1, <3>2
    <2>4. t[x].parent = t[y].parent
      <3>1. CASE x = c
        <4>1. t2[y].parent = p /\ y # c
          BY <1>8, <1>10, <3>1
        <4>2. t2[y].parent = (IF t[y].parent = c THEN N + 1 ELSE t[y].parent)
          BY <1>7, <2>2, <4>1
        <4>3. p # N + 1
          BY <1>1
        <4> HIDE DEF N
        <4> QED BY <3>1, <4>1, <4>2, <4>3
      <3>2. CASE y = c
        <4>1. t2[x].parent = p /\ x # c
          BY <1>8, <1>10, <3>2
        <4>2. t2[x].parent = (IF t[x].parent = c THEN N + 1 ELSE t[x].parent)
          BY <1>7, <2>2, <4>1
        <4>3. p # N + 1
          BY <1>1
        <4> HIDE DEF N
        <4> QED BY <3>2, <4>1, <4>2, <4>3
      <3>3. CASE x # c /\ y # c
        <4>1. /\ t2[x].parent = (IF t[x].parent = c THEN N + 1 ELSE t[x].parent) /\ t[x].parent \in 1 .. N
              /\ t2[y].parent = (IF t[y].parent = c THEN N + 1 ELSE t[y].parent) /\ t[y].parent \in 1 .. N
          BY <1>7, <2>2, <3>3
        <4>2. t[x].parent # N + 1 /\ t[y].parent # N + 1
          BY <1>1, <4>1
        <4> HIDE DEF N
        <4> QED BY <1>10, <4>1, <4>2
      <3> QED BY <3>1, <3>2, <3>3
    <2> QED BY <2>2, <2>3, <2>4
  <1>11. ApartHeads(t2)
    <2>1. ASSUME NEW x \in 2 .. N + 1, NEW y \in 2 .. N + 1, x # y, t2[x].parent = t2[y].parent
          PROVE  Label(t2[x])[1] # Label(t2[y])[1]
      BY <1>10, <2>1 DEF Keyed, ApartHeads
    <2> QED BY <1>5, <2>1 DEF ApartHeads
  <1>12. ApartKinds(t2)
    <2>1. ASSUME NEW x \in 2 .. N + 1, NEW y \in 2 .. N + 1, x # y, t2[x].parent = t2[y].parent
          PROVE  t2[x].kind = t2[y].kind => t2[x].kind = "static"
      BY <1>10, <2>1 DEF Keyed, ApartKinds
    <2> QED BY <1>5, <2>1 DEF ApartKinds
  <1>13. ASSUME NEW x \in 1 .. N, x # c PROVE ~(Prefix(h, key[x]) /\ Prefix(key[x], key[c]))
    <2> SUFFICES ASSUME Prefix(h, key[x]), Prefix(key[x], key[c]) PROVE FALSE
      OBVIOUS
    <2>1. Prefix(key[x], key[p])
      BY <1>13, Nearest
    <2>2. Len(h) <= Len(key[x]) /\ Len(key[x]) <= Len(key[p])
      BY <2>1 DEF Prefix
    <2>3. Len(key[x]) \in Nat /\ Len(h) = Len(key[p]) + n
      BY <1>1, <1>3
    <2> QED BY <1>sizes, <2>2, <2>3
  <1>14. Distinct(t2, key2)
    <2>1. ASSUME NEW x \in 1 .. N, x # c PROVE key2[x] # h /\ key2[x] # key[c]
      <3>1. key2[x] = key[x]
        BY <1>4, <2>1
      <3>2. key[x] # h
        BY <1>1, <1>3, <1>13, <2>1, PrefixItself
      <3>3. key[x] # key[c]
        BY <1>1, <2>1 DEF Keyed, Distinct
      <3> QED BY <3>1, <3>2, <3>3
    <2>2. h # key[c]
      <3>1. Len(h) < Len(key[c]) /\ Len(key[c]) \in Nat
        BY <1>2, <1>3
      <3> QED BY <3>1
    <2>3. ASSUME NEW x \in 1 .. N + 1, NEW y \in 1 .. N + 1, x # y PROVE key2[x] # key2[y]
      <3>1. CASE x \in 1 .. N /\ x # c /\ y \in 1 .. N /\ y # c
        BY <1>4, <2>3, <3>1 DEF Keyed, Distinct
      <3>2. CASE x \in 1 .. N /\ x # c /\ (y = c \/ y = N + 1)
        BY <1>4, <2>1, <3>2
      <3>3. CASE (x = c \/ x = N + 1) /\ y \in 1 .. N /\ y # c
        BY <1>4, <2>1, <3>3
      <3>4. CASE (x = c \/ x = N + 1) /\ (y = c \/ y = N + 1)
        BY <1>4, <2>2, <2>3, <3>4
      <3> QED BY <1>1, <3>1, <3>2, <3>3, <3>4
    <2> QED BY <1>5, <2>3 DEF Distinct
  <1>15. Branches(t2, key2)
    <2>1. ASSUME NEW a \in 1 .. N + 1, NEW y \in 1 .. N + 1, Prefix(key2[a], key2[y]), a # y
          PROVE  \E x \in 2 .. N + 1 : t2[x].parent = a /\ Prefix(key2[x], key2[y])
      <3>0. \A x \in 1 .. N : x # c => key2[x] = key[x] /\ key[x] \in Seq(STRING) /\ Len(key[x]) \in Nat
        BY <1>1, <1>4
      <3>1. CASE a = c /\ y = N + 1
        <4>1. N + 1 \in 2 .. N + 1 /\ t2[N + 1].parent = a /\ Prefix(key2[N + 1], key2[y])
          BY <1>1, <1>2, <1>4, <1>8, <3>1, PrefixItself
        <4> QED BY <4>1
      <3>2. CASE a = c /\ y \in 1 .. N /\ y # c
        <4>1. Prefix(h, key[y]) /\ key[y] \in Seq(STRING) /\ Len(key[y]) \in Nat
          BY <1>4, <2>1, <3>0, <3>2
        <4>2. Prefix(key[p], key[y])
          BY <1>2, <1>3, <4>1, PrefixTrans
        <4>3. Len(key[p]) < Len(key[y]) /\ key[y][Len(key[p]) + 1] = l[1]
          <5>1. Len(h) \in Nat /\ Len(key[p]) + 1 \in 1 .. Len(h)
            BY <1>2, <1>3
          <5>2. Len(h) <= Len(key[y]) /\ h[Len(key[p]) + 1] = key[y][Len(key[p]) + 1]
            BY <4>1, <5>1 DEF Prefix
          <5>3. h[Len(key[p]) + 1] = l[1]
            BY <1>2, <1>3, <5>1
          <5>4. Len(key[p]) < Len(key[y])
            <6>1. Len(h) = Len(key[p]) + n /\ Len(key[y]) \in Nat
              BY <1>3, <4>1
            <6> QED BY <1>sizes, <5>2, <6>1
          <5> QED BY <5>2, <5>3, <5>4
        <4>4. Prefix(key[c], key[y])
          BY <1>1, <3>2, <4>2, <4>3, Through
        <4>5. N + 1 \in 2 .. N + 1 /\ t2[N + 1].parent = a /\ Prefix(key2[N + 1], key2[y])
          BY <1>1, <1>4, <1>8, <3>2, <4>4
        <4> QED BY <4>5
      <3>3. CASE a = N + 1 /\ y = c
        <4>1. Prefix(key[c], h)
          BY <1>4, <2>1, <3>3
        <4>2. Len(key[c]) <= Len(h) /\ Len(h) \in Nat
          BY <1>3, <4>1 DEF Prefix
        <4> QED BY <1>2, <1>3, <4>2
      <3>4. CASE a = N + 1 /\ y \in 1 .. N /\ y # c
        <4>1. Prefix(key[c], key[y])
          BY <1>4, <2>1, <3>4
        <4>2. PICK e \in 2 .. N : t[e].parent = c /\ Prefix(key[e], key[y])
          BY <1>1, <3>4, <4>1 DEF Keyed, Branches
        <4>3. e # c
          BY <1>1, <4>2
        <4>4. e \in 2 .. N + 1 /\ t2[e].parent = N + 1 /\ key2[e] = key[e]
          BY <1>1, <1>4, <1>7, <4>2, <4>3
        <4> QED BY <3>0, <3>4, <4>2, <4>4
      <3>5. CASE a \in 1 .. N /\ a # c
        <4>1. PICK yy \in 1 .. N : /\ yy # a /\ Prefix(key[a], key[yy])
                                   /\ (y = N + 1 => yy = c) /\ (y # N + 1 => yy = y)
          <5>1. CASE y = N + 1
            <6>1. Prefix(key[a], key[c])
              BY <1>4, <2>1, <3>0, <3>5, <5>1
            <6> QED BY <1>1, <3>5, <5>1, <6>1
          <5>2. CASE y = c
            <6>1. Prefix(key[a], h)
              BY <1>4, <2>1, <3>0, <3>5, <5>2
            <6>2. Prefix(key[a], key[c])
              BY <1>2, <1>3, <3>0, <3>5, <6>1, PrefixTrans
            <6> QED BY <1>1, <3>5, <5>2, <6>2
          <5>3. CASE y \in 1 .. N /\ y # c
            <6>1. Prefix(key[a], key[y])
              BY <2>1, <3>0, <3>5, <5>3
            <6> QED BY <1>1, <2>1, <3>5, <5>3, <6>1
          <5> QED BY <1>1, <5>1, <5>2, <5>3
        <4>2. PICK e \in 2 .. N : t[e].parent = a /\ Prefix(key[e], key[yy])
          BY <3>5, <4>1 DEF Keyed, Branches
        <4>3. e \in 2 .. N + 1 /\ e \in 1 .. N /\ t2[e].parent = a
          <5>1. CASE e = c
            <6>1. e \in 2 .. N + 1
              BY <1>1, <4>2
            <6> HIDE DEF N
            <6> QED BY <1>1, <1>8, <4>2, <5>1, <6>1
          <5>2. CASE e # c
            <6>1. e \in 1 .. N /\ t2[e].parent = (IF t[e].parent = c THEN N + 1 ELSE t[e].parent)
              BY <1>7, <4>2, <5>2
            <6>2. e \in 2 .. N + 1
              BY <1>1, <4>2
            <6> HIDE DEF N
            <6> QED BY <3>5, <4>2, <6>1, <6>2
          <5> QED BY <5>1, <5>2
        <4>4. Prefix(key2[e], key2[y])
          <5>1. CASE y = c
            <6>1. yy = c
              BY <1>1, <4>1, <5>1
            <6>2. CASE e = c
              BY <1>3, <1>4, <5>1, <6>2, PrefixItself
            <6>3. CASE e # c
              <7>1. Prefix(key[e], key[p])
                BY <4>2, <4>3, <6>1, <6>3, Nearest
              <7>2. Prefix(key[e], h)
                <8>1. key[e] \in Seq(STRING)
                  BY <1>1, <4>3
                <8> QED BY <1>2, <1>3, <7>1, <8>1, PrefixTrans
              <7> QED BY <1>4, <3>0, <4>3, <5>1, <6>3, <7>2
            <6> QED BY <6>2, <6>3
          <5>2. CASE y # c
            <6>1. key2[y] = key[yy] /\ key[yy] \in Seq(STRING)
              <7>1. y = N + 1 \/ y \in 1 .. N
                BY <1>1
              <7> QED BY <1>1, <1>4, <4>1, <5>2, <7>1
            <6>2. CASE e = c
              <7>1. Prefix(h, key[yy])
                BY <1>2, <1>3, <4>2, <6>1, <6>2, PrefixTrans
              <7> QED BY <1>4, <6>1, <6>2, <7>1
            <6>3. CASE e # c
              BY <3>0, <4>2, <4>3, <6>1, <6>3
            <6> QED BY <6>2, <6>3
          <5> QED BY <5>1, <5>2
        <4> QED BY <4>3, <4>4
      <3> QED BY <1>1, <2>1, <3>1, <3>2, <3>3, <3>4, <3>5
    <2> QED BY <1>5, <2>1 DEF Branches
  <1> QED BY <1>9, <1>11, <1>12, <1>14, <1>15 DEF Keyed, key2

-----------------------------------------------------------------------------
(* The router's helpers                                                    *)

\* The least of a set of numbers.
LEMMA Least ==
    ASSUME NEW S, S \subseteq Nat, S # {}
    PROVE  Min(S) \in S /\ \A y \in S : Min(S) <= y
  <1> DEFINE T == Nat \ S
  <1>1. SUFFICES ASSUME ~\E x \in S : \A y \in S : x <= y PROVE FALSE
    BY DEF Min
  <1>2. ASSUME NEW n \in Nat, \A m \in Nat : m < n => m \in T PROVE n \in T
    <2>1. SUFFICES ASSUME n \in S PROVE FALSE
      OBVIOUS
    <2>2. \A y \in S : n <= y
      BY <1>2
    <2> QED BY <1>1, <2>1, <2>2
  <1> HIDE DEF T
  <1>3. Nat \subseteq T
    BY <1>2, StrongInduction
  <1> QED BY <1>3 DEF T

\* Where the first symbol of S stands.
LEMMA BeforeIs ==
    ASSUME NEW X, NEW s \in Seq(X), NEW S
    PROVE  /\ Before(s, S) \in 0 .. Len(s)
           /\ \A i \in 1 .. Before(s, S) : s[i] \notin S
           /\ Before(s, S) < Len(s) => s[Before(s, S) + 1] \in S
  <1> DEFINE at == {i \in DOMAIN s : s[i] \in S}
  <1>1. DOMAIN s = 1 .. Len(s) /\ Len(s) \in Nat
    OBVIOUS
  <1>2. CASE at = {}
    <2>1. Before(s, S) = Len(s)
      BY <1>2 DEF Before
    <2> QED BY <1>1, <1>2, <2>1
  <1>3. CASE at # {}
    <2>1. Before(s, S) = Min(at) - 1
      BY <1>3 DEF Before
    <2>2. at \subseteq Nat
      BY <1>1
    <2>3. Min(at) \in at /\ \A y \in at : Min(at) <= y
      <3> HIDE DEF at
      <3> QED BY <1>3, <2>2, Least
    <2>4. Min(at) \in 1 .. Len(s) /\ s[Min(at)] \in S
      BY <1>1, <2>3
    <2>5. ASSUME NEW i \in 1 .. Min(at) - 1 PROVE s[i] \notin S
      <3>1. i \in 1 .. Len(s) /\ i < Min(at)
        BY <1>1, <2>4
      <3>2. i \notin at
        <4> HIDE DEF at
        <4>1. i \in Nat /\ Min(at) \in Nat
          BY <2>4, <3>1
        <4>2. i \in at => Min(at) <= i
          BY <2>3
        <4> QED BY <3>1, <4>1, <4>2
      <3> QED BY <1>1, <3>1, <3>2
    <2>6. (Min(at) - 1) + 1 = Min(at) /\ Min(at) - 1 \in 0 .. Len(s)
      BY <1>1, <2>4
    <2> HIDE DEF at
    <2> QED BY <2>1, <2>4, <2>5, <2>6
  <1> QED BY <1>2, <1>3

\* How far two sequences agree.
LEMMA CommonPrefix ==
    ASSUME NEW X, NEW s \in Seq(X), NEW t \in Seq(X)
    PROVE  LET n == CommonPrefixLen(s, t)
           IN  /\ n \in 0 .. Len(s) /\ n \in 0 .. Len(t)
               /\ \A i \in 1 .. n : s[i] = t[i]
               /\ n < Len(s) /\ n < Len(t) => s[n + 1] # t[n + 1]
  <1> DEFINE k == Min({Len(s), Len(t)})
             e == [i \in 1 .. k |-> s[i] = t[i]]
             n == CommonPrefixLen(s, t)
  <1>1. k \in {Len(s), Len(t)} /\ k <= Len(s) /\ k <= Len(t) /\ k \in Nat
    <2>1. {Len(s), Len(t)} \subseteq Nat /\ {Len(s), Len(t)} # {}
      OBVIOUS
    <2>2. Min({Len(s), Len(t)}) \in {Len(s), Len(t)} /\ \A y \in {Len(s), Len(t)} : Min({Len(s), Len(t)}) <= y
      BY <2>1, Least
    <2> QED BY <2>1, <2>2
  <1>2. n = Before(e, {FALSE})
    BY DEF CommonPrefixLen
  <1> HIDE DEF k
  <1>3. e \in Seq(BOOLEAN) /\ Len(e) = k
    <2>1. e \in [1 .. k -> BOOLEAN]
      BY Zenon
    <2> HIDE DEF e
    <2> QED BY <1>1, <2>1
  <1>4. \A i \in 1 .. k : e[i] \in {FALSE} <=> s[i] # t[i]
    BY Zenon
  <1> HIDE DEF e, n
  <1>5. /\ n \in 0 .. k /\ \A i \in 1 .. n : e[i] \notin {FALSE}
        /\ n < k => e[n + 1] \in {FALSE}
    BY <1>2, <1>3, BeforeIs
  <1>6. \A i \in 1 .. n : s[i] = t[i]
    <2> SUFFICES ASSUME NEW i \in 1 .. n PROVE s[i] = t[i]
      OBVIOUS
    <2>1. i \in 1 .. k
      BY <1>1, <1>5
    <2>2. e[i] \notin {FALSE}
      BY <1>5
    <2> QED BY <1>4, <2>1, <2>2
  <1>7. n < k => s[n + 1] # t[n + 1]
    <2> SUFFICES ASSUME n < k PROVE s[n + 1] # t[n + 1]
      OBVIOUS
    <2>1. n + 1 \in 1 .. k
      BY <1>1, <1>5
    <2>2. e[n + 1] \in {FALSE}
      BY <1>5
    <2> QED BY <1>4, <2>1, <2>2
  <1>8. n \in 0 .. Len(s) /\ n \in 0 .. Len(t)
    BY <1>1, <1>5
  <1>9. n < Len(s) /\ n < Len(t) => n < k
    BY <1>1
  <1> QED BY <1>6, <1>7, <1>8, <1>9 DEF n

-----------------------------------------------------------------------------
(* Sequences of sequences, one behind the other                            *)

\* f has what the first sequences of ss make together.
Flattens(f, ss, X) ==
    /\ f \in [1 .. Len(ss) -> Seq(X)] /\ f[1] = ss[1]
    /\ \A i \in 2 .. Len(ss) : f[i] = f[i - 1] \o ss[i]

\* FlattenSeq is built up sequence by sequence.
LEMMA Flattening ==
    ASSUME NEW X, NEW ss \in Seq(Seq(X)), Len(ss) >= 1
    PROVE  \E f : Flattens(f, ss, X) /\ FlattenSeq(ss) = f[Len(ss)]
  <1> DEFINE N == Len(ss)
             Step(f, i) == IF i = 1 THEN ss[i] ELSE f[i - 1] \o ss[i]
             flatten[i \in 1 .. N] == IF i = 1 THEN ss[i] ELSE flatten[i - 1] \o ss[i]
             Upto == {n \in Nat : n + 1 <= N => \E f : f = [i \in 1 .. n + 1 |-> Step(f, i)]}
  <1>1. N \in Nat /\ N >= 1 /\ \A i \in 1 .. N : ss[i] \in Seq(X)
    OBVIOUS
  <1>2. FlattenSeq(ss) = flatten[N]
    <2>1. Len(ss) # 0
      OBVIOUS
    <2> QED BY <2>1 DEF FlattenSeq
  <1>3. flatten = CHOOSE f : f = [i \in 1 .. N |-> Step(f, i)]
    OBVIOUS
  <1> HIDE DEF flatten, N
  <1>4. 0 \in Upto
    <2> DEFINE f == [i \in 1 .. 0 + 1 |-> ss[1]]
    <2>1. f = [i \in 1 .. 0 + 1 |-> Step(f, i)]
      <3>1. \A i \in 1 .. 0 + 1 : i = 1
        OBVIOUS
      <3> QED BY <3>1
    <2> QED BY <2>1
  <1>5. ASSUME NEW n \in Nat, n \in Upto PROVE n + 1 \in Upto
    <2> SUFFICES ASSUME (n + 1) + 1 <= N PROVE \E f : f = [i \in 1 .. (n + 1) + 1 |-> Step(f, i)]
      <3>1. n + 1 \in Nat
        OBVIOUS
      <3> QED BY <3>1, Zenon
    <2>1. PICK f : f = [i \in 1 .. n + 1 |-> Step(f, i)]
      <3>1. n + 1 <= N
        BY <1>1
      <3> QED BY <1>5, <3>1, Zenon
    <2>4. \A i \in 1 .. n + 1 : f[i] = Step(f, i)
      <3> HIDE DEF Step
      <3> QED BY <2>1
    <2> DEFINE h == [i \in 1 .. (n + 1) + 1 |-> IF i <= n + 1 THEN f[i] ELSE Step(f, n + 2)]
    <2>2. ASSUME NEW i \in 1 .. (n + 1) + 1 PROVE h[i] = Step(h, i)
      <3>1. CASE i = 1
        <4>1. h[i] = f[i] /\ f[i] = ss[1]
          BY <2>4, <3>1
        <4> QED BY <3>1, <4>1
      <3>2. CASE i # 1
        <4>1. i - 1 \in 1 .. n + 1 /\ i - 1 <= n + 1 /\ i - 1 \in 1 .. (n + 1) + 1
          BY <3>2
        <4>2. h[i - 1] = f[i - 1]
          BY <4>1
        <4>3. h[i] = Step(f, i)
          <5>1. CASE i <= n + 1
            <6>1. i \in 1 .. n + 1 /\ h[i] = f[i]
              BY <5>1
            <6> QED BY <2>4, <6>1
          <5>2. CASE i = n + 2
            BY <5>2
          <5> QED BY <5>1, <5>2
        <4> QED BY <3>2, <4>2, <4>3
      <3> QED BY <3>1, <3>2
    <2>3. h = [i \in 1 .. (n + 1) + 1 |-> Step(h, i)]
      <3> HIDE DEF Step
      <3> QED BY <2>2
    <2> QED BY <2>3
  <1>6. \E f : f = [i \in 1 .. N |-> Step(f, i)]
    <2>1. N - 1 \in Nat /\ (N - 1) + 1 = N
      BY <1>1
    <2> HIDE DEF Upto
    <2>2. N - 1 \in Upto
      <3>1. Nat \subseteq Upto
        BY <1>4, <1>5, Induction, Zenon
      <3> QED BY <2>1, <3>1
    <2>3. (N - 1) + 1 <= N
      BY <1>1
    <2>4. \E f : f = [i \in 1 .. (N - 1) + 1 |-> Step(f, i)]
      BY <2>2, <2>3, Zenon DEF Upto
    <2> QED BY <2>1, <2>4
  <1>7. flatten = [i \in 1 .. N |-> Step(flatten, i)]
    BY <1>3, <1>6
  <1>8. \A i \in 1 .. N : flatten[i] = Step(flatten, i)
    <2> HIDE DEF Step
    <2> QED BY <1>7
  <1>9. flatten[1] = ss[1] /\ \A i \in 2 .. N : flatten[i] = flatten[i - 1] \o ss[i]
    <2>1. 1 \in 1 .. N /\ \A i \in 2 .. N : i \in 1 .. N /\ i # 1
      BY <1>1
    <2> QED BY <1>8, <2>1
  <1> DEFINE Sound == {n \in Nat : n + 1 <= N => flatten[n + 1] \in Seq(X)}
  <1>10. 0 \in Sound
    BY <1>1, <1>9
  <1>11. ASSUME NEW n \in Nat, n \in Sound PROVE n + 1 \in Sound
    <2> SUFFICES ASSUME (n + 1) + 1 <= N PROVE flatten[(n + 1) + 1] \in Seq(X)
      OBVIOUS
    <2>1. (n + 1) + 1 \in 2 .. N /\ (n + 1) + 1 \in 1 .. N /\ ((n + 1) + 1) - 1 = n + 1 /\ n + 1 <= N
      BY <1>1
    <2>2. flatten[n + 1] \in Seq(X) /\ ss[(n + 1) + 1] \in Seq(X)
      BY <1>1, <1>11, <2>1
    <2>3. flatten[(n + 1) + 1] = flatten[n + 1] \o ss[(n + 1) + 1]
      BY <1>9, <2>1
    <2> QED BY <2>2, <2>3
  <1>12. \A i \in 1 .. N : flatten[i] \in Seq(X)
    <2> HIDE DEF Sound
    <2>1. Nat \subseteq Sound
      BY <1>10, <1>11, Induction
    <2> TAKE i \in 1 .. N
    <2>2. i - 1 \in Nat /\ (i - 1) + 1 = i /\ i <= N
      BY <1>1
    <2> QED BY <2>1, <2>2 DEF Sound
  <1>13. flatten \in [1 .. N -> Seq(X)]
    <2>1. DOMAIN flatten = 1 .. N /\ flatten = [i \in 1 .. N |-> flatten[i]]
      <3> HIDE DEF Step
      <3> QED BY <1>7
    <2> QED BY <1>12, <2>1
  <1>14. Flattens(flatten, ss, X)
    BY <1>9, <1>13 DEF Flattens, N
  <1> QED BY <1>2, <1>14 DEF N

\* One sequence more.
LEMMA FlattenAppend ==
    ASSUME NEW X, NEW ss \in Seq(Seq(X)), NEW s \in Seq(X)
    PROVE  /\ FlattenSeq(ss) \in Seq(X)
           /\ FlattenSeq(Append(ss, s)) = FlattenSeq(ss) \o s
  <1> DEFINE N == Len(ss)
             tt == Append(ss, s)
  <1>1. /\ N \in Nat /\ tt \in Seq(Seq(X)) /\ Len(tt) = N + 1 /\ tt[N + 1] = s
        /\ \A i \in 1 .. N : tt[i] = ss[i]
    OBVIOUS
  <1>2. PICK g : Flattens(g, tt, X) /\ FlattenSeq(tt) = g[N + 1]
    <2>1. Len(tt) >= 1
      BY <1>1
    <2> HIDE DEF tt
    <2> QED BY <1>1, <2>1, Flattening
  <1> HIDE DEF tt
  <1>3. CASE N = 0
    <2>1. ss = << >> /\ FlattenSeq(ss) = ss
      BY <1>3 DEF FlattenSeq
    <2>2. g[N + 1] = s
      BY <1>1, <1>2, <1>3 DEF Flattens
    <2>3. << >> \o s = s /\ << >> \in Seq(X)
      OBVIOUS
    <2>4. FlattenSeq(tt) = s
      BY <1>2, <2>2
    <2> QED BY <2>1, <2>3, <2>4 DEF tt
  <1>4. CASE N # 0
    <2>1. PICK f : Flattens(f, ss, X) /\ FlattenSeq(ss) = f[N]
      <3>1. Len(ss) >= 1
        BY <1>1, <1>4
      <3> QED BY <3>1, Flattening
    <2> HIDE DEF N
    <2> DEFINE Same == {n \in Nat : n + 1 <= N => f[n + 1] = g[n + 1]}
    <2>2. /\ \A i \in 2 .. N + 1 : g[i] = g[i - 1] \o tt[i]
          /\ \A i \in 2 .. N : f[i] = f[i - 1] \o ss[i]
          /\ g[1] = tt[1] /\ f[1] = ss[1]
          /\ \A i \in 1 .. N : f[i] \in Seq(X)
      BY <1>1, <1>2, <2>1 DEF Flattens, N
    <2>3. 0 \in Same
      <3>1. 1 \in 1 .. N
        BY <1>1, <1>4
      <3> QED BY <1>1, <2>2, <3>1
    <2>4. ASSUME NEW n \in Nat, n \in Same PROVE n + 1 \in Same
      <3> SUFFICES ASSUME (n + 1) + 1 <= N PROVE f[(n + 1) + 1] = g[(n + 1) + 1]
        OBVIOUS
      <3>1. (n + 1) + 1 \in 2 .. N /\ (n + 1) + 1 \in 2 .. N + 1 /\ (n + 1) + 1 \in 1 .. N
            /\ ((n + 1) + 1) - 1 = n + 1
        BY <1>1
      <3>2. f[n + 1] = g[n + 1]
        BY <1>1, <2>4
      <3> QED BY <1>1, <2>2, <3>1, <3>2
    <2>5. f[N] = g[N]
      <3> HIDE DEF Same
      <3>1. N - 1 \in Nat /\ (N - 1) + 1 = N
        BY <1>1, <1>4
      <3>2. N - 1 \in Same
        BY <2>3, <2>4, <3>1, Induction
      <3>3. (N - 1) + 1 <= N => f[(N - 1) + 1] = g[(N - 1) + 1]
        BY <3>2 DEF Same
      <3> QED BY <1>1, <3>1, <3>3
    <2>6. g[N + 1] = g[N] \o s /\ f[N] \in Seq(X)
      <3>1. N + 1 \in 2 .. N + 1 /\ (N + 1) - 1 = N /\ N \in 1 .. N
        BY <1>1, <1>4
      <3> QED BY <1>1, <2>2, <3>1
    <2> QED BY <1>2, <2>1, <2>5, <2>6 DEF tt
  <1> QED BY <1>3, <1>4

\* A sequence that is not empty is another with an element behind.
LEMMA LastOff ==
    ASSUME NEW X, NEW s \in Seq(X), Len(s) # 0
    PROVE  \E f \in Seq(X), e \in X : s = Append(f, e) /\ Len(f) + 1 = Len(s)
  <1>1. s # << >>
    BY EmptySeq, Zenon
  <1>2. PICK f \in Seq(X), e \in X : s = Append(f, e)
    BY <1>1, SequenceEmptyOrAppend
  <1>3. Len(s) = Len(f) + 1
    BY <1>2, AppendProperties
  <1> QED BY <1>2, <1>3

\* How three sequences are joined makes no difference.
Associates(a, b, c) == (a \o b) \o c = a \o (b \o c)

\* Joining sequences is associative.
LEMMA Associativity ==
    ASSUME NEW X, NEW a \in Seq(X), NEW b \in Seq(X), NEW c \in Seq(X)
    PROVE  Associates(a, b, c)
  BY ConcatAssociative DEF Associates

\* Sequences of sequences
Lists(X) == Seq(Seq(X))

\* What two of them make, made one behind the other.
LEMMA FlattenConcat ==
    ASSUME NEW X, NEW a \in Lists(X), NEW b \in Lists(X)
    PROVE  /\ FlattenSeq(a) \in Seq(X) /\ FlattenSeq(b) \in Seq(X)
           /\ FlattenSeq(a \o b) = FlattenSeq(a) \o FlattenSeq(b)
  <1> DEFINE Good == {n \in Nat : \A c \in Lists(X) : Len(c) = n =>
                          FlattenSeq(a \o c) = FlattenSeq(a) \o FlattenSeq(c)}
  <1>0. \A c \in Lists(X) : FlattenSeq(c) \in Seq(X)
    <2>1. << >> \in Seq(X)
      OBVIOUS
    <2> QED BY <2>1, FlattenAppend DEF Lists
  <1>1. 0 \in Good
    <2> SUFFICES ASSUME NEW c \in Lists(X), Len(c) = 0
                 PROVE  FlattenSeq(a \o c) = FlattenSeq(a) \o FlattenSeq(c)
      OBVIOUS
    <2>1. c = << >> /\ FlattenSeq(c) = << >>
      <3>1. c = << >>
        BY DEF Lists
      <3> QED BY <3>1 DEF FlattenSeq
    <2>2. a \o c = a
      BY <2>1 DEF Lists
    <2>3. FlattenSeq(a) \o << >> = FlattenSeq(a)
      BY <1>0, ConcatEmptySeq
    <2> QED BY <2>1, <2>2, <2>3
  <1>2. ASSUME NEW n \in Nat, n \in Good PROVE n + 1 \in Good
    <2> SUFFICES ASSUME NEW c \in Lists(X), Len(c) = n + 1
                 PROVE  FlattenSeq(a \o c) = FlattenSeq(a) \o FlattenSeq(c)
      <3>1. n + 1 \in Nat
        OBVIOUS
      <3> QED BY <3>1, Zenon
    <2>1. PICK f \in Lists(X), e \in Seq(X) : c = Append(f, e) /\ Len(f) + 1 = n + 1
      <3>1. Len(c) # 0
        OBVIOUS
      <3>2. c \in Seq(Seq(X))
        BY DEF Lists
      <3>3. \E f \in Seq(Seq(X)), e \in Seq(X) : c = Append(f, e) /\ Len(f) + 1 = Len(c)
        BY <3>1, <3>2, LastOff, Zenon
      <3> QED BY <3>3 DEF Lists
    <2>2. Len(f) = n /\ a \o f \in Lists(X)
      BY <2>1 DEF Lists
    <2>3. FlattenSeq(a \o f) = FlattenSeq(a) \o FlattenSeq(f)
      BY <1>2, <2>2
    <2>4. a \o c = Append(a \o f, e)
      BY <2>1 DEF Lists
    <2>5. FlattenSeq(a \o c) = FlattenSeq(a \o f) \o e /\ FlattenSeq(c) = FlattenSeq(f) \o e
      <3>1. /\ FlattenSeq(Append(a \o f, e)) = FlattenSeq(a \o f) \o e
            /\ FlattenSeq(Append(f, e)) = FlattenSeq(f) \o e
        BY <2>2, FlattenAppend DEF Lists
      <3> QED BY <2>1, <2>4, <3>1
    <2>6. (FlattenSeq(a) \o FlattenSeq(f)) \o e = FlattenSeq(a) \o (FlattenSeq(f) \o e)
      <3>1. FlattenSeq(a) \in Seq(X) /\ FlattenSeq(f) \in Seq(X)
        BY <1>0
      <3>2. FlattenSeq(a) \in Seq(X) /\ FlattenSeq(f) \in Seq(X) /\ e \in Seq(X)
        BY <2>2, <3>1 DEF Lists
      <3>3. Associates(FlattenSeq(a), FlattenSeq(f), e)
        BY <3>2, Associativity
      <3> QED BY <3>3 DEF Associates
    <2> QED BY <2>3, <2>5, <2>6
  <1> HIDE DEF Good
  <1>3. Nat \subseteq Good
    BY <1>1, <1>2, Induction
  <1>4. Len(b) \in Nat
    BY DEF Lists
  <1> QED BY <1>0, <1>3, <1>4 DEF Good

\* What Drop leaves.
LEMMA DropIs ==
    ASSUME NEW X, NEW s \in Seq(X), NEW n \in 0 .. Len(s)
    PROVE  /\ Drop(s, n) \in Seq(X) /\ Len(Drop(s, n)) = Len(s) - n
           /\ \A i \in 1 .. Len(s) - n : Drop(s, n)[i] = s[n + i]
  BY DEF Drop

\* What the first of them make, with one more; and what the last make.
LEMMA FlattenFirst ==
    ASSUME NEW X, NEW ss \in Seq(Seq(X)), NEW j \in 0 .. Len(ss) - 1
    PROVE  /\ SubSeq(ss, 1, j) \in Seq(Seq(X)) /\ FlattenSeq(SubSeq(ss, 1, j)) \in Seq(X)
           /\ ss[j + 1] \in Seq(X)
           /\ FlattenSeq(SubSeq(ss, 1, j + 1)) = FlattenSeq(SubSeq(ss, 1, j)) \o ss[j + 1]
  <1>1. j + 1 \in 1 .. Len(ss) /\ ss[j + 1] \in Seq(X) /\ SubSeq(ss, 1, j) \in Seq(Seq(X))
    OBVIOUS
  <1>2. SubSeq(ss, 1, j + 1) = Append(SubSeq(ss, 1, j), ss[j + 1])
    OBVIOUS
  <1> QED BY <1>1, <1>2, FlattenAppend

\* What the last of them make, with one less.
LEMMA FlattenLast ==
    ASSUME NEW X, NEW ss \in Seq(Seq(X)), NEW j \in 0 .. Len(ss) - 1
    PROVE  /\ Drop(ss, j) \in Seq(Seq(X)) /\ Drop(ss, j + 1) \in Seq(Seq(X))
           /\ FlattenSeq(Drop(ss, j + 1)) \in Seq(X)
           /\ FlattenSeq(Drop(ss, j)) = ss[j + 1] \o FlattenSeq(Drop(ss, j + 1))
  <1>1. j + 1 \in 1 .. Len(ss) /\ ss[j + 1] \in Seq(X) /\ j \in 0 .. Len(ss) /\ j + 1 \in 0 .. Len(ss)
        /\ Len(ss) \in Nat
    OBVIOUS
  <1>2. Drop(ss, j) \in Seq(Seq(X)) /\ Drop(ss, j + 1) \in Seq(Seq(X)) /\ << ss[j + 1] >> \in Seq(Seq(X))
    BY <1>1, DropIs
  <1>3. Drop(ss, j) = << ss[j + 1] >> \o Drop(ss, j + 1)
    <2> DEFINE a == Drop(ss, j)
               b == Drop(ss, j + 1)
               c == << ss[j + 1] >> \o b
    <2>1. /\ a \in Seq(Seq(X)) /\ Len(a) = Len(ss) - j /\ \A i \in 1 .. Len(ss) - j : a[i] = ss[j + i]
          /\ b \in Seq(Seq(X)) /\ Len(b) = Len(ss) - (j + 1)
          /\ \A i \in 1 .. Len(ss) - (j + 1) : b[i] = ss[(j + 1) + i]
      BY <1>1, DropIs
    <2> HIDE DEF a, b
    <2>2. /\ c \in Seq(Seq(X)) /\ Len(c) = Len(ss) - j
          /\ \A i \in 1 .. Len(ss) - j : c[i] = IF i = 1 THEN ss[j + 1] ELSE b[i - 1]
      <3> DEFINE h == << ss[j + 1] >>
      <3>1. h \in Seq(Seq(X)) /\ Len(h) = 1 /\ h[1] = ss[j + 1]
        BY <1>1
      <3> HIDE DEF h
      <3>2. /\ h \o b \in Seq(Seq(X)) /\ Len(h \o b) = 1 + Len(b)
            /\ \A i \in 1 .. 1 + Len(b) : (h \o b)[i] = IF i <= 1 THEN h[i] ELSE b[i - 1]
        <4>1. /\ h \o b \in Seq(Seq(X)) /\ Len(h \o b) = Len(h) + Len(b)
              /\ \A i \in 1 .. Len(h) + Len(b) : (h \o b)[i] = IF i <= Len(h) THEN h[i] ELSE b[i - Len(h)]
          BY <2>1, <3>1, ConcatProperties, Zenon
        <4>2. Len(h) = 1
          BY <3>1
        <4> QED BY <4>1, <4>2
      <3>3. 1 + Len(b) = Len(ss) - j
        BY <1>1, <2>1
      <3>4. \A i \in 1 .. Len(ss) - j : (i <= 1 <=> i = 1)
        OBVIOUS
      <3>5. c = h \o b
        BY DEF h
      <3> HIDE DEF c
      <3> QED BY <3>1, <3>2, <3>3, <3>4, <3>5
    <2> HIDE DEF c
    <2>3. ASSUME NEW i \in 1 .. Len(ss) - j PROVE c[i] = a[i]
      <3>1. CASE i = 1
        BY <2>1, <2>2, <3>1
      <3>2. CASE i # 1
        <4>1. i - 1 \in 1 .. Len(ss) - (j + 1) /\ (j + 1) + (i - 1) = j + i
          BY <1>1, <3>2
        <4>2. c[i] = b[i - 1]
          BY <2>2, <3>2
        <4>3. b[i - 1] = ss[(j + 1) + (i - 1)]
          BY <2>1, <4>1
        <4>4. a[i] = ss[j + i]
          BY <2>1
        <4> QED BY <4>1, <4>2, <4>3, <4>4
      <3> QED BY <3>1, <3>2
    <2>4. c = a
      <3>1. c \in Seq(Seq(X)) /\ a \in Seq(Seq(X)) /\ Len(c) = Len(a) /\ \A i \in 1 .. Len(c) : c[i] = a[i]
        BY <2>1, <2>2, <2>3
      <3> QED BY <3>1, SeqEqual
    <2> QED BY <2>4 DEF a, b, c
  <1>4. FlattenSeq(<< ss[j + 1] >>) = ss[j + 1]
    <2>1. << ss[j + 1] >> = Append(<< >>, ss[j + 1]) /\ << >> \in Seq(Seq(X)) /\ FlattenSeq(<< >>) = << >>
      BY DEF FlattenSeq
    <2>2. FlattenSeq(Append(<< >>, ss[j + 1])) = << >> \o ss[j + 1]
      BY <1>1, <2>1, FlattenAppend
    <2> QED BY <1>1, <2>1, <2>2, ConcatEmptySeq
  <1>5. FlattenSeq(Drop(ss, j)) = FlattenSeq(<< ss[j + 1] >>) \o FlattenSeq(Drop(ss, j + 1))
        /\ FlattenSeq(Drop(ss, j + 1)) \in Seq(X)
    BY <1>2, <1>3, FlattenConcat DEF Lists
  <1> QED BY <1>2, <1>4, <1>5

-----------------------------------------------------------------------------
(* Texts, read segment by segment                                          *)

\* Segments of a pattern or a path: not empty, and without a "/"
Segments(segs) ==
    /\ segs \in Seq(Seq(STRING))
    /\ \A i \in 1 .. Len(segs) : segs[i] # << >> /\ \A n \in 1 .. Len(segs[i]) : segs[i][n] # "/"

\* Segments with a "/" before each
Slashed(segs) == [i \in DOMAIN segs |-> <<"/">> \o segs[i]]

\* What a text ends in behind its segments: a "/" or nothing
Endings == {<< >>, <<"/">>}

\* The text of the segments behind the first j; and without the "/" before them
More(segs, ending, j) == FlattenSeq(Drop(Slashed(segs), j)) \o ending
Rest(segs, ending, j) == IF j = Len(segs) THEN << >> ELSE Tail(More(segs, ending, j))

\* rest is s, followed by nothing or by a "/" and next.
Reads(rest, s, next) ==
    /\ s \in Seq(STRING) /\ s # << >> /\ \A n \in 1 .. Len(s) : s[n] # "/"
    /\ rest \in Seq(Symbols) /\ next \in Seq(Symbols)
    /\ \/ rest = s /\ next = << >>
       \/ rest = s \o (<<"/">> \o next)

\* The types of segments with a "/" before each
LEMMA SlashedType ==
    ASSUME NEW segs \in Seq(Seq(STRING))
    PROVE  /\ Slashed(segs) \in Seq(Seq(Symbols)) /\ Len(Slashed(segs)) = Len(segs)
           /\ \A i \in 1 .. Len(segs) : Slashed(segs)[i] = <<"/">> \o segs[i]
  <1>1. DOMAIN segs = 1 .. Len(segs) /\ Len(segs) \in Nat
    OBVIOUS
  <1>2. ASSUME NEW i \in 1 .. Len(segs) PROVE <<"/">> \o segs[i] \in Seq(Symbols)
    <2>1. segs[i] \in Seq(STRING)
      BY <1>2
    <2>2. segs[i] \in Seq(Symbols)
      <3>1. \A n \in 1 .. Len(segs[i]) : segs[i][n] \in Symbols
        BY <2>1 DEF Symbols
      <3> QED BY <2>1, <3>1
    <2>3. <<"/">> \in Seq(Symbols)
      BY DEF Symbols
    <2> QED BY <2>2, <2>3, ConcatProperties
  <1>3. Slashed(segs) = [i \in 1 .. Len(segs) |-> <<"/">> \o segs[i]]
    BY <1>1 DEF Slashed
  <1> DEFINE sl == Slashed(segs)
  <1>4. \A i \in 1 .. Len(segs) : sl[i] = <<"/">> \o segs[i]
    BY <1>3
  <1>5. sl \in [1 .. Len(segs) -> Seq(Symbols)]
    BY <1>2, <1>3
  <1>6. sl \in Seq(Seq(Symbols)) /\ Len(sl) = Len(segs)
    <2> HIDE DEF sl
    <2> QED BY <1>1, <1>5
  <1> QED BY <1>4, <1>6

\* A text goes on with a "/", a segment, and the rest of the text.
LEMMA MoreIs ==
    ASSUME NEW segs, Segments(segs), NEW ending \in Endings
    PROVE  /\ \A j \in 0 .. Len(segs) : More(segs, ending, j) \in Seq(Symbols)
           /\ \A j \in 0 .. Len(segs) - 1 :
                 More(segs, ending, j) = <<"/">> \o (segs[j + 1] \o More(segs, ending, j + 1))
           /\ More(segs, ending, Len(segs)) = ending
  <1> DEFINE sl == Slashed(segs)
             N == Len(segs)
  <1>1. segs \in Seq(Seq(STRING)) /\ N \in Nat
    BY DEF Segments
  <1>2. sl \in Seq(Seq(Symbols)) /\ Len(sl) = N /\ \A i \in 1 .. N : sl[i] = <<"/">> \o segs[i]
    BY <1>1, SlashedType
  <1>3. ending \in Seq(Symbols)
    <2>1. << >> \in Seq(Symbols) /\ <<"/">> \in Seq(Symbols)
      BY DEF Symbols
    <2>2. ending = << >> \/ ending = <<"/">>
      BY DEF Endings
    <2> QED BY <2>1, <2>2
  <1>4. << >> \in Seq(Symbols) /\ <<"/">> \in Seq(Symbols)
    BY DEF Symbols
  <1>5. ASSUME NEW j \in 0 .. N
        PROVE  FlattenSeq(Drop(sl, j)) \in Seq(Symbols) /\ More(segs, ending, j) \in Seq(Symbols)
    <2>1. Drop(sl, j) \in Seq(Seq(Symbols))
      <3> HIDE DEF sl
      <3> QED BY <1>2, DropIs
    <2> HIDE DEF sl
    <2>2. FlattenSeq(Drop(sl, j)) \in Seq(Symbols)
      BY <1>4, <2>1, FlattenAppend
    <2>3. FlattenSeq(Drop(sl, j)) \o ending \in Seq(Symbols)
      BY <1>3, <2>2, ConcatProperties
    <2> QED BY <2>2, <2>3 DEF More, sl
  <1>6. ASSUME NEW j \in 0 .. N - 1
        PROVE  More(segs, ending, j) = <<"/">> \o (segs[j + 1] \o More(segs, ending, j + 1))
    <2> DEFINE a == segs[j + 1]
               b == FlattenSeq(Drop(sl, j + 1))
    <2>1. j + 1 \in 1 .. N /\ j + 1 \in 0 .. N
      BY <1>1
    <2>2. FlattenSeq(Drop(sl, j)) = sl[j + 1] \o b
      <3> HIDE DEF sl, N
      <3> QED BY <1>2, FlattenLast
    <2>3. b \in Seq(Symbols) /\ a \in Seq(STRING) /\ sl[j + 1] = <<"/">> \o a
      BY <1>1, <1>2, <1>5, <2>1
    <2>4. a \in Seq(Symbols)
      <3> HIDE DEF a, sl
      <3> QED BY <2>3, SeqMonotonic DEF Symbols
    <2>5. More(segs, ending, j) = ((<<"/">> \o a) \o b) \o ending /\ More(segs, ending, j + 1) = b \o ending
      BY <2>2, <2>3 DEF More
    <2> DEFINE h == <<"/">>
    <2>6. h \in Seq(Symbols)
      BY <1>4
    <2> HIDE DEF a, b, sl, N, h
    <2>7. ((h \o a) \o b) \o ending = h \o (a \o (b \o ending))
      <3>1. (h \o a) \in Seq(Symbols) /\ b \o ending \in Seq(Symbols)
        BY <1>3, <2>3, <2>4, <2>6, ConcatProperties
      <3>2. ((h \o a) \o b) \o ending = (h \o a) \o (b \o ending)
        <4>1. (h \o a) \in Seq(Symbols) /\ b \in Seq(Symbols) /\ ending \in Seq(Symbols)
          BY <1>3, <2>3, <3>1
        <4>2. Associates(h \o a, b, ending)
          BY <4>1, Associativity
        <4> QED BY <4>2 DEF Associates
      <3>3. (h \o a) \o (b \o ending) = h \o (a \o (b \o ending))
        <4>1. Associates(h, a, b \o ending)
          BY <2>4, <2>6, <3>1, Associativity
        <4> QED BY <4>1 DEF Associates
      <3> QED BY <3>2, <3>3
    <2> QED BY <2>5, <2>7 DEF h, a
  <1>7. More(segs, ending, N) = ending
    <2>1. Drop(sl, N) = << >>
      BY <1>2 DEF Drop
    <2>2. FlattenSeq(<< >>) = << >>
      BY DEF FlattenSeq
    <2>3. More(segs, ending, N) = << >> \o ending
      BY <2>1, <2>2 DEF More
    <2> QED BY <1>3, <2>3, ConcatEmptySeq
  <1> QED BY <1>5, <1>6, <1>7

\* Behind the first j segments stands the next, and what stands behind that.
LEMMA RestReads ==
    ASSUME NEW segs, Segments(segs), NEW ending \in Endings, NEW j \in 0 .. Len(segs) - 1
    PROVE  Reads(Rest(segs, ending, j), segs[j + 1], Rest(segs, ending, j + 1))
  <1> DEFINE N == Len(segs)
             s == segs[j + 1]
             m == More(segs, ending, j + 1)
             rest == Rest(segs, ending, j)
             next == Rest(segs, ending, j + 1)
  <1>1. N \in Nat /\ j + 1 \in 1 .. N /\ j + 1 \in 0 .. N /\ j # N
    BY DEF Segments
  <1>2. s \in Seq(STRING) /\ s # << >> /\ \A n \in 1 .. Len(s) : s[n] # "/"
    BY <1>1 DEF Segments
  <1>3. s \in Seq(Symbols)
    <2> HIDE DEF s
    <2> QED BY <1>2, SeqMonotonic DEF Symbols
  <1>4. m \in Seq(Symbols) /\ More(segs, ending, j) = <<"/">> \o (s \o m)
    BY <1>1, MoreIs
  <1>5. rest = s \o m /\ rest \in Seq(Symbols)
    <2>1. s \o m \in Seq(Symbols)
      <3> HIDE DEF s, m
      <3> QED BY <1>3, <1>4, ConcatProperties
    <2>2. Tail(<<"/">> \o (s \o m)) = s \o m
      <3> DEFINE b == s \o m
      <3> HIDE DEF b
      <3> SUFFICES Tail(<<"/">> \o b) = b
        BY DEF b
      <3>1. b \in Seq(Symbols) 
        BY <2>1 DEF b
      <3> QED BY <3>1
    <2> QED BY <1>1, <1>4, <2>1, <2>2 DEF Rest
  <1>6. CASE j + 1 = N
    <2>1. m = ending /\ next = << >>
      BY <1>6, MoreIs DEF Rest
    <2>2. CASE ending = << >>
      <3>1. s \o m = s
        <4> HIDE DEF s, m
        <4> QED BY <1>2, <2>1, <2>2, ConcatEmptySeq
      <3>2. rest = s
        BY <1>5, <2>1, <2>2, <3>1
      <3> HIDE DEF s, rest, next, m
      <3>3. next \in Seq(Symbols)
        BY <2>1
      <3>4. Reads(rest, s, next)
        BY <1>2, <1>5, <2>1, <3>2, <3>3 DEF Reads
      <3> QED BY <3>4 DEF rest, s, next
    <2>3. CASE ending = <<"/">>
      <3> HIDE DEF s, rest, next, m
      <3>1. m = <<"/">> \o next
        <4>1. <<"/">> \o << >> = <<"/">>
          OBVIOUS
        <4> QED BY <2>1, <2>3, <4>1
      <3>2. next \in Seq(Symbols)
        BY <2>1
      <3>3. Reads(rest, s, next)
        BY <1>2, <1>5, <3>1, <3>2 DEF Reads
      <3> QED BY <3>3 DEF rest, s, next
    <2> QED BY <2>2, <2>3 DEF Endings
  <1>7. CASE j + 1 # N
    <2>1. j + 1 \in 0 .. N - 1 /\ (j + 1) + 1 \in 1 .. N /\ (j + 1) + 1 \in 0 .. N
      BY <1>1, <1>7
    <2> DEFINE b == segs[(j + 1) + 1] \o More(segs, ending, (j + 1) + 1)
    <2>2. m = <<"/">> \o b /\ next = Tail(m)
      BY <1>7, <2>1, MoreIs DEF Rest
    <2>3. b \in Seq(Symbols)
      <3>1. segs[(j + 1) + 1] \in Seq(STRING) /\ More(segs, ending, (j + 1) + 1) \in Seq(Symbols)
        <4>1. segs[(j + 1) + 1] \in Seq(STRING)
          BY <2>1 DEF Segments
        <4> QED BY <2>1, <4>1, MoreIs
      <3>2. segs[(j + 1) + 1] \in Seq(Symbols)
        BY <3>1, SeqMonotonic DEF Symbols
      <3> QED BY <3>1, <3>2, ConcatProperties
    <2>4. next = b
      <3>1. Tail(<<"/">> \o b) = b
        <4> HIDE DEF b
        <4> QED BY <2>3
      <3> QED BY <2>2, <3>1
    <2> HIDE DEF b, m, s, next
    <2>5. rest = s \o (<<"/">> \o next)
      BY <1>5, <2>2, <2>4
    <2> QED BY <1>2, <1>5, <2>3, <2>4, <2>5 DEF Reads, s, next
  <1> QED BY <1>6, <1>7

\* The same, symbol by symbol
Laid(rest, s, next) ==
    /\ Len(rest) \in Nat /\ Len(s) \in Nat /\ Len(next) \in Nat
    /\ Len(s) >= 1 /\ Len(rest) >= Len(s) /\ \A i \in 1 .. Len(s) : rest[i] = s[i] /\ rest[i] # "/"
    /\ \/ Len(rest) = Len(s) /\ next = << >> /\ Len(next) = 0
       \/ /\ Len(rest) = Len(s) + 1 + Len(next) /\ rest[Len(s) + 1] = "/"
          /\ \A i \in 1 .. Len(next) : rest[Len(s) + 1 + i] = next[i]

\* What Reads says of a sequence holds of its symbols.
LEMMA ReadsLaid ==
    ASSUME NEW rest, NEW s, NEW next, Reads(rest, s, next)
    PROVE  Laid(rest, s, next) /\ s \in Seq(Symbols)
  <1>1. /\ s \in Seq(STRING) /\ Len(s) \in Nat /\ Len(s) >= 1 /\ \A n \in 1 .. Len(s) : s[n] # "/"
        /\ rest \in Seq(Symbols) /\ next \in Seq(Symbols) /\ Len(next) \in Nat /\ Len(rest) \in Nat
    BY DEF Reads
  <1>2. s \in Seq(Symbols)
    BY <1>1, SeqMonotonic DEF Symbols
  <1>3. CASE rest = s /\ next = << >>
    BY <1>1, <1>2, <1>3 DEF Laid
  <1>4. CASE rest = s \o (<<"/">> \o next)
    <2> DEFINE b == <<"/">> \o next
    <2>1. b \in Seq(Symbols) /\ Len(b) = 1 + Len(next) /\ b[1] = "/" /\ \A i \in 1 .. Len(next) : b[1 + i] = next[i]
      BY <1>1 DEF Symbols
    <2>0. b \in Seq(Symbols)
      BY <2>1
    <2> HIDE DEF b
    <2>2. /\ Len(s \o b) = Len(s) + Len(b)
          /\ \A i \in 1 .. Len(s) + Len(b) : (s \o b)[i] = IF i <= Len(s) THEN s[i] ELSE b[i - Len(s)]
      BY <1>2, <2>0, ConcatProperties
    <2>3. Len(rest) = Len(s) + 1 + Len(next)
      BY <1>1, <1>4, <2>1, <2>2 DEF b
    <2>4. \A i \in 1 .. Len(s) : rest[i] = s[i]
      BY <1>1, <1>4, <2>1, <2>2 DEF b
    <2>5. rest = s \o b
      BY <1>4 DEF b
    <2>6. rest[Len(s) + 1] = "/"
      <3>1. Len(s) + 1 \in 1 .. Len(s) + Len(b) /\ (Len(s) + 1) - Len(s) = 1 /\ ~(Len(s) + 1 <= Len(s))
        BY <1>1, <2>1
      <3> QED BY <2>1, <2>2, <2>5, <3>1
    <2>7. ASSUME NEW i \in 1 .. Len(next) PROVE rest[Len(s) + 1 + i] = next[i]
      <3>1. /\ Len(s) + 1 + i \in 1 .. Len(s) + Len(b) /\ (Len(s) + 1 + i) - Len(s) = 1 + i
            /\ ~(Len(s) + 1 + i <= Len(s))
        BY <1>1, <2>1
      <3> QED BY <2>1, <2>2, <2>5, <3>1
    <2>8. Len(rest) >= Len(s) /\ \A i \in 1 .. Len(s) : rest[i] = s[i] /\ rest[i] # "/"
      BY <1>1, <2>3, <2>4
    <2> QED BY <1>1, <1>2, <2>3, <2>6, <2>7, <2>8 DEF Laid
  <1> QED BY <1>3, <1>4 DEF Reads

\* All of what is read: where it ends, and what is left when the "/" is skipped.
LEMMA ReadsWhole ==
    ASSUME NEW rest, NEW s, NEW next, Reads(rest, s, next)
    PROVE  /\ Before(rest, {"/"}) = Len(s) /\ SubSeq(rest, 1, Len(s)) = s
           /\ Drop(rest, Len(s) + 1) = next /\ SkipSlash(Drop(rest, Len(s))) = next
           /\ next \in Seq(Symbols) /\ Len(next) < Len(rest)
  <1> DEFINE L == Len(s)
             R == Len(rest)
             D == Len(next)
  <1>1. rest \in Seq(Symbols) /\ next \in Seq(Symbols)
    BY DEF Reads
  <1>2. Laid(rest, s, next) /\ s \in Seq(Symbols)
    BY ReadsLaid
  <1>3. L \in Nat /\ R \in Nat /\ D \in Nat /\ L >= 1 /\ R >= L /\ \A i \in 1 .. L : rest[i] = s[i] /\ rest[i] # "/"
    BY <1>2 DEF Laid
  <1>4. \/ R = L /\ next = << >> /\ D = 0
        \/ R = L + 1 + D /\ rest[L + 1] = "/" /\ \A i \in 1 .. D : rest[L + 1 + i] = next[i]
    BY <1>2 DEF Laid
  <1>5. D < R
    <2> HIDE DEF L, R, D
    <2> QED BY <1>3, <1>4
  <1>6. Before(rest, {"/"}) = L
    <2> DEFINE b == Before(rest, {"/"})
    <2>1. b \in 0 .. R /\ (\A i \in 1 .. b : rest[i] # "/") /\ (b < R => rest[b + 1] = "/")
      <3>1. b \in 0 .. R /\ (\A i \in 1 .. b : rest[i] \notin {"/"}) /\ (b < R => rest[b + 1] \in {"/"})
        <4> HIDE DEF b, R
        <4> QED BY <1>1, BeforeIs DEF b, R
      <3> HIDE DEF b, R
      <3> QED BY <3>1
    <2> HIDE DEF b, L, R, D
    <2>2. ~(b < L)
      <3> SUFFICES ASSUME b < L PROVE FALSE
        OBVIOUS
      <3>1. b < R /\ b + 1 \in 1 .. L
        BY <1>3, <2>1
      <3> QED BY <1>3, <2>1, <3>1
    <2>3. ~(b > L)
      <3> SUFFICES ASSUME b > L PROVE FALSE
        OBVIOUS
      <3>1. R # L /\ L + 1 \in 1 .. b
        BY <1>3, <2>1
      <3> QED BY <1>4, <2>1, <3>1
    <2>4. b = L
      BY <1>3, <2>1, <2>2, <2>3
    <2> QED BY <2>4 DEF b
  <1>7. SubSeq(rest, 1, L) = s
    <2> DEFINE a == SubSeq(rest, 1, L)
    <2>1. a \in Seq(Symbols) /\ Len(a) = L /\ \A i \in 1 .. L : a[i] = rest[i]
      <3> HIDE DEF L
      <3> QED BY <1>1, <1>3
    <2> HIDE DEF a
    <2>2. Len(a) = Len(s) /\ \A i \in 1 .. Len(a) : a[i] = s[i]
      BY <1>3, <2>1
    <2>3. a = s
      BY <1>2, <2>1, <2>2, SeqEqual
    <2> QED BY <2>3 DEF a
  <1>8. Drop(rest, L + 1) = next
    <2>1. CASE R = L /\ next = << >>
      <3> HIDE DEF L
      <3> QED BY <1>1, <1>3, <2>1, SubSeqEmpty DEF Drop
    <2>2. CASE R = L + 1 + D /\ \A i \in 1 .. D : rest[L + 1 + i] = next[i]
      <3> DEFINE a == Drop(rest, L + 1)
      <3> HIDE DEF L
      <3>1. L + 1 \in 0 .. Len(rest) /\ Len(rest) - (L + 1) = D
        <4> HIDE DEF D
        <4> QED BY <1>3, <2>2
      <3>2. a \in Seq(Symbols) /\ Len(a) = D /\ \A i \in 1 .. D : a[i] = rest[L + 1 + i]
        <4> HIDE DEF D
        <4> QED BY <1>1, <3>1, DropIs
      <3> HIDE DEF a
      <3>3. Len(a) = Len(next) /\ \A i \in 1 .. Len(a) : a[i] = next[i]
        BY <2>2, <3>2
      <3>4. a = next
        BY <1>1, <3>2, <3>3, SeqEqual
      <3> QED BY <3>4 DEF a
    <2> QED BY <1>4, <2>1, <2>2
  <1>9. SkipSlash(Drop(rest, L)) = next
    <2> DEFINE d == Drop(rest, L)
    <2>1. d \in Seq(Symbols) /\ Len(d) = R - L /\ \A i \in 1 .. R - L : d[i] = rest[L + i]
      <3>1. L \in 0 .. Len(rest)
        BY <1>3
      <3> HIDE DEF L
      <3> QED BY <1>1, <3>1, DropIs
    <2>2. CASE R = L /\ next = << >>
      <3>1. d = << >>
        <4> HIDE DEF d, L, R
        <4> QED BY <1>3, <2>1, <2>2
      <3> QED BY <2>2, <3>1 DEF SkipSlash
    <2>3. CASE R = L + 1 + D /\ rest[L + 1] = "/" /\ \A i \in 1 .. D : rest[L + 1 + i] = next[i]
      <3>0. R - L = 1 + D
        BY <1>3, <2>3
      <3> HIDE DEF d, L, R
      <3>1. Len(d) = 1 + D /\ d[1] = "/" /\ d # << >> /\ Head(d) = "/"
        BY <1>3, <2>1, <2>3, <3>0
      <3>2. Tail(d) \in Seq(Symbols) /\ Len(Tail(d)) = D /\ \A i \in 1 .. D : Tail(d)[i] = d[i + 1]
        BY <1>3, <2>1, <3>1, HeadTailProperties
      <3>3. \A i \in 1 .. D : d[i + 1] = next[i]
        <4> TAKE i \in 1 .. D
        <4>1. i + 1 \in 1 .. R - L /\ L + (i + 1) = L + 1 + i
          BY <1>3, <3>0
        <4> QED BY <2>1, <2>3, <4>1
      <3>4. Tail(d) = next
        BY <1>1, <3>2, <3>3, SeqEqual
      <3>5. SkipSlash(d) = next
        BY <3>1, <3>4 DEF SkipSlash
      <3> QED BY <3>5 DEF d
    <2> QED BY <1>4, <2>2, <2>3
  <1> QED BY <1>1, <1>5, <1>6, <1>7, <1>8, <1>9

\* Some of it: the rest of what is read is what is left, and begins with no "/".
LEMMA ReadsPart ==
    ASSUME NEW rest, NEW s, NEW next, Reads(rest, s, next), NEW n \in 1 .. Len(s) - 1
    PROVE  /\ SkipSlash(Drop(rest, n)) = Drop(rest, n)
           /\ Reads(Drop(rest, n), Drop(s, n), next)
           /\ Len(Drop(rest, n)) < Len(rest)
  <1> DEFINE d == Drop(rest, n)
             e == Drop(s, n)
  <1>1. rest \in Seq(Symbols) /\ next \in Seq(Symbols) /\ s \in Seq(STRING) /\ \A i \in 1 .. Len(s) : s[i] # "/"
    BY DEF Reads
  <1>2. Laid(rest, s, next) /\ s \in Seq(Symbols)
    BY ReadsLaid
  <1>3. Len(s) \in Nat /\ Len(rest) \in Nat /\ Len(rest) >= Len(s) /\ \A i \in 1 .. Len(s) : rest[i] = s[i]
    BY <1>2 DEF Laid
  <1>4. n \in 0 .. Len(s) /\ n \in 0 .. Len(rest) /\ n \in Nat /\ n >= 1 /\ n < Len(s)
    BY <1>3
  <1>5. e \in Seq(STRING) /\ Len(e) = Len(s) - n /\ \A i \in 1 .. Len(s) - n : e[i] = s[n + i]
    BY <1>1, <1>4, DropIs
  <1>6. d \in Seq(Symbols) /\ Len(d) = Len(rest) - n /\ \A i \in 1 .. Len(rest) - n : d[i] = rest[n + i]
    BY <1>1, <1>4, DropIs
  <1>7. e # << >> /\ \A i \in 1 .. Len(e) : e[i] # "/"
    <2>1. \A i \in 1 .. Len(s) - n : n + i \in 1 .. Len(s)
      BY <1>3, <1>4
    <2> HIDE DEF e
    <2>2. Len(e) # 0
      BY <1>3, <1>4, <1>5
    <2> QED BY <1>1, <1>5, <2>1, <2>2
  <1>8. d # << >> /\ Head(d) # "/"
    <2>1. n + 1 \in 1 .. Len(s) /\ 1 \in 1 .. Len(rest) - n
      BY <1>3, <1>4
    <2> HIDE DEF d
    <2>2. d[1] = s[n + 1] /\ Len(d) # 0
      BY <1>3, <1>4, <1>6, <2>1
    <2> QED BY <1>1, <1>6, <2>1, <2>2
  <1>9. SkipSlash(d) = d
    BY <1>8 DEF SkipSlash
  <1>10. Len(d) < Len(rest)
    BY <1>3, <1>4, <1>6
  <1>11. CASE rest = s /\ next = << >>
    <2>1. Reads(d, e, next)
      <3>1. d = e
        BY <1>11
      <3> HIDE DEF d, e
      <3> QED BY <1>1, <1>5, <1>6, <1>7, <1>11, <3>1 DEF Reads
    <2> QED BY <1>9, <1>10, <2>1
  <1>12. CASE rest = s \o (<<"/">> \o next)
    <2> DEFINE b == <<"/">> \o next
    <2>1. b \in Seq(Symbols) /\ e \in Seq(Symbols)
      <3>1. <<"/">> \o next \in Seq(Symbols)
        BY <1>1 DEF Symbols
      <3>2. e \in Seq(Symbols)
        <4> HIDE DEF e
        <4> QED BY <1>5, SeqMonotonic DEF Symbols
      <3> QED BY <3>1, <3>2
    <2> HIDE DEF b
    <2>2. /\ Len(s \o b) = Len(s) + Len(b)
          /\ \A i \in 1 .. Len(s) + Len(b) : (s \o b)[i] = IF i <= Len(s) THEN s[i] ELSE b[i - Len(s)]
      BY <1>2, <2>1, ConcatProperties
    <2>3. /\ Len(e \o b) = Len(e) + Len(b) /\ e \o b \in Seq(Symbols)
          /\ \A i \in 1 .. Len(e) + Len(b) : (e \o b)[i] = IF i <= Len(e) THEN e[i] ELSE b[i - Len(e)]
      <3> HIDE DEF e
      <3> QED BY <2>1, ConcatProperties
    <2>4. Len(b) \in Nat /\ rest = s \o b
      BY <1>12, <2>1 DEF b
    <2> HIDE DEF d, e
    <2>5. Len(d) = Len(e \o b)
      BY <1>3, <1>4, <1>5, <1>6, <2>2, <2>3, <2>4
    <2>6. ASSUME NEW i \in 1 .. Len(d) PROVE d[i] = (e \o b)[i]
      <3>1. i \in 1 .. Len(rest) - n /\ n + i \in 1 .. Len(s) + Len(b) /\ i \in 1 .. Len(e) + Len(b)
            /\ (i <= Len(e) <=> n + i <= Len(s)) /\ (n + i) - Len(s) = i - Len(e)
            /\ (i <= Len(e) => i \in 1 .. Len(s) - n)
        BY <1>3, <1>4, <1>5, <1>6, <2>2, <2>4
      <3>2. d[i] = rest[n + i]
        BY <1>6, <3>1
      <3>3. rest[n + i] = IF n + i <= Len(s) THEN s[n + i] ELSE b[(n + i) - Len(s)]
        BY <2>2, <2>4, <3>1
      <3>4. (e \o b)[i] = IF i <= Len(e) THEN e[i] ELSE b[i - Len(e)]
        BY <2>3, <3>1
      <3>5. i <= Len(e) => e[i] = s[n + i]
        BY <1>5, <3>1
      <3> QED BY <3>1, <3>2, <3>3, <3>4, <3>5
    <2>7. d = e \o b
      BY <1>6, <2>3, <2>5, <2>6, SeqEqual
    <2>8. Reads(d, e, next)
      BY <1>1, <1>5, <1>6, <1>7, <2>7 DEF Reads, b
    <2> QED BY <1>9, <1>10, <2>8 DEF d, e
  <1> QED BY <1>11, <1>12 DEF Reads

\* What is written of a path, or of the end of one.
LEMMA TextDrop ==
    ASSUME NEW segs, Segments(segs), NEW j \in 0 .. Len(segs) - 1
    PROVE  /\ Text(Drop(segs, j)) = FlattenSeq(Drop(Slashed(segs), j))
           /\ Text(Drop(segs, j)) = More(segs, << >>, j)
           /\ Tail(Text(Drop(segs, j))) = Rest(segs, << >>, j)
  <1> DEFINE N == Len(segs)
             d == Drop(segs, j)
             sl == Slashed(segs)
  <1>1. segs \in Seq(Seq(STRING)) /\ N \in Nat /\ j \in 0 .. N /\ j # N
    BY DEF Segments
  <1>2. d \in Seq(Seq(STRING)) /\ Len(d) = N - j /\ \A i \in 1 .. N - j : d[i] = segs[j + i]
    BY <1>1, DropIs
  <1>3. sl \in Seq(Seq(Symbols)) /\ Len(sl) = N /\ \A i \in 1 .. N : sl[i] = <<"/">> \o segs[i]
    BY <1>1, SlashedType
  <1>4. Slashed(d) \in Seq(Seq(Symbols)) /\ Len(Slashed(d)) = N - j
        /\ \A i \in 1 .. N - j : Slashed(d)[i] = <<"/">> \o d[i]
    <2> HIDE DEF d
    <2> QED BY <1>2, SlashedType
  <1>5. Drop(sl, j) \in Seq(Seq(Symbols)) /\ Len(Drop(sl, j)) = N - j
        /\ \A i \in 1 .. N - j : Drop(sl, j)[i] = sl[j + i]
    <2> HIDE DEF sl, N
    <2> QED BY <1>1, <1>3, DropIs
  <1>6. Slashed(d) = Drop(sl, j)
    <2> DEFINE a == Slashed(d)
               b == Drop(sl, j)
    <2>1. \A i \in 1 .. N - j : a[i] = b[i]
      <3> TAKE i \in 1 .. N - j
      <3>1. j + i \in 1 .. N
        BY <1>1
      <3>2. a[i] = <<"/">> \o d[i] /\ d[i] = segs[j + i]
        BY <1>2, <1>4
      <3>3. b[i] = sl[j + i] /\ sl[j + i] = <<"/">> \o segs[j + i]
        BY <1>3, <1>5, <3>1
      <3> QED BY <3>2, <3>3
    <2>2. a \in Seq(Seq(Symbols)) /\ b \in Seq(Seq(Symbols)) /\ Len(a) = N - j /\ Len(b) = N - j
      BY <1>4, <1>5
    <2> HIDE DEF a, b
    <2>3. a = b
      BY <2>1, <2>2, SeqEqual
    <2> QED BY <2>3 DEF a, b
  <1>7. Text(d) = FlattenSeq(Slashed(d))
    <2>1. d # << >>
      <3> HIDE DEF d, N
      <3> QED BY <1>1, <1>2
    <2> QED BY <2>1 DEF Text, Slashed
  <1>8. FlattenSeq(Drop(sl, j)) \in Seq(Symbols)
    <2>1. << >> \in Seq(Symbols)
      OBVIOUS
    <2> QED BY <1>5, <2>1, FlattenAppend
  <1>9. More(segs, << >>, j) = FlattenSeq(Drop(sl, j))
    <2> HIDE DEF sl
    <2>1. FlattenSeq(Drop(sl, j)) \o << >> = FlattenSeq(Drop(sl, j))
      BY <1>8, ConcatEmptySeq
    <2> QED BY <2>1 DEF More, sl
  <1>10. Rest(segs, << >>, j) = Tail(More(segs, << >>, j))
    BY <1>1 DEF Rest
  <1> QED BY <1>6, <1>7, <1>9, <1>10

\* A text is what is written of all its segments; behind its first "/" it is their rest.
LEMMA TextIs ==
    ASSUME NEW segs, Segments(segs)
    PROVE  /\ Text(segs) \in Seq(Symbols) /\ Len(Text(segs)) >= 1
           /\ Tail(Text(segs)) = Rest(segs, << >>, 0)
           /\ segs # << >> => Text(segs) = FlattenSeq(Slashed(segs)) /\ Text(segs) = More(segs, << >>, 0)
  <1>1. segs \in Seq(Seq(STRING)) /\ Len(segs) \in Nat
    BY DEF Segments
  <1>2. CASE segs = << >>
    <2>1. Text(segs) = <<"/">> /\ Len(segs) = 0
      BY <1>2 DEF Text
    <2>2. <<"/">> \in Seq(Symbols) /\ Len(<<"/">>) = 1 /\ Tail(<<"/">>) = << >>
      BY DEF Symbols
    <2>3. Rest(segs, << >>, 0) = << >>
      BY <2>1 DEF Rest
    <2>4. Text(segs) \in Seq(Symbols) /\ Len(Text(segs)) >= 1 /\ Tail(Text(segs)) = << >>
      BY <2>1, <2>2
    <2> QED BY <1>2, <2>3, <2>4
  <1>3. CASE segs # << >>
    <2>1. 0 \in 0 .. Len(segs) - 1 /\ 0 \in 0 .. Len(segs) /\ Len(segs) # 0
      BY <1>1, <1>3
    <2>2. Drop(segs, 0) = segs
      BY <1>1, SubSeqFull DEF Drop
    <2>3. Slashed(segs) \in Seq(Seq(Symbols))
      BY <1>1, SlashedType
    <2>4. Drop(Slashed(segs), 0) = Slashed(segs)
      BY <2>3, SubSeqFull DEF Drop
    <2>5. More(segs, << >>, 0) \in Seq(Symbols)
      BY <2>1, MoreIs DEF Endings
    <2>6. /\ Text(segs) = FlattenSeq(Slashed(segs)) /\ Text(segs) = More(segs, << >>, 0)
          /\ Tail(Text(segs)) = Rest(segs, << >>, 0)
      BY <2>1, <2>2, <2>4, TextDrop
    <2>7. Len(More(segs, << >>, 0)) >= 1
      <3>1. More(segs, << >>, 0) = <<"/">> \o (segs[0 + 1] \o More(segs, << >>, 0 + 1))
        BY <2>1, MoreIs DEF Endings
      <3> DEFINE b == segs[0 + 1] \o More(segs, << >>, 0 + 1)
      <3>2. b \in Seq(Symbols)
        <4>1. segs[0 + 1] \in Seq(STRING) /\ 0 + 1 \in 0 .. Len(segs)
          BY <1>1, <2>1
        <4>2. segs[0 + 1] \in Seq(Symbols) /\ More(segs, << >>, 0 + 1) \in Seq(Symbols)
          BY <4>1, MoreIs, SeqMonotonic DEF Endings, Symbols
        <4> QED BY <4>2, ConcatProperties
      <3> HIDE DEF b
      <3>3. Len(<<"/">> \o b) >= 1
        BY <3>2 DEF Symbols
      <3> QED BY <3>1, <3>3 DEF b
    <2> QED BY <2>5, <2>6, <2>7
  <1> QED BY <1>2, <1>3

\* What add_route is given, behind the first "/".
LEMMA FullRest ==
    ASSUME NEW g, NEW pattern, Segments(groups[g].prefix), Segments(pattern)
    PROVE  /\ FullPattern(g, pattern) \in Seq(Symbols) /\ Len(FullPattern(g, pattern)) >= 1
           /\ Segments(groups[g].prefix \o pattern)
           /\ \E ending \in Endings :
                 Tail(FullPattern(g, pattern)) = Rest(groups[g].prefix \o pattern, ending, 0)
  <1> DEFINE a == groups[g].prefix
             ab == a \o pattern
  <1>1. a \in Seq(Seq(STRING)) /\ pattern \in Seq(Seq(STRING)) /\ Len(a) \in Nat /\ Len(pattern) \in Nat
    BY DEF Segments
  <1>2. /\ ab \in Seq(Seq(STRING)) /\ Len(ab) = Len(a) + Len(pattern)
        /\ \A i \in 1 .. Len(a) + Len(pattern) : ab[i] = IF i <= Len(a) THEN a[i] ELSE pattern[i - Len(a)]
    <2> HIDE DEF a
    <2> QED BY <1>1, ConcatProperties
  <1>3. Segments(ab)
    <2>1. ASSUME NEW i \in 1 .. Len(ab)
          PROVE  ab[i] # << >> /\ \A n \in 1 .. Len(ab[i]) : ab[i][n] # "/"
      <3>1. CASE i <= Len(a)
        <4>1. i \in 1 .. Len(a) /\ ab[i] = a[i]
          <5> HIDE DEF ab, a
          <5> QED BY <1>1, <1>2, <3>1
        <4> QED BY <4>1 DEF Segments
      <3>2. CASE ~(i <= Len(a))
        <4>1. i - Len(a) \in 1 .. Len(pattern) /\ ab[i] = pattern[i - Len(a)]
          <5> HIDE DEF ab, a
          <5> QED BY <1>1, <1>2, <3>2
        <4> QED BY <4>1 DEF Segments
      <3> QED BY <3>1, <3>2
    <2> HIDE DEF ab
    <2> QED BY <1>2, <2>1 DEF Segments
  <1>4. << >> \in Endings /\ <<"/">> \in Endings
    BY DEF Endings
  <1>5. CASE a = << >>
    <2>1. FullPattern(g, pattern) = << >> \o Text(pattern)
      BY <1>5 DEF FullPattern
    <2>2. Text(pattern) \in Seq(Symbols) /\ Len(Text(pattern)) >= 1 /\ Tail(Text(pattern)) = Rest(pattern, << >>, 0)
      BY TextIs
    <2>3. << >> \o Text(pattern) = Text(pattern)
      BY <2>2, ConcatEmptySeq
    <2>4. ab = pattern
      <3> HIDE DEF a
      <3> QED BY <1>1, <1>5, ConcatEmptySeq
    <2> QED BY <1>3, <1>4, <2>1, <2>2, <2>3, <2>4
  <1>6. CASE a # << >>
    <2>1. FullPattern(g, pattern) = Text(a) \o Text(pattern)
      BY <1>6 DEF FullPattern
    <2>2. /\ Text(a) \in Seq(Symbols) /\ Len(Text(a)) >= 1
          /\ Text(a) = FlattenSeq(Slashed(a))
      BY <1>6, TextIs
    <2>3. /\ Text(pattern) \in Seq(Symbols)
          /\ pattern # << >> => Text(pattern) = FlattenSeq(Slashed(pattern))
      BY TextIs
    <2>4. FullPattern(g, pattern) \in Seq(Symbols) /\ Len(FullPattern(g, pattern)) >= 1
      <3> DEFINE u == Text(a)
                 v == Text(pattern)
      <3>1. u \in Seq(Symbols) /\ v \in Seq(Symbols) /\ Len(u) >= 1
        BY <2>2, <2>3
      <3> HIDE DEF u, v
      <3>2. u \o v \in Seq(Symbols) /\ Len(u \o v) >= 1
        BY <3>1
      <3> QED BY <2>1, <3>2 DEF u, v
    <2>5. Drop(Slashed(ab), 0) = Slashed(ab) /\ Slashed(ab) \in Seq(Seq(Symbols))
      <3>1. Slashed(ab) \in Seq(Seq(Symbols))
        <4> HIDE DEF ab
        <4> QED BY <1>2, SlashedType
      <3> QED BY <3>1, SubSeqFull DEF Drop
    <2>6. Len(ab) # 0
      <3> HIDE DEF a, ab
      <3> QED BY <1>1, <1>2, <1>6
    <2>7. ASSUME NEW ending, FullPattern(g, pattern) = FlattenSeq(Slashed(ab)) \o ending
          PROVE  Tail(FullPattern(g, pattern)) = Rest(ab, ending, 0)
      BY <2>5, <2>6, <2>7 DEF Rest, More
    <2>8. CASE pattern = << >>
      <3>1. ab = a
        <4> HIDE DEF a
        <4> QED BY <1>1, <2>8, ConcatEmptySeq
      <3>2. Text(pattern) = <<"/">>
        BY <2>8 DEF Text
      <3>3. Tail(FullPattern(g, pattern)) = Rest(ab, <<"/">>, 0)
        BY <2>1, <2>2, <2>7, <3>1, <3>2
      <3> QED BY <1>3, <1>4, <2>4, <3>3
    <2>9. CASE pattern # << >>
      <3> DEFINE u == Slashed(a)
                 v == Slashed(pattern)
                 w == Slashed(ab)
      <3>1. /\ u \in Seq(Seq(Symbols)) /\ Len(u) = Len(a) /\ \A i \in 1 .. Len(a) : u[i] = <<"/">> \o a[i]
            /\ v \in Seq(Seq(Symbols)) /\ Len(v) = Len(pattern)
            /\ \A i \in 1 .. Len(pattern) : v[i] = <<"/">> \o pattern[i]
        BY <1>1, SlashedType
      <3>2. w \in Seq(Seq(Symbols)) /\ Len(w) = Len(ab) /\ \A i \in 1 .. Len(ab) : w[i] = <<"/">> \o ab[i]
        <4> HIDE DEF ab
        <4> QED BY <1>2, SlashedType
      <3>3. w = u \o v
        <4> HIDE DEF u, v, w, ab, a
        <4>1. /\ u \o v \in Seq(Seq(Symbols)) /\ Len(u \o v) = Len(u) + Len(v)
              /\ \A i \in 1 .. Len(u) + Len(v) : (u \o v)[i] = IF i <= Len(u) THEN u[i] ELSE v[i - Len(u)]
          <5>1. u \in Seq(Seq(Symbols)) /\ v \in Seq(Seq(Symbols))
            BY <3>1
          <5> QED BY <5>1, ConcatProperties, Zenon
        <4>2. ASSUME NEW i \in 1 .. Len(w) PROVE w[i] = (u \o v)[i]
          <5>1. CASE i <= Len(a)
            <6>1. i \in 1 .. Len(a) /\ i \in 1 .. Len(ab) /\ i \in 1 .. Len(u) + Len(v)
              BY <1>1, <1>2, <3>1, <3>2, <5>1
            <6>2. ab[i] = a[i] /\ (u \o v)[i] = u[i]
              BY <1>2, <3>1, <4>1, <5>1, <6>1
            <6> QED BY <3>1, <3>2, <6>1, <6>2
          <5>2. CASE ~(i <= Len(a))
            <6>1. i - Len(a) \in 1 .. Len(pattern) /\ i \in 1 .. Len(ab) /\ i \in 1 .. Len(u) + Len(v)
              BY <1>1, <1>2, <3>1, <3>2, <5>2
            <6>2. ab[i] = pattern[i - Len(a)] /\ (u \o v)[i] = v[i - Len(a)]
              BY <1>2, <3>1, <4>1, <5>2, <6>1
            <6> QED BY <3>1, <3>2, <6>1, <6>2
          <5> QED BY <5>1, <5>2
        <4>3. Len(w) = Len(u \o v)
          BY <1>2, <3>1, <3>2, <4>1
        <4> QED BY <3>2, <4>1, <4>2, <4>3, SeqEqual
      <3>4. FlattenSeq(w) = FlattenSeq(u) \o FlattenSeq(v) /\ FlattenSeq(w) \in Seq(Symbols)
        <4> HIDE DEF u, v, w, ab, a
        <4>1. FlattenSeq(u \o v) = FlattenSeq(u) \o FlattenSeq(v)
          BY <3>1, FlattenConcat DEF Lists
        <4>2. FlattenSeq(w) \in Seq(Symbols)
          BY <3>2, FlattenConcat DEF Lists
        <4> QED BY <3>3, <4>1, <4>2
      <3>5. FlattenSeq(w) \o << >> = FlattenSeq(w)
        <4> HIDE DEF w
        <4> QED BY <3>4, ConcatEmptySeq
      <3>6. FullPattern(g, pattern) = FlattenSeq(Slashed(ab)) \o << >>
        BY <2>1, <2>2, <2>3, <2>9, <3>4, <3>5
      <3> QED BY <1>3, <1>4, <2>4, <2>7, <3>6
    <2> QED BY <2>8, <2>9
  <1> QED BY <1>5, <1>6

-----------------------------------------------------------------------------
(* The way of a pattern into the trie                                      *)

\* Segments a pattern is made of: words, parameters and, at its end, a catch-all
Sound(segs) ==
    /\ segs \in Seq(Seq(STRING))
    /\ \A i \in 1 .. Len(segs) :
          \/ segs[i] # << >> /\ \A n \in 1 .. Len(segs[i]) : segs[i][n] \in Letters
          \/ Len(segs[i]) = 1 /\ segs[i][1] \in ParamSyms
          \/ Len(segs[i]) = 1 /\ segs[i][1] \in CatchAlls /\ i = Len(segs)

\* The key of the first j segments
Key(segs, j) == FlattenSeq(SubSeq(segs, 1, j))

\* The key of one more segment is longer by the segment.
LEMMA KeyIs ==
    ASSUME NEW segs \in Seq(Seq(STRING))
    PROVE  /\ Key(segs, 0) = << >> /\ Key(segs, Len(segs)) = FlattenSeq(segs)
           /\ \A j \in 0 .. Len(segs) : Key(segs, j) \in Seq(STRING)
           /\ \A j \in 0 .. Len(segs) - 1 : Key(segs, j + 1) = Key(segs, j) \o segs[j + 1]
  <1>1. SubSeq(segs, 1, 0) = << >> /\ SubSeq(segs, 1, Len(segs)) = segs
    BY SubSeqFull
  <1>2. Key(segs, 0) = << >> /\ Key(segs, Len(segs)) = FlattenSeq(segs)
    <2>1. FlattenSeq(<< >>) = << >>
      BY DEF FlattenSeq
    <2> QED BY <1>1, <2>1 DEF Key
  <1>3. ASSUME NEW j \in 0 .. Len(segs) PROVE Key(segs, j) \in Seq(STRING)
    <2>1. SubSeq(segs, 1, j) \in Seq(Seq(STRING)) /\ << >> \in Seq(STRING)
      OBVIOUS
    <2> QED BY <2>1, FlattenAppend DEF Key
  <1>4. ASSUME NEW j \in 0 .. Len(segs) - 1 PROVE Key(segs, j + 1) = Key(segs, j) \o segs[j + 1]
    BY FlattenFirst DEF Key
  <1> QED BY <1>2, <1>3, <1>4

\* A sound pattern is made of segments without a "/".
LEMMA SoundSegments ==
    ASSUME NEW segs, Sound(segs)
    PROVE  Segments(segs) /\ Len(segs) \in Nat
  <1>1. segs \in Seq(Seq(STRING)) /\ Len(segs) \in Nat
    BY DEF Sound
  <1>2. ASSUME NEW i \in 1 .. Len(segs)
        PROVE  segs[i] # << >> /\ \A n \in 1 .. Len(segs[i]) : segs[i][n] # "/"
    <2>1. CASE segs[i] # << >> /\ \A n \in 1 .. Len(segs[i]) : segs[i][n] \in Letters
      BY <2>1 DEF Letters
    <2>2. CASE Len(segs[i]) = 1 /\ segs[i][1] \in ParamSyms \cup CatchAlls
      <3>1. segs[i] # << >> /\ segs[i][1] # "/"
        BY <2>2, RouterAssumption
      <3>2. \A n \in 1 .. Len(segs[i]) : n = 1
        BY <2>2
      <3> QED BY <3>1, <3>2
    <2> QED BY <2>1, <2>2 DEF Sound
  <1> QED BY <1>1, <1>2 DEF Segments

\* k is on the way of the pattern, rest what is left of it: in its segment
\* number j + 1, o symbols of it taken, or at its end.
Spot(segs, ending, j, o, k, rest) ==
    \/ j = Len(segs) /\ o = 0 /\ k = Key(segs, j) /\ rest = << >>
    \/ /\ j \in 0 .. Len(segs) - 1 /\ o \in 0 .. Len(segs[j + 1]) - 1
       /\ k = Key(segs, j) \o SubSeq(segs[j + 1], 1, o)
       /\ Reads(rest, Drop(segs[j + 1], o), Rest(segs, ending, j + 1))

\* Where a segment is left behind
Onward(segs, ending, j, rest, j2, k2, rest2) ==
    /\ Len(rest2) < Len(rest) /\ j2 \in {j, j + 1}
    /\ \E o2 : Spot(segs, ending, j2, o2, k2, rest2) /\ (j2 = j + 1 => o2 = 0)

\* The beginning of a segment is a spot on the way.
LEMMA SpotAt ==
    ASSUME NEW segs, Sound(segs), NEW ending \in Endings, NEW i \in 0 .. Len(segs)
    PROVE  Spot(segs, ending, i, 0, Key(segs, i), Rest(segs, ending, i))
  <1>1. Segments(segs) /\ Len(segs) \in Nat /\ segs \in Seq(Seq(STRING))
    BY SoundSegments DEF Sound
  <1>2. CASE i = Len(segs)
    BY <1>2 DEF Spot, Rest
  <1>3. CASE i # Len(segs)
    <2>1. i \in 0 .. Len(segs) - 1 /\ i + 1 \in 1 .. Len(segs)
      BY <1>1, <1>3
    <2>2. segs[i + 1] \in Seq(STRING) /\ segs[i + 1] # << >>
      BY <1>1, <2>1 DEF Segments
    <2>3. Drop(segs[i + 1], 0) = segs[i + 1] /\ SubSeq(segs[i + 1], 1, 0) = << >> /\ 0 \in 0 .. Len(segs[i + 1]) - 1
      <3>1. Len(segs[i + 1]) \in Nat /\ Len(segs[i + 1]) # 0
        BY <2>2
      <3> QED BY <2>2, <3>1, SubSeqFull DEF Drop
    <2>4. Key(segs, i) \o << >> = Key(segs, i)
      <3>1. Key(segs, i) \in Seq(STRING)
        BY <1>1, KeyIs
      <3> QED BY <3>1, ConcatEmptySeq
    <2>5. Reads(Rest(segs, ending, i), segs[i + 1], Rest(segs, ending, i + 1))
      BY <1>1, <2>1, RestReads
    <2> QED BY <2>1, <2>3, <2>4, <2>5 DEF Spot
  <1> QED BY <1>2, <1>3

\* Some symbols further on
LEMMA SpotOn ==
    ASSUME NEW segs, Sound(segs), NEW ending \in Endings, NEW j \in 0 .. Len(segs) - 1,
           NEW o \in 0 .. Len(segs[j + 1]) - 1, NEW k, NEW rest,
           Spot(segs, ending, j, o, k, rest), NEW n \in 1 .. Len(segs[j + 1]) - o
    PROVE  \E j2 : Onward(segs, ending, j, rest, j2, k \o SubSeq(Drop(segs[j + 1], o), 1, n),
                          SkipSlash(Drop(rest, n)))
  <1> DEFINE s == segs[j + 1]
             d == Drop(s, o)
             next == Rest(segs, ending, j + 1)
             K == Key(segs, j)
  <1>1. /\ Segments(segs) /\ Len(segs) \in Nat /\ segs \in Seq(Seq(STRING)) /\ j # Len(segs)
        /\ j \in 0 .. Len(segs) /\ j + 1 \in 1 .. Len(segs)
    <2>1. Segments(segs) /\ Len(segs) \in Nat /\ segs \in Seq(Seq(STRING))
      BY SoundSegments DEF Sound
    <2> QED BY <2>1
  <1>2. s \in Seq(STRING) /\ Len(s) \in Nat
    BY <1>1
  <1>3. k = K \o SubSeq(s, 1, o) /\ Reads(rest, d, next)
    BY <1>1 DEF Spot
  <1>4. /\ d \in Seq(STRING) /\ Len(d) = Len(s) - o /\ \A i \in 1 .. Len(s) - o : d[i] = s[o + i]
        /\ SubSeq(s, 1, o) \in Seq(STRING) /\ Len(SubSeq(s, 1, o)) = o
        /\ \A i \in 1 .. o : SubSeq(s, 1, o)[i] = s[i]
    <2>1. o \in 0 .. Len(s)
      BY <1>2
    <2> HIDE DEF s
    <2> QED BY <1>2, <2>1, DropIs
  <1>5. K \in Seq(STRING) /\ Key(segs, j + 1) = K \o s
    BY <1>1, KeyIs
  <1>6. n \in 1 .. Len(d) /\ o + n \in 0 .. Len(s) /\ o \in Nat /\ n \in Nat
    <2> HIDE DEF d
    <2> QED BY <1>2, <1>4
  <1>7. k \o SubSeq(d, 1, n) = K \o SubSeq(s, 1, o + n)
    <2> DEFINE a == SubSeq(s, 1, o)
               b == SubSeq(d, 1, n)
               c == SubSeq(s, 1, o + n)
    <2>1. a \in Seq(STRING) /\ Len(a) = o /\ \A i \in 1 .. o : a[i] = s[i]
      BY <1>4
    <2>2. b \in Seq(STRING) /\ Len(b) = n /\ \A i \in 1 .. n : b[i] = d[i]
      <3> HIDE DEF d
      <3> QED BY <1>4, <1>6
    <2>3. c \in Seq(STRING) /\ Len(c) = o + n /\ \A i \in 1 .. o + n : c[i] = s[i]
      <3> HIDE DEF s
      <3> QED BY <1>2, <1>6
    <2>4. \A i \in 1 .. n : b[i] = s[o + i]
      <3>1. \A i \in 1 .. n : i \in 1 .. Len(s) - o
        BY <1>2, <1>6
      <3> QED BY <1>4, <2>2, <3>1
    <2> HIDE DEF a, b, c, K, s, d
    <2>5. a \o b = c
      <3>1. a \o b \in Seq(STRING) /\ Joined(a \o b, a, b)
        BY <2>1, <2>2, Join
      <3>2. /\ Len(a \o b) = o + n /\ \A i \in 1 .. o : (a \o b)[i] = a[i]
            /\ \A i \in 1 .. n : (a \o b)[o + i] = b[i]
        BY <2>1, <2>2, <3>1 DEF Joined
      <3>3. ASSUME NEW i \in 1 .. o + n PROVE (a \o b)[i] = c[i]
        <4>1. CASE i <= o
          <5>1. i \in 1 .. o
            BY <1>6, <4>1
          <5> QED BY <2>1, <2>3, <3>2, <5>1
        <4>2. CASE ~(i <= o)
          <5>1. i - o \in 1 .. n /\ o + (i - o) = i
            BY <1>6, <4>2
          <5>2. b[i - o] = s[o + (i - o)]
            BY <2>4, <5>1
          <5> QED BY <2>3, <3>2, <5>1, <5>2
        <4> QED BY <4>1, <4>2
      <3> QED BY <2>3, <3>1, <3>2, <3>3, SeqEqual
    <2>6. (K \o a) \o b = K \o (a \o b)
      <3>1. K \in Seq(STRING) /\ a \in Seq(STRING) /\ b \in Seq(STRING)
        BY <1>5, <2>1, <2>2
      <3>2. Associates(K, a, b)
        BY <3>1, Associativity
      <3> QED BY <3>2 DEF Associates
    <2>7. k \o b = K \o c
      BY <1>3, <2>5, <2>6 DEF a, s
    <2> QED BY <2>7 DEF b, c, K, s, d
  <1> DEFINE k2 == k \o SubSeq(d, 1, n)
             rest2 == SkipSlash(Drop(rest, n))
  <1>8. CASE n < Len(d)
    <2>1. n \in 1 .. Len(d) - 1
      <3> HIDE DEF d
      <3> QED BY <1>4, <1>6, <1>8
    <2>2. /\ rest2 = Drop(rest, n) /\ Reads(Drop(rest, n), Drop(d, n), next)
          /\ Len(Drop(rest, n)) < Len(rest)
      <3> HIDE DEF d, next
      <3> QED BY <1>3, <2>1, ReadsPart
    <2>3. o + n \in 0 .. Len(s) - 1
      <3> HIDE DEF d, s
      <3> QED BY <1>2, <1>4, <1>6, <1>8
    <2>4. Drop(d, n) = Drop(s, o + n)
      <3> DEFINE a == Drop(d, n)
                 b == Drop(s, o + n)
      <3>1. a \in Seq(STRING) /\ Len(a) = Len(d) - n /\ \A i \in 1 .. Len(d) - n : a[i] = d[n + i]
        <4>1. n \in 0 .. Len(d)
          <5> HIDE DEF d
          <5> QED BY <2>1
        <4>2. d \in Seq(STRING)
          BY <1>4
        <4> HIDE DEF d
        <4> QED BY <4>1, <4>2, DropIs
      <3>2. b \in Seq(STRING) /\ Len(b) = Len(s) - (o + n) /\ \A i \in 1 .. Len(s) - (o + n) : b[i] = s[(o + n) + i]
        <4> HIDE DEF s
        <4> QED BY <1>2, <1>6, DropIs
      <3> HIDE DEF a, b, d, s
      <3>3. Len(a) = Len(b) /\ \A i \in 1 .. Len(a) : a[i] = b[i]
        <4>1. Len(a) = Len(b) /\ Len(a) = Len(s) - (o + n)
          BY <1>2, <1>4, <1>6, <3>1, <3>2
        <4>2. ASSUME NEW i \in 1 .. Len(a) PROVE a[i] = b[i]
          <5>1. n + i \in 1 .. Len(s) - o /\ o + (n + i) = (o + n) + i /\ i \in 1 .. Len(d) - n
                /\ i \in 1 .. Len(s) - (o + n)
            BY <1>2, <1>4, <1>6, <3>1, <4>1
          <5> QED BY <1>4, <3>1, <3>2, <5>1
        <4> QED BY <4>1, <4>2
      <3>4. a = b
        BY <3>1, <3>2, <3>3, SeqEqual
      <3> QED BY <3>4 DEF a, b
    <2>5. Spot(segs, ending, j, o + n, k2, rest2)
      <3> HIDE DEF d
      <3> QED BY <1>7, <2>2, <2>3, <2>4 DEF Spot
    <2>6. Onward(segs, ending, j, rest, j, k2, rest2)
      <3>1. j # j + 1
        OBVIOUS
      <3> HIDE DEF k2, rest2
      <3> QED BY <2>2, <2>5, <3>1 DEF Onward, rest2
    <2> QED BY <2>6
  <1>9. CASE n = Len(d)
    <2>1. rest2 = next /\ Len(next) < Len(rest)
      <3> HIDE DEF d, next
      <3> QED BY <1>3, <1>9, ReadsWhole
    <2>2. o + n = Len(s)
      <3> HIDE DEF d, s
      <3> QED BY <1>2, <1>4, <1>6, <1>9
    <2>3. SubSeq(s, 1, o + n) = s
      BY <1>2, <2>2, SubSeqFull
    <2>4. k2 = Key(segs, j + 1)
      BY <1>5, <1>7, <2>3
    <2>5. Spot(segs, ending, j + 1, 0, k2, rest2)
      <3>1. j + 1 \in 0 .. Len(segs)
        BY <1>1
      <3> HIDE DEF k2, rest2
      <3> QED BY <2>1, <2>4, <3>1, SpotAt
    <2>6. Onward(segs, ending, j, rest, j + 1, k2, rest2)
      <3> HIDE DEF k2, rest2
      <3> QED BY <2>1, <2>5 DEF Onward
    <2> QED BY <2>6
  <1>10. n < Len(d) \/ n = Len(d)
    <2> HIDE DEF d
    <2> QED BY <1>6
  <1> QED BY <1>8, <1>9, <1>10

\* What stood at a key still does, and nothing has come to stand at one.
Grown(t, key, t2, key2) ==
    /\ \A x \in 1 .. Len(t) : \E y \in 1 .. Len(t2) : key2[y] = key[x] /\ t2[y].chain = t[x].chain
    /\ \A y \in 1 .. Len(t2) : \/ t2[y].chain = NoChains
                               \/ \E x \in 1 .. Len(t) : key[x] = key2[y] /\ t[x].chain = t2[y].chain

\* One call of insert has gone on to node at2 of t2.
Went(t, key, segs, ending, j, rest, t2, at2, rest2) ==
    /\ at2 \in 1 .. Len(t2) /\ (rest2 # << >> => t2[at2].kind # "catchAll")
    /\ \E key2, j2 : /\ Keyed(t2, key2) /\ Grown(t, key, t2, key2)
                     /\ Onward(segs, ending, j, rest, j2, key2[at2], rest2)

\* A trie that is left alone has grown.
LEMMA GrownItself == ASSUME NEW t, NEW key PROVE Grown(t, key, t, key)
  BY DEF Grown

\* Into a new node
LEMMA AppendGoes ==
    ASSUME NEW t, NEW key, Keyed(t, key), NEW n, Free(t, n), n.chain = NoChains,
           NEW segs, NEW ending, NEW j, NEW rest, NEW j2, NEW rest2,
           Onward(segs, ending, j, rest, j2, key[n.parent] \o Label(n), rest2),
           rest2 # << >> => n.kind # "catchAll"
    PROVE  Went(t, key, segs, ending, j, rest, Append(t, n), Len(t) + 1, rest2)
  <1> DEFINE N == Len(t)
             t2 == Append(t, n)
             key2 == Longer(t, key, n)
  <1>1. N \in Nat /\ t \in Seq(NodeRecords) /\ n \in NodeRecords
    BY KeyedTypes DEF Keyed, Hangs, Free
  <1>2. t2[N + 1] = n /\ Len(t2) = N + 1 /\ \A x \in 1 .. N : t2[x] = t[x]
    BY <1>1
  <1>3. key2[N + 1] = key[n.parent] \o Label(n) /\ \A x \in 1 .. N : key2[x] = key[x]
    BY <1>1 DEF Longer
  <1>4. Keyed(t2, key2)
    BY NewChild
  <1> HIDE DEF t2, key2
  <1>5. Grown(t, key, t2, key2)
    <2> HIDE DEF N
    <2>1. \A x \in 1 .. N : x \in 1 .. N + 1
      BY <1>1
    <2>2. \A y \in 1 .. N + 1 : y = N + 1 \/ y \in 1 .. N
      BY <1>1
    <2>3. ASSUME NEW x \in 1 .. N
          PROVE  \E y \in 1 .. N + 1 : key2[y] = key[x] /\ t2[y].chain = t[x].chain
      BY <1>2, <1>3, <2>1
    <2>4. ASSUME NEW y \in 1 .. N + 1
          PROVE  t2[y].chain = NoChains \/ \E x \in 1 .. N : key[x] = key2[y] /\ t[x].chain = t2[y].chain
      BY <1>2, <1>3, <2>2
    <2> QED BY <1>2, <2>3, <2>4 DEF Grown, N
  <1>6. N + 1 \in 1 .. Len(t2) /\ (rest2 # << >> => t2[N + 1].kind # "catchAll")
    BY <1>1, <1>2
  <1>7. Onward(segs, ending, j, rest, j2, key2[N + 1], rest2)
    BY <1>3
  <1>8. Went(t, key, segs, ending, j, rest, t2, N + 1, rest2)
    BY <1>4, <1>5, <1>6, <1>7 DEF Went
  <1> QED BY <1>8 DEF t2

\* Into a child that is there
LEMMA ChildGoes ==
    ASSUME NEW t, NEW key, Keyed(t, key), NEW c \in 2 .. Len(t),
           NEW segs, NEW ending, NEW j, NEW rest, NEW j2, NEW rest2,
           Onward(segs, ending, j, rest, j2, key[t[c].parent] \o Label(t[c]), rest2),
           t[c].kind # "catchAll"
    PROVE  Went(t, key, segs, ending, j, rest, t, c, rest2)
  <1>1. Parented(t, key, c, t[c].parent)
    BY Child
  <1>2. key[c] = key[t[c].parent] \o Label(t[c])
    <2>1. Label(t[c]) \in Seq(STRING) /\ Joined(key[c], key[t[c].parent], Label(t[c]))
          /\ key[t[c].parent] \in Seq(STRING) /\ key[c] \in Seq(STRING)
      <3>1. t[c] \in NodeRecords /\ Labelled(t[c])
        BY <1>1 DEF Parented
      <3>2. Label(t[c]) \in Seq(STRING)
        BY <3>1, LabelType
      <3> QED BY <1>1, <3>2 DEF Parented
    <2> QED BY <2>1, Join
  <1>3. c \in 1 .. Len(t)
    BY <1>1 DEF Parented
  <1>4. Onward(segs, ending, j, rest, j2, key[c], rest2)
    BY <1>2
  <1> QED BY <1>3, <1>4, GrownItself DEF Went

\* Into the upper half of a child that is split
LEMMA SplitGoes ==
    ASSUME NEW t, NEW key, Keyed(t, key), NEW c \in 2 .. Len(t), t[c].kind = "static",
           NEW n \in 1 .. Len(t[c].path) - 1,
           NEW segs, NEW ending, NEW j, NEW rest, NEW j2, NEW rest2,
           Onward(segs, ending, j, rest, j2, key[t[c].parent] \o SubSeq(t[c].path, 1, n), rest2)
    PROVE  Went(t, key, segs, ending, j, rest, Split(t, c, n), c, rest2)
  <1> DEFINE N == Len(t)
             p == t[c].parent
             l == t[c].path
             t2 == Split(t, c, n)
             key2 == Cut(t, key, c, n)
             h == SubSeq(l, 1, n)
  <1>1. Parented(t, key, c, p)
    BY Child
  <1>2. /\ t[c] \in NodeRecords /\ Labelled(t[c]) /\ key[c] \in Seq(STRING) /\ key[p] \in Seq(STRING)
        /\ Len(key[c]) \in Nat /\ Len(key[p]) \in Nat /\ c \in 1 .. N /\ Label(t[c]) = l
        /\ Joined(key[c], key[p], l)
    BY <1>1 DEF Parented, Label
  <1>3. t \in Seq(NodeRecords) /\ N \in Nat
    BY DEF Keyed, Hangs
  <1>4. Halved(t, t2, c, n)
    BY <1>2, <1>3, SplitHalves
  <1>5. Keyed(t2, key2)
    BY <1>4, SplitKeyed
  <1>6. /\ key2[c] = SubSeq(key[c], 1, Len(key[p]) + n) /\ key2[N + 1] = key[c]
        /\ \A x \in 1 .. N : x # c => key2[x] = key[x]
    <2>1. N + 1 # c /\ N + 1 \in 1 .. N + 1 /\ c \in 1 .. N + 1 /\ \A x \in 1 .. N : x # N + 1 /\ x \in 1 .. N + 1
      BY <1>2, <1>3
    <2> HIDE DEF N
    <2> QED BY <2>1 DEF Cut, N
  <1>7. /\ Len(t2) = N + 1 /\ t2[c].chain = NoChains /\ t2[c].kind = "static" /\ t2[N + 1].chain = t[c].chain
        /\ \A x \in 1 .. N : x # c => t2[x].chain = t[x].chain
    BY <1>4 DEF Halved, Made, Kept
  <1> HIDE DEF t2, key2
  <1>8. Grown(t, key, t2, key2)
    <2>1. ASSUME NEW x \in 1 .. N
          PROVE  \E y \in 1 .. N + 1 : key2[y] = key[x] /\ t2[y].chain = t[x].chain
      <3>1. x \in 1 .. N + 1 /\ N + 1 \in 1 .. N + 1
        BY <1>3
      <3> QED BY <1>6, <1>7, <3>1
    <2>2. ASSUME NEW y \in 1 .. N + 1
          PROVE  t2[y].chain = NoChains \/ \E x \in 1 .. N : key[x] = key2[y] /\ t[x].chain = t2[y].chain
      <3>1. y = N + 1 \/ y \in 1 .. N
        BY <1>3
      <3> QED BY <1>2, <1>6, <1>7, <3>1
    <2> HIDE DEF N
    <2> QED BY <1>7, <2>1, <2>2 DEF Grown, N
  <1>9. key2[c] = key[p] \o h
    <2>1. l \in Seq(STRING) /\ n \in 1 .. Len(l) /\ Len(l) \in Nat
      <3>1. l \in Seq(STRING)
        BY <1>2 DEF Labelled, Letters
      <3> HIDE DEF l
      <3> QED BY <3>1 DEF l
    <2>2. h \in Seq(STRING) /\ Len(h) = n /\ \A i \in 1 .. n : h[i] = l[i]
      <3> HIDE DEF l
      <3> QED BY <2>1
    <2>3. Len(key[p]) + n \in 0 .. Len(key[c]) /\ Len(key[c]) = Len(key[p]) + Len(l)
      <3>1. Len(key[c]) = Len(key[p]) + Len(l)
        BY <1>2 DEF Joined
      <3> HIDE DEF l, p
      <3> QED BY <1>2, <2>1, <3>1
    <2>4. /\ key2[c] \in Seq(STRING) /\ Len(key2[c]) = Len(key[p]) + n
          /\ \A i \in 1 .. Len(key[p]) + n : key2[c][i] = key[c][i]
      <3> DEFINE a == SubSeq(key[c], 1, Len(key[p]) + n)
      <3>1. a \in Seq(STRING) /\ Len(a) = Len(key[p]) + n /\ \A i \in 1 .. Len(key[p]) + n : a[i] = key[c][i]
        <4> DEFINE k == key[c]
                   m == Len(key[p]) + n
        <4>1. k \in Seq(STRING) /\ m \in 0 .. Len(k)
          BY <1>2, <2>3
        <4> HIDE DEF k, m
        <4>2. SubSeq(k, 1, m) \in Seq(STRING) /\ Len(SubSeq(k, 1, m)) = m /\ \A i \in 1 .. m : SubSeq(k, 1, m)[i] = k[i]
          BY <4>1
        <4> QED BY <4>2 DEF k, m
      <3> HIDE DEF a, p, N
      <3> QED BY <1>6, <3>1 DEF a
    <2>5. Joined(key2[c], key[p], h)
      <3>1. \A i \in 1 .. Len(key[p]) : key[c][i] = key[p][i] /\ i \in 1 .. Len(key[p]) + n
        BY <1>2, <2>1, <2>3 DEF Joined
      <3>2. \A i \in 1 .. n : i \in 1 .. Len(l) /\ Len(key[p]) + i \in 1 .. Len(key[p]) + n
        BY <1>2, <2>1
      <3>3. \A i \in 1 .. Len(l) : key[c][Len(key[p]) + i] = l[i]
        BY <1>2 DEF Joined
      <3> HIDE DEF h, p, l
      <3> QED BY <2>2, <2>4, <3>1, <3>2, <3>3 DEF Joined
    <2> HIDE DEF h
    <2> QED BY <1>2, <2>2, <2>4, <2>5, Join
  <1>10. c \in 1 .. Len(t2)
    BY <1>2, <1>3, <1>7
  <1>11. Onward(segs, ending, j, rest, j2, key2[c], rest2)
    BY <1>9
  <1>12. Went(t, key, segs, ending, j, rest, t2, c, rest2)
    BY <1>5, <1>7, <1>8, <1>10, <1>11 DEF Went
  <1> QED BY <1>12 DEF t2

\* What is to come at a spot: the rest d of a segment, all of letters or one
\* symbol, then next.
Facing(segs, ending, j, k, rest, d, next) ==
    /\ Reads(rest, d, next) /\ rest # << >> /\ Head(rest) = d[1] /\ Len(d) \in Nat /\ Len(d) >= 1
    /\ \A n \in 1 .. Len(d) :
          \E j2 : Onward(segs, ending, j, rest, j2, k \o SubSeq(d, 1, n), SkipSlash(Drop(rest, n)))
    /\ \/ \A n \in 1 .. Len(d) : d[n] \in Letters
       \/ Len(d) = 1 /\ d[1] \in ParamSyms
       \/ Len(d) = 1 /\ d[1] \in CatchAlls /\ next = << >>

\* A spot before the end of a pattern faces letters or one symbol.
LEMMA SpotFaces ==
    ASSUME NEW segs, Sound(segs), NEW ending \in Endings, NEW j, NEW o, NEW k, NEW rest,
           Spot(segs, ending, j, o, k, rest), rest # << >>
    PROVE  \E d, next : Facing(segs, ending, j, k, rest, d, next)
  <1> DEFINE s == segs[j + 1]
             d == Drop(s, o)
             next == Rest(segs, ending, j + 1)
  <1>1. j \in 0 .. Len(segs) - 1 /\ o \in 0 .. Len(s) - 1 /\ Reads(rest, d, next)
    BY DEF Spot
  <1>2. segs \in Seq(Seq(STRING)) /\ Len(segs) \in Nat /\ j + 1 \in 1 .. Len(segs)
    <2>1. segs \in Seq(Seq(STRING)) /\ Len(segs) \in Nat
      BY SoundSegments DEF Sound
    <2> QED BY <1>1, <2>1
  <1>3. s \in Seq(STRING) /\ Len(s) \in Nat /\ o \in 0 .. Len(s) /\ o \in Nat
    BY <1>1, <1>2
  <1>4. d \in Seq(STRING) /\ Len(d) = Len(s) - o /\ \A i \in 1 .. Len(s) - o : d[i] = s[o + i]
    <2> HIDE DEF s
    <2> QED BY <1>3, DropIs
  <1>5. Len(d) \in Nat /\ Len(d) >= 1
    <2> HIDE DEF s, d
    <2> QED BY <1>1, <1>3, <1>4
  <1>6. Head(rest) = d[1]
    <2>1. Laid(rest, d, next)
      BY <1>1, ReadsLaid
    <2> HIDE DEF d, next
    <2>2. rest[1] = d[1] /\ rest \in Seq(Symbols)
      BY <1>1, <1>5, <2>1 DEF Laid, Reads
    <2> QED BY <2>2
  <1>7. ASSUME NEW n \in 1 .. Len(d)
        PROVE  \E j2 : Onward(segs, ending, j, rest, j2, k \o SubSeq(d, 1, n), SkipSlash(Drop(rest, n)))
    <2>1. n \in 1 .. Len(s) - o
      BY <1>4
    <2> HIDE DEF Spot
    <2> QED BY <1>1, <2>1, SpotOn
  <1>8. \/ \A n \in 1 .. Len(d) : d[n] \in Letters
        \/ Len(d) = 1 /\ d[1] \in ParamSyms
        \/ Len(d) = 1 /\ d[1] \in CatchAlls /\ next = << >>
    <2>1. CASE \A n \in 1 .. Len(s) : s[n] \in Letters
      <3>1. \A n \in 1 .. Len(s) - o : o + n \in 1 .. Len(s)
        <4> HIDE DEF s
        <4> QED BY <1>3
      <3>2. \A n \in 1 .. Len(d) : d[n] \in Letters
        <4> HIDE DEF d, s
        <4> QED BY <1>4, <2>1, <3>1
      <3> QED BY <3>2
    <2>2. CASE Len(s) = 1
      <3>1. o = 0
        <4> HIDE DEF s
        <4> QED BY <1>1, <2>2
      <3>2. Len(d) = 1 /\ d[1] = s[1]
        <4> HIDE DEF d, s
        <4> QED BY <1>4, <2>2, <3>1
      <3>3. j + 1 = Len(segs) => next = << >>
        BY DEF Rest
      <3>4. \/ \A n \in 1 .. Len(s) : s[n] \in Letters
            \/ s[1] \in ParamSyms
            \/ s[1] \in CatchAlls /\ j + 1 = Len(segs)
        BY <1>2 DEF Sound
      <3> HIDE DEF d, s, next
      <3> QED BY <2>1, <3>2, <3>3, <3>4 DEF d, s
    <2>3. (\A n \in 1 .. Len(s) : s[n] \in Letters) \/ Len(s) = 1
      BY <1>2 DEF Sound
    <2> QED BY <2>1, <2>2, <2>3
  <1>9. Facing(segs, ending, j, k, rest, d, next)
    <2> HIDE DEF d, next
    <2> QED BY <1>1, <1>5, <1>6, <1>7, <1>8 DEF Facing
  <1> QED BY <1>9

\* A node for a parameter or a catch-all
LEMMA NodeNamed ==
    ASSUME NEW parent \in Nat, NEW kind \in {"param", "catchAll"}, NEW name \in STRING,
           kind = "param" => name \in ParamSyms, kind = "catchAll" => name \in CatchAlls
    PROVE  LET n == Node(parent, kind, << >>, name)
           IN  /\ n \in NodeRecords /\ Labelled(n) /\ n.parent = parent /\ n.kind = kind
               /\ n.name = name /\ Label(n) = << name >> /\ n.chain = NoChains
  <1> DEFINE n == Node(parent, kind, << >>, name)
             Chains == [ToSet(Methods) -> Seq(Entries)]
             Names == STRING \cup {"none"}
  <1>1. NoChains \in Chains
    <2>1. << >> \in Seq(Entries)
      OBVIOUS
    <2> QED BY <2>1, Zenon DEF NoChains
  <1>2. /\ n.parent = parent /\ n.kind = kind /\ n.path = << >> /\ n.name = name
        /\ n.chain = NoChains
    BY DEF Node
  <1>3. n \in NodeRecords
    <2>1. << >> \in Seq(Symbols) /\ name \in Names /\ kind \in {"static", "param", "catchAll"}
      OBVIOUS
    <2> HIDE DEF Chains, Names
    <2>2. NodeRecords = [parent : Nat, kind : {"static", "param", "catchAll"}, path : Seq(Symbols),
                         name : Names, chain : Chains]
      BY DEF NodeRecords, Chains, Names
    <2> QED BY <1>1, <2>1, <2>2, Zenon DEF Node
  <1>4. kind # "static"
    OBVIOUS
  <1>5. Label(n) = << name >>
    BY <1>2, <1>4 DEF Label
  <1>6. Labelled(n)
    <2> HIDE DEF n
    <2> QED BY <1>2, <1>4, Zenon DEF Labelled
  <1> QED BY <1>2, <1>3, <1>5, <1>6

\* The children of a node are later nodes that name it.
LEMMA ChildrenAre ==
    ASSUME NEW t, NEW key, Keyed(t, key), NEW at \in 1 .. Len(t), NEW kind
    PROVE  /\ Children(t, at, kind) \subseteq Nat
           /\ \A c : c \in Children(t, at, kind) <=> c \in 2 .. Len(t) /\ t[c].parent = at /\ t[c].kind = kind
  <1>1. DOMAIN t = 1 .. Len(t) /\ Len(t) \in Nat /\ t[1].parent = 0 /\ at # 0
    BY KeyedTypes DEF Keyed, Hangs
  <1>2. \A c : c \in 1 .. Len(t) /\ t[c].parent = at <=> c \in 2 .. Len(t) /\ t[c].parent = at
    BY <1>1
  <1>3. \A c : c \in Children(t, at, kind) <=> c \in 1 .. Len(t) /\ t[c].parent = at /\ t[c].kind = kind
    BY <1>1 DEF Children
  <1>4. Children(t, at, kind) \subseteq Nat
    BY <1>1, <1>3
  <1> QED BY <1>2, <1>3, <1>4

\* A sequence of one element
LEMMA OneSymbol ==
    ASSUME NEW d \in Seq(STRING), Len(d) = 1
    PROVE  d = << d[1] >> /\ SubSeq(d, 1, 1) = << d[1] >>
  <1>1. d = << d[1] >>
    OBVIOUS
  <1>2. SubSeq(d, 1, 1) = d
    BY SubSeqFull
  <1> QED BY <1>1, <1>2

\* How one call of insert may end for a path that is not empty
Proceeds(t, key, segs, ending, j, rest, r) ==
    \/ r = Threw(t)
    \/ \E t2, at2, rest2 : r = Goes(t2, at2, rest2) /\ Went(t, key, segs, ending, j, rest, t2, at2, rest2)

\* At a parameter
LEMMA ParamProceeds ==
    ASSUME NEW t, NEW key, Keyed(t, key), NEW at \in 1 .. Len(t), t[at].kind # "catchAll",
           NEW segs, NEW ending, NEW j, NEW rest, NEW d, NEW next,
           Facing(segs, ending, j, key[at], rest, d, next), Len(d) = 1, d[1] \in ParamSyms
    PROVE  Proceeds(t, key, segs, ending, j, rest, InsertParam(t, at, rest))
  <1> DEFINE sym == Head(rest)
             params == Children(t, at, "param")
             rest2 == Drop(rest, Before(rest, {"/"}) + 1)
             n == Node(at, "param", << >>, sym)
  <1>1. sym = d[1] /\ sym \in ParamSyms /\ sym \in STRING
    BY RouterAssumption DEF Facing
  <1>2. rest2 = next /\ SkipSlash(Drop(rest, 1)) = next
    <2>1. Reads(rest, d, next)
      BY DEF Facing
    <2> QED BY <2>1, ReadsWhole
  <1>3. d = << sym >> /\ SubSeq(d, 1, 1) = << sym >>
    <2>1. d \in Seq(STRING)
      BY DEF Facing, Reads
    <2>2. d = << d[1] >> /\ SubSeq(d, 1, 1) = << d[1] >>
      BY <2>1, OneSymbol
    <2> QED BY <1>1, <2>2
  <1>4. PICK j2 : Onward(segs, ending, j, rest, j2, key[at] \o << sym >>, rest2)
    <2>1. 1 \in 1 .. Len(d)
      OBVIOUS
    <2>2. \E j2 : Onward(segs, ending, j, rest, j2, key[at] \o SubSeq(d, 1, 1), SkipSlash(Drop(rest, 1)))
      BY <2>1 DEF Facing
    <2> QED BY <1>2, <1>3, <2>2
  <1>5. /\ params \subseteq Nat
        /\ \A c : c \in params <=> c \in 2 .. Len(t) /\ t[c].parent = at /\ t[c].kind = "param"
    BY ChildrenAre
  <1>6. ASSUME NEW c \in 2 .. Len(t), t[c].kind = "param"
        PROVE  Label(t[c]) = << t[c].name >>
    BY <1>6 DEF Label
  <1> HIDE DEF rest2, sym, params
  <1>7. InsertParam(t, at, rest) =
            IF params = {} THEN InsertNew(t, n, rest2)
            ELSE IF t[Min(params)].name # sym THEN Threw(t) ELSE Goes(t, Min(params), rest2)
    BY DEF InsertParam, rest2, sym, params
  <1>8. CASE params = {}
    <2>1. /\ n \in NodeRecords /\ Labelled(n) /\ n.parent = at /\ n.kind = "param"
          /\ Label(n) = << sym >> /\ n.chain = NoChains
      <3>1. at \in Nat
        BY KeyedTypes
      <3> QED BY <1>1, <3>1, NodeNamed
    <2> HIDE DEF n
    <2>2. Free(t, n)
      <3>1. ASSUME NEW c \in 2 .. Len(t), t[c].parent = at
            PROVE  Label(t[c])[1] # Label(n)[1] /\ t[c].kind # "param"
        <4>1. t[c].kind # "param"
          BY <1>5, <1>8, <3>1
        <4>2. t[c] \in NodeRecords /\ Labelled(t[c])
          BY Child DEF Parented
        <4>3. Label(t[c])[1] \notin ParamSyms
          BY <4>1, <4>2, LabelType
        <4>4. Label(n)[1] = sym
          BY <2>1
        <4> QED BY <1>1, <4>1, <4>3, <4>4
      <3> QED BY <2>1, <3>1 DEF Free
    <2>3. Went(t, key, segs, ending, j, rest, Append(t, n), Len(t) + 1, rest2)
      BY <1>4, <2>1, <2>2, AppendGoes
    <2>4. InsertParam(t, at, rest) = Goes(Append(t, n), Len(t) + 1, rest2)
      BY <1>7, <1>8 DEF InsertNew
    <2> QED BY <2>3, <2>4 DEF Proceeds
  <1>9. CASE params # {} /\ t[Min(params)].name = sym
    <2>1. Min(params) \in params
      BY <1>5, <1>9, Least
    <2> DEFINE c == Min(params)
    <2>2. c \in 2 .. Len(t) /\ t[c].parent = at /\ t[c].kind = "param" /\ Label(t[c]) = << sym >>
      BY <1>5, <1>6, <1>9, <2>1
    <2> HIDE DEF c
    <2>3. Went(t, key, segs, ending, j, rest, t, c, rest2)
      BY <1>4, <2>2, ChildGoes
    <2>4. InsertParam(t, at, rest) = Goes(t, c, rest2)
      BY <1>7, <1>9 DEF c
    <2> QED BY <2>3, <2>4 DEF Proceeds
  <1>10. CASE params # {} /\ t[Min(params)].name # sym
    BY <1>7, <1>10 DEF Proceeds
  <1> QED BY <1>8, <1>9, <1>10

\* At a catch-all
LEMMA CatchAllProceeds ==
    ASSUME NEW t, NEW key, Keyed(t, key), NEW at \in 1 .. Len(t), t[at].kind # "catchAll",
           NEW segs, NEW ending, NEW j, NEW rest, NEW d, NEW next,
           Facing(segs, ending, j, key[at], rest, d, next), Len(d) = 1, d[1] \in CatchAlls, next = << >>
    PROVE  Proceeds(t, key, segs, ending, j, rest, InsertCatchAll(t, at, rest))
  <1> DEFINE sym == Head(rest)
             all == Children(t, at, "catchAll")
             n == Node(at, "catchAll", << >>, sym)
  <1>1. sym = d[1] /\ sym \in CatchAlls /\ sym \in STRING
    BY RouterAssumption DEF Facing
  <1>2. SkipSlash(Drop(rest, 1)) = << >>
    <2>1. Reads(rest, d, next)
      BY DEF Facing
    <2> QED BY <2>1, ReadsWhole
  <1>3. SubSeq(d, 1, 1) = << sym >>
    <2>1. d \in Seq(STRING)
      BY DEF Facing, Reads
    <2>2. SubSeq(d, 1, 1) = << d[1] >>
      BY <2>1, OneSymbol
    <2> QED BY <1>1, <2>2
  <1>4. PICK j2 : Onward(segs, ending, j, rest, j2, key[at] \o << sym >>, << >>)
    <2>1. 1 \in 1 .. Len(d)
      OBVIOUS
    <2>2. \E j2 : Onward(segs, ending, j, rest, j2, key[at] \o SubSeq(d, 1, 1), SkipSlash(Drop(rest, 1)))
      BY <2>1 DEF Facing
    <2> QED BY <1>2, <1>3, <2>2
  <1>5. \A c : c \in all <=> c \in 2 .. Len(t) /\ t[c].parent = at /\ t[c].kind = "catchAll"
    BY ChildrenAre
  <1> HIDE DEF sym, all
  <1>6. InsertCatchAll(t, at, rest) = IF all # {} THEN Threw(t) ELSE InsertNew(t, n, << >>)
    BY DEF InsertCatchAll, sym, all
  <1>7. CASE all = {}
    <2>1. /\ n \in NodeRecords /\ Labelled(n) /\ n.parent = at /\ n.kind = "catchAll"
          /\ Label(n) = << sym >> /\ n.chain = NoChains
      <3>1. at \in Nat
        BY KeyedTypes
      <3> QED BY <1>1, <3>1, NodeNamed
    <2> HIDE DEF n
    <2>2. Free(t, n)
      <3>1. ASSUME NEW c \in 2 .. Len(t), t[c].parent = at
            PROVE  Label(t[c])[1] # Label(n)[1] /\ t[c].kind # "catchAll"
        <4>1. t[c].kind # "catchAll"
          BY <1>5, <1>7, <3>1
        <4>2. t[c] \in NodeRecords /\ Labelled(t[c])
          BY Child DEF Parented
        <4>3. Label(t[c])[1] \notin CatchAlls
          BY <4>1, <4>2, LabelType
        <4>4. Label(n)[1] = sym
          BY <2>1
        <4> QED BY <1>1, <4>1, <4>3, <4>4
      <3> QED BY <2>1, <3>1 DEF Free
    <2>3. Onward(segs, ending, j, rest, j2, key[n.parent] \o Label(n), << >>)
      BY <1>4, <2>1
    <2>4. Went(t, key, segs, ending, j, rest, Append(t, n), Len(t) + 1, << >>)
      BY <2>1, <2>2, <2>3, AppendGoes
    <2>5. InsertCatchAll(t, at, rest) = Goes(Append(t, n), Len(t) + 1, << >>)
      BY <1>6, <1>7 DEF InsertNew
    <2> QED BY <2>4, <2>5 DEF Proceeds
  <1>8. CASE all # {}
    BY <1>6, <1>8 DEF Proceeds
  <1> QED BY <1>7, <1>8

\* What a child shares with what is to come
LEMMA CommonLabel ==
    ASSUME NEW l \in Seq(Letters), l # << >>, NEW rest, NEW d, NEW next, Reads(rest, d, next)
    PROVE  LET n == CommonPrefixLen(l, rest)
           IN  /\ n \in Nat /\ n <= Len(l) /\ n <= Len(d) /\ SubSeq(l, 1, n) = SubSeq(d, 1, n)
               /\ n > 0 <=> l[1] = d[1]
  <1> DEFINE n == CommonPrefixLen(l, rest)
             L == Len(d)
  <1>1. /\ rest \in Seq(Symbols) /\ d \in Seq(STRING) /\ Laid(rest, d, next)
        /\ Len(l) \in Nat /\ Len(l) >= 1 /\ \A i \in 1 .. Len(l) : l[i] \in Letters
    <2>1. rest \in Seq(Symbols) /\ d \in Seq(STRING) /\ Laid(rest, d, next)
      BY ReadsLaid DEF Reads
    <2>2. Len(l) \in Nat /\ Len(l) >= 1 /\ \A i \in 1 .. Len(l) : l[i] \in Letters
      OBVIOUS
    <2> QED BY <2>1, <2>2
  <1>2. l \in Seq(Symbols) /\ l \in Seq(STRING)
    <2>1. Letters \subseteq Symbols /\ Letters \subseteq STRING
      BY DEF Letters, Symbols
    <2> QED BY <2>1, SeqMonotonic
  <1>3. L \in Nat /\ Len(rest) \in Nat /\ L >= 1 /\ Len(rest) >= L /\ \A i \in 1 .. L : rest[i] = d[i]
    BY <1>1 DEF Laid
  <1>4. Len(rest) > L => rest[L + 1] = "/"
    <2>1. Len(rest) # L => rest[L + 1] = "/"
      BY <1>1 DEF Laid
    <2> QED BY <1>3, <2>1
  <1>5. /\ n \in 0 .. Len(l) /\ n \in 0 .. Len(rest) /\ \A i \in 1 .. n : l[i] = rest[i]
        /\ n < Len(l) /\ n < Len(rest) => l[n + 1] # rest[n + 1]
    <2> HIDE DEF n
    <2> QED BY <1>1, <1>2, CommonPrefix DEF n
  <1> HIDE DEF n, L
  <1>6. n <= L
    <2> SUFFICES ASSUME n > L PROVE FALSE
      BY <1>3, <1>5
    <2>1. L + 1 \in 1 .. n /\ L + 1 \in 1 .. Len(l) /\ Len(rest) > L
      BY <1>1, <1>3, <1>5
    <2>2. l[L + 1] = "/"
      BY <1>4, <1>5, <2>1
    <2>3. l[L + 1] \in Letters
      BY <1>1, <2>1
    <2> QED BY <2>2, <2>3 DEF Letters
  <1>7. SubSeq(l, 1, n) = SubSeq(d, 1, n)
    <2> DEFINE a == SubSeq(l, 1, n)
               b == SubSeq(d, 1, n)
    <2>1. a \in Seq(STRING) /\ Len(a) = n /\ \A i \in 1 .. n : a[i] = l[i]
      BY <1>1, <1>2, <1>5
    <2>2. b \in Seq(STRING) /\ Len(b) = n /\ \A i \in 1 .. n : b[i] = d[i]
      BY <1>1, <1>3, <1>5, <1>6 DEF L
    <2>3. \A i \in 1 .. n : l[i] = d[i]
      <3>1. \A i \in 1 .. n : i \in 1 .. L
        BY <1>3, <1>5, <1>6
      <3> QED BY <1>3, <1>5, <3>1
    <2> HIDE DEF a, b
    <2>4. a = b
      BY <2>1, <2>2, <2>3, SeqEqual
    <2> QED BY <2>4 DEF a, b
  <1>8. n > 0 <=> l[1] = d[1]
    <2>1. rest[1] = d[1]
      BY <1>3
    <2>2. n > 0 => l[1] = rest[1]
      BY <1>5
    <2>3. n = 0 => l[1] # rest[1]
      BY <1>1, <1>3, <1>5
    <2> QED BY <1>5, <2>1, <2>2, <2>3
  <1> QED BY <1>5, <1>6, <1>7, <1>8 DEF n, L

\* The letters to come end where the segment does.
LEMMA WholeWord ==
    ASSUME NEW rest, NEW d, NEW next, Reads(rest, d, next), \A i \in 1 .. Len(d) : d[i] \in Letters
    PROVE  Before(rest, ParamSyms \cup CatchAlls \cup {"/"}) = Len(d) /\ d \in Seq(Letters)
  <1> DEFINE S == ParamSyms \cup CatchAlls \cup {"/"}
             L == Len(d)
             b == Before(rest, S)
  <1>1. rest \in Seq(Symbols) /\ d \in Seq(STRING) /\ Laid(rest, d, next)
    BY ReadsLaid DEF Reads
  <1>2. L \in Nat /\ Len(rest) \in Nat /\ L >= 1 /\ Len(rest) >= L /\ \A i \in 1 .. L : rest[i] = d[i]
    BY <1>1 DEF Laid
  <1>3. Len(rest) > L => rest[L + 1] = "/"
    <2>1. Len(rest) # L => rest[L + 1] = "/"
      BY <1>1 DEF Laid
    <2> QED BY <1>2, <2>1
  <1>4. \A i \in 1 .. L : rest[i] \notin S
    BY <1>2 DEF Letters
  <1>5. b \in 0 .. Len(rest) /\ (\A i \in 1 .. b : rest[i] \notin S) /\ (b < Len(rest) => rest[b + 1] \in S)
    <2> HIDE DEF S
    <2> QED BY <1>1, BeforeIs
  <1>6. "/" \in S
    OBVIOUS
  <1> HIDE DEF b, L, S
  <1>7. ~(b < L)
    <2> SUFFICES ASSUME b < L PROVE FALSE
      OBVIOUS
    <2>1. b < Len(rest) /\ b + 1 \in 1 .. L
      BY <1>2, <1>5
    <2> QED BY <1>4, <1>5, <2>1
  <1>8. ~(b > L)
    <2> SUFFICES ASSUME b > L PROVE FALSE
      OBVIOUS
    <2>1. Len(rest) > L /\ L + 1 \in 1 .. b
      BY <1>2, <1>5
    <2> QED BY <1>3, <1>5, <1>6, <2>1
  <1>9. b = L
    BY <1>2, <1>5, <1>7, <1>8
  <1>10. d \in Seq(Letters)
    <2>1. d \in [1 .. Len(d) -> Letters] /\ Len(d) \in Nat
      BY <1>1
    <2> QED BY <2>1
  <1> QED BY <1>9, <1>10 DEF b, L, S

\* At a word
LEMMA StaticProceeds ==
    ASSUME NEW t, NEW key, Keyed(t, key), NEW at \in 1 .. Len(t), t[at].kind # "catchAll",
           NEW segs, NEW ending, NEW j, NEW rest, NEW d, NEW next,
           Facing(segs, ending, j, key[at], rest, d, next), \A i \in 1 .. Len(d) : d[i] \in Letters
    PROVE  Proceeds(t, key, segs, ending, j, rest, InsertStatic(t, at, rest))
  <1> DEFINE shared == Sharing(t, at, rest)
             c == Min(shared)
             n == CommonPrefixLen(t[c].path, rest)
             whole == Before(rest, ParamSyms \cup CatchAlls \cup {"/"})
             nd == Node(at, "static", SubSeq(rest, 1, whole), "none")
             rest1 == SkipSlash(Drop(rest, whole))
             rest2 == SkipSlash(Drop(rest, n))
  <1>1. Reads(rest, d, next) /\ Len(d) \in Nat /\ Len(d) >= 1
    BY DEF Facing
  <1>2. whole = Len(d) /\ d \in Seq(Letters)
    BY <1>1, WholeWord
  <1>3. SubSeq(rest, 1, whole) = d
    BY <1>1, <1>2, ReadsWhole
  <1>4. d \in Seq(STRING) /\ d # << >>
    BY <1>1 DEF Reads
  <1>5. \A e : e \in shared <=> /\ e \in 2 .. Len(t) /\ t[e].parent = at /\ t[e].kind = "static"
                                /\ CommonPrefixLen(t[e].path, rest) > 0
    <2>1. \A e : e \in Children(t, at, "static") <=> e \in 2 .. Len(t) /\ t[e].parent = at /\ t[e].kind = "static"
      BY ChildrenAre
    <2> QED BY <2>1 DEF Sharing
  <1>6. ASSUME NEW e \in 2 .. Len(t), t[e].kind = "static"
        PROVE  t[e].path \in Seq(Letters) /\ t[e].path # << >> /\ Label(t[e]) = t[e].path
    <2>1. Labelled(t[e])
      BY Child DEF Parented
    <2> QED BY <1>6, <2>1 DEF Labelled, Label
  <1> HIDE DEF shared, c, n, whole, rest1, rest2
  <1>7. InsertStatic(t, at, rest) =
            IF shared = {} THEN InsertNew(t, nd, rest1)
            ELSE Goes(IF n = Len(t[c].path) THEN t ELSE Split(t, c, n), c, rest2)
    BY DEF InsertStatic, shared, c, n, whole, rest1, rest2
  <1>8. CASE shared = {}
    <2>1. Made(nd, at, d, NoChains)
      <3>1. at \in Nat
        BY KeyedTypes
      <3> QED BY <1>2, <1>3, <1>4, <3>1, NodeType
    <2> HIDE DEF nd
    <2>2. Free(t, nd)
      <3>1. ASSUME NEW e \in 2 .. Len(t), t[e].parent = at
            PROVE  Label(t[e])[1] # Label(nd)[1]
        <4>1. Label(nd)[1] = d[1] /\ d[1] \in Letters
          <5>1. Label(nd) = d /\ 1 \in 1 .. Len(d)
            BY <1>1, <2>1 DEF Made
          <5> QED BY <5>1
        <4>2. t[e] \in NodeRecords /\ Labelled(t[e])
          BY Child DEF Parented
        <4>3. CASE t[e].kind = "static"
          <5>1. CommonPrefixLen(t[e].path, rest) \in Nat
                /\ (CommonPrefixLen(t[e].path, rest) > 0 <=> t[e].path[1] = d[1])
            BY <1>1, <1>6, <4>3, CommonLabel
          <5>2. ~(CommonPrefixLen(t[e].path, rest) > 0)
            BY <1>5, <1>8, <3>1, <4>3
          <5> QED BY <1>6, <4>1, <4>3, <5>1, <5>2
        <4>4. CASE t[e].kind # "static"
          <5>1. Label(t[e])[1] \notin Letters
            BY <4>2, <4>4, LabelType
          <5> QED BY <4>1, <5>1
        <4> QED BY <4>3, <4>4
      <3> QED BY <2>1, <3>1 DEF Free, Made
    <2>3. PICK j2 : Onward(segs, ending, j, rest, j2, key[nd.parent] \o Label(nd), rest1)
      <3>1. Len(d) \in 1 .. Len(d) /\ SubSeq(d, 1, Len(d)) = d
        BY <1>1, <1>4, SubSeqFull
      <3>2. \E j2 : Onward(segs, ending, j, rest, j2, key[at] \o SubSeq(d, 1, Len(d)), SkipSlash(Drop(rest, Len(d))))
        BY <3>1 DEF Facing
      <3>3. nd.parent = at /\ Label(nd) = d
        BY <2>1 DEF Made
      <3> QED BY <1>2, <3>1, <3>2, <3>3 DEF rest1
    <2>4. Went(t, key, segs, ending, j, rest, Append(t, nd), Len(t) + 1, rest1)
      <3>1. nd.chain = NoChains /\ nd.kind # "catchAll"
        BY <2>1 DEF Made
      <3> QED BY <2>2, <2>3, <3>1, AppendGoes
    <2>5. InsertStatic(t, at, rest) = Goes(Append(t, nd), Len(t) + 1, rest1)
      BY <1>7, <1>8 DEF InsertNew
    <2> QED BY <2>4, <2>5 DEF Proceeds
  <1>9. CASE shared # {}
    <2>1. c \in shared
      <3>1. shared \subseteq Nat
        <4>1. \A e \in shared : e \in 2 .. Len(t)
          BY <1>5
        <4> QED BY <4>1
      <3> QED BY <1>9, <3>1, Least DEF c
    <2>2. c \in 2 .. Len(t) /\ t[c].parent = at /\ t[c].kind = "static" /\ n > 0
      BY <1>5, <2>1 DEF n
    <2> DEFINE l == t[c].path
    <2>3. l \in Seq(Letters) /\ l # << >> /\ Label(t[c]) = l /\ Len(l) \in Nat /\ l \in Seq(STRING)
      <3>1. l \in Seq(Letters) /\ l # << >> /\ Label(t[c]) = l
        BY <1>6, <2>2
      <3>2. Letters \subseteq STRING
        BY DEF Letters
      <3> HIDE DEF l
      <3>3. l \in Seq(STRING)
        BY <3>1, <3>2, SeqMonotonic
      <3> QED BY <3>1, <3>3
    <2>4. n \in Nat /\ n <= Len(l) /\ n <= Len(d) /\ SubSeq(l, 1, n) = SubSeq(d, 1, n)
      <3> HIDE DEF l
      <3> QED BY <1>1, <2>3, CommonLabel DEF n, l
    <2>5. PICK j2 : Onward(segs, ending, j, rest, j2, key[at] \o SubSeq(l, 1, n), rest2)
      <3>1. n \in 1 .. Len(d)
        <4> HIDE DEF l
        <4> QED BY <1>1, <2>2, <2>4
      <3>2. \E j2 : Onward(segs, ending, j, rest, j2, key[at] \o SubSeq(d, 1, n), SkipSlash(Drop(rest, n)))
        BY <3>1 DEF Facing
      <3> QED BY <2>4, <3>2 DEF rest2
    <2>6. CASE n = Len(l)
      <3>1. SubSeq(l, 1, n) = Label(t[c])
        <4> HIDE DEF l
        <4> QED BY <2>3, <2>6, SubSeqFull
      <3>2. Onward(segs, ending, j, rest, j2, key[t[c].parent] \o Label(t[c]), rest2)
        BY <2>2, <2>5, <3>1
      <3>3. Went(t, key, segs, ending, j, rest, t, c, rest2)
        BY <2>2, <3>2, ChildGoes
      <3>4. InsertStatic(t, at, rest) = Goes(t, c, rest2)
        BY <1>7, <1>9, <2>6
      <3> QED BY <3>3, <3>4 DEF Proceeds
    <2>7. CASE n # Len(l)
      <3>1. n \in 1 .. Len(l) - 1
        <4> HIDE DEF l
        <4> QED BY <2>2, <2>3, <2>4, <2>7
      <3>2. Onward(segs, ending, j, rest, j2, key[t[c].parent] \o SubSeq(t[c].path, 1, n), rest2)
        BY <2>2, <2>5
      <3>3. Went(t, key, segs, ending, j, rest, Split(t, c, n), c, rest2)
        BY <2>2, <3>1, <3>2, SplitGoes
      <3>4. InsertStatic(t, at, rest) = Goes(Split(t, c, n), c, rest2)
        BY <1>7, <1>9, <2>7
      <3> QED BY <3>3, <3>4 DEF Proceeds
    <2> QED BY <2>6, <2>7
  <1> QED BY <1>8, <1>9

\* One call of insert for a path that is not empty
LEMMA InsertProceeds ==
    ASSUME NEW t, NEW key, Keyed(t, key), NEW at \in 1 .. Len(t), t[at].kind # "catchAll",
           NEW segs, Sound(segs), NEW ending \in Endings, NEW j, NEW o, NEW rest,
           Spot(segs, ending, j, o, key[at], rest), rest # << >>, NEW m, NEW chain
    PROVE  Proceeds(t, key, segs, ending, j, rest, Insert(t, at, rest, m, chain))
  <1>1. PICK d, next : Facing(segs, ending, j, key[at], rest, d, next)
    BY SpotFaces
  <1>2. Head(rest) = d[1] /\ 1 \in 1 .. Len(d)
    BY <1>1 DEF Facing
  <1>3. \/ \A n \in 1 .. Len(d) : d[n] \in Letters
        \/ Len(d) = 1 /\ d[1] \in ParamSyms
        \/ Len(d) = 1 /\ d[1] \in CatchAlls /\ next = << >>
    BY <1>1 DEF Facing
  <1>4. CASE \A n \in 1 .. Len(d) : d[n] \in Letters
    <2>1. Head(rest) \notin ParamSyms /\ Head(rest) \notin CatchAlls
      BY <1>2, <1>4 DEF Letters
    <2>2. Insert(t, at, rest, m, chain) = InsertStatic(t, at, rest)
      BY <2>1 DEF Insert
    <2> QED BY <1>1, <1>4, <2>2, StaticProceeds
  <1>5. CASE Len(d) = 1 /\ d[1] \in ParamSyms
    <2>1. Insert(t, at, rest, m, chain) = InsertParam(t, at, rest)
      BY <1>2, <1>5 DEF Insert
    <2> QED BY <1>1, <1>5, <2>1, ParamProceeds
  <1>6. CASE Len(d) = 1 /\ d[1] \in CatchAlls /\ next = << >>
    <2>1. Head(rest) \notin ParamSyms
      BY <1>2, <1>6, RouterAssumption
    <2>2. Insert(t, at, rest, m, chain) = InsertCatchAll(t, at, rest)
      BY <1>2, <1>6, <2>1 DEF Insert
    <2> QED BY <1>1, <1>6, <2>2, CatchAllProceeds
  <1> QED BY <1>3, <1>4, <1>5, <1>6

\* What has grown twice has grown.
LEMMA GrownTrans ==
    ASSUME NEW t, NEW key, NEW t1, NEW key1, NEW t2, NEW key2,
           Grown(t, key, t1, key1), Grown(t1, key1, t2, key2)
    PROVE  Grown(t, key, t2, key2)
  <1>1. ASSUME NEW x \in 1 .. Len(t)
        PROVE  \E y \in 1 .. Len(t2) : key2[y] = key[x] /\ t2[y].chain = t[x].chain
    <2>1. PICK z \in 1 .. Len(t1) : key1[z] = key[x] /\ t1[z].chain = t[x].chain
      BY DEF Grown
    <2>2. PICK y \in 1 .. Len(t2) : key2[y] = key1[z] /\ t2[y].chain = t1[z].chain
      BY DEF Grown
    <2> QED BY <2>1, <2>2
  <1>2. ASSUME NEW y \in 1 .. Len(t2)
        PROVE  t2[y].chain = NoChains \/ \E x \in 1 .. Len(t) : key[x] = key2[y] /\ t[x].chain = t2[y].chain
    <2>1. CASE t2[y].chain # NoChains
      <3>1. PICK z \in 1 .. Len(t1) : key1[z] = key2[y] /\ t1[z].chain = t2[y].chain
        BY <2>1 DEF Grown
      <3>2. PICK x \in 1 .. Len(t) : key[x] = key1[z] /\ t[x].chain = t1[z].chain
        BY <2>1, <3>1 DEF Grown
      <3> QED BY <3>1, <3>2
    <2> QED BY <2>1
  <1> QED BY <1>1, <1>2 DEF Grown

\* The ends of the first segments are nodes.
Bounds(segs, j, t, key) == \A i \in 0 .. j : \E x \in 1 .. Len(t) : key[x] = Key(segs, i)

\* insert has come to node at, with rest left of the pattern.
Walking(t0, key0, segs, ending, t, at, rest) ==
    /\ at \in 1 .. Len(t) /\ (rest # << >> => t[at].kind # "catchAll")
    /\ \E key, j, o : /\ Keyed(t, key) /\ Grown(t0, key0, t, key)
                      /\ Spot(segs, ending, j, o, key[at], rest) /\ Bounds(segs, j, t, key)

\* add_route has thrown.
Refused(t0, key0, t2) == \E key : Keyed(t2, key) /\ Grown(t0, key0, t2, key)

\* t2 is t with one chain more at node at.
Stores(t, at, m, chain, t2) ==
    /\ Len(t2) = Len(t) /\ t2[at].chain = [t[at].chain EXCEPT ![m] = chain]
    /\ \A x \in 1 .. Len(t) : x # at => t2[x].chain = t[x].chain

\* add_route has returned.
Registered(t0, key0, segs, m, chain, t2) ==
    \E t, key, at : /\ Keyed(t, key) /\ Grown(t0, key0, t, key) /\ Bounds(segs, Len(segs), t, key)
                    /\ at \in 1 .. Len(t) /\ key[at] = FlattenSeq(segs) /\ t[at].chain[m] = << >>
                    /\ Stores(t, at, m, chain, t2) /\ Keyed(t2, key)

\* One call of insert on the way throws and leaves a keyed trie, or goes on with less.
LEMMA WalkOn ==
    ASSUME NEW t0, NEW key0, NEW segs, Sound(segs), NEW ending \in Endings,
           NEW t, NEW at, NEW rest, Walking(t0, key0, segs, ending, t, at, rest), rest # << >>,
           NEW m, NEW chain
    PROVE  LET r == Insert(t, at, rest, m, chain)
           IN  \/ r = Threw(t) /\ Refused(t0, key0, t)
               \/ \E t2, at2, rest2 : /\ r = Goes(t2, at2, rest2) /\ Len(rest2) < Len(rest)
                                      /\ Walking(t0, key0, segs, ending, t2, at2, rest2)
  <1> DEFINE r == Insert(t, at, rest, m, chain)
  <1>1. at \in 1 .. Len(t) /\ t[at].kind # "catchAll"
    BY DEF Walking
  <1>2. PICK key, j, o : /\ Keyed(t, key) /\ Grown(t0, key0, t, key)
                         /\ Spot(segs, ending, j, o, key[at], rest) /\ Bounds(segs, j, t, key)
    BY DEF Walking
  <1>3. Proceeds(t, key, segs, ending, j, rest, r)
    BY <1>1, <1>2, InsertProceeds
  <1> HIDE DEF r
  <1>4. CASE r = Threw(t)
    BY <1>2, <1>4 DEF Refused, r
  <1>5. CASE r # Threw(t)
    <2>1. PICK t2, at2, rest2 : r = Goes(t2, at2, rest2) /\ Went(t, key, segs, ending, j, rest, t2, at2, rest2)
      BY <1>3, <1>5 DEF Proceeds
    <2>2. at2 \in 1 .. Len(t2) /\ (rest2 # << >> => t2[at2].kind # "catchAll")
      BY <2>1 DEF Went
    <2>3. PICK key2, j2 : /\ Keyed(t2, key2) /\ Grown(t, key, t2, key2)
                          /\ Onward(segs, ending, j, rest, j2, key2[at2], rest2)
      BY <2>1 DEF Went
    <2>4. Len(rest2) < Len(rest) /\ j2 \in {j, j + 1}
      BY <2>3 DEF Onward
    <2>5. PICK o2 : Spot(segs, ending, j2, o2, key2[at2], rest2) /\ (j2 = j + 1 => o2 = 0)
      BY <2>3 DEF Onward
    <2>6. j \in 0 .. Len(segs) - 1 /\ Len(segs) \in Nat /\ segs \in Seq(Seq(STRING))
      BY <1>2, SoundSegments DEF Spot, Sound
    <2>7. Grown(t0, key0, t2, key2)
      BY <1>2, <2>3, GrownTrans
    <2>8. Bounds(segs, j2, t2, key2)
      <3>1. ASSUME NEW i \in 0 .. j PROVE \E x \in 1 .. Len(t2) : key2[x] = Key(segs, i)
        <4>1. PICK y \in 1 .. Len(t) : key[y] = Key(segs, i)
          BY <1>2 DEF Bounds
        <4> QED BY <2>3, <4>1 DEF Grown
      <3>2. CASE j2 = j
        BY <3>1, <3>2 DEF Bounds
      <3>3. CASE j2 = j + 1
        <4>1. key2[at2] = Key(segs, j2)
          <5>1. o2 = 0
            BY <2>5, <3>3
          <5>2. CASE j2 = Len(segs)
            BY <2>5, <2>6, <5>1, <5>2 DEF Spot
          <5>3. CASE j2 # Len(segs)
            <6>1. key2[at2] = Key(segs, j2) \o SubSeq(segs[j2 + 1], 1, 0)
              BY <2>5, <5>1, <5>3 DEF Spot
            <6>2. SubSeq(segs[j2 + 1], 1, 0) = << >>
              BY SubSeqEmpty
            <6>3. j2 \in 0 .. Len(segs)
              BY <2>6, <3>3
            <6>4. Key(segs, j2) \in Seq(STRING)
              BY <2>6, <6>3, KeyIs
            <6> QED BY <6>1, <6>2, <6>4, ConcatEmptySeq
          <5> QED BY <5>2, <5>3
        <4>2. \A i \in 0 .. j2 : i = j2 \/ i \in 0 .. j
          BY <2>6, <3>3
        <4> QED BY <2>2, <3>1, <4>1, <4>2 DEF Bounds
      <3> QED BY <2>4, <3>2, <3>3
    <2>9. Walking(t0, key0, segs, ending, t2, at2, rest2)
      BY <2>2, <2>3, <2>5, <2>7, <2>8 DEF Walking
    <2> QED BY <2>1, <2>4, <2>9 DEF r
  <1> QED BY <1>4, <1>5

\* t2 has the nodes of t, with other chains.
Relabelled(t, t2, x) ==
    /\ t2[x] \in NodeRecords /\ t2[x].parent = t[x].parent /\ t2[x].kind = t[x].kind
    /\ Label(t2[x]) = Label(t[x]) /\ Labelled(t2[x]) = Labelled(t[x])

\* A trie is as well keyed whatever chains its nodes have.
LEMMA RelabelledKeyed ==
    ASSUME NEW t, NEW key, Keyed(t, key), NEW t2 \in Seq(NodeRecords), Len(t2) = Len(t),
           \A x \in 1 .. Len(t) : Relabelled(t, t2, x)
    PROVE  Keyed(t2, key)
  <1> DEFINE N == Len(t)
  <1>1. N \in Nat /\ 1 \in 1 .. N /\ \A c \in 2 .. N : c \in 1 .. N
    BY KeyedTypes
  <1>2. \A x \in 1 .. N : /\ t2[x].parent = t[x].parent /\ t2[x].kind = t[x].kind
                          /\ Label(t2[x]) = Label(t[x]) /\ Labelled(t2[x]) = Labelled(t[x])
    BY DEF Relabelled
  <1>3. Hangs(t2, key)
    <2>1. /\ N >= 1 /\ t[1].parent = 0 /\ t[1].kind = "static"
          /\ key \in [1 .. N -> Seq(STRING)] /\ key[1] = << >>
      BY DEF Keyed, Hangs
    <2>2. ASSUME NEW c \in 2 .. N
          PROVE  /\ t2[c].parent \in 1 .. N /\ t2[t2[c].parent].kind # "catchAll"
                 /\ Labelled(t2[c]) /\ Joined(key[c], key[t2[c].parent], Label(t2[c]))
      <3>1. /\ t[c].parent \in 1 .. N /\ t[t[c].parent].kind # "catchAll"
            /\ Labelled(t[c]) /\ Joined(key[c], key[t[c].parent], Label(t[c]))
        BY DEF Keyed, Hangs
      <3> QED BY <1>1, <1>2, <3>1
    <2>3. t2[1].parent = 0 /\ t2[1].kind = "static"
      BY <1>1, <1>2, <2>1
    <2> HIDE DEF N
    <2> QED BY <2>1, <2>2, <2>3 DEF Hangs, N
  <1>4. ApartHeads(t2) /\ ApartKinds(t2)
    <2>1. \A c, d \in 2 .. N : t[c].parent = t[d].parent /\ Label(t[c])[1] = Label(t[d])[1] => c = d
      BY DEF Keyed, ApartHeads
    <2>2. \A c, d \in 2 .. N : t[c].parent = t[d].parent /\ t[c].kind = t[d].kind /\ t[c].kind # "static" => c = d
      BY DEF Keyed, ApartKinds
    <2> HIDE DEF N
    <2>3. \A c, d \in 2 .. N : t2[c].parent = t2[d].parent /\ Label(t2[c])[1] = Label(t2[d])[1] => c = d
      BY <1>1, <1>2, <2>1, Zenon
    <2>4. \A c, d \in 2 .. N : t2[c].parent = t2[d].parent /\ t2[c].kind = t2[d].kind /\ t2[c].kind # "static" => c = d
      BY <1>1, <1>2, <2>2, Zenon
    <2> QED BY <2>3, <2>4 DEF ApartHeads, ApartKinds, N
  <1>5. Distinct(t2, key)
    BY DEF Keyed, Distinct
  <1>6. Branches(t2, key)
    <2>1. \A a, y \in 1 .. N : Prefix(key[a], key[y]) /\ a # y =>
              \E c \in 2 .. N : t[c].parent = a /\ Prefix(key[c], key[y])
      BY DEF Keyed, Branches
    <2>2. \A a, y \in 1 .. N : Prefix(key[a], key[y]) /\ a # y =>
              \E c \in 2 .. N : t2[c].parent = a /\ Prefix(key[c], key[y])
      BY <1>1, <1>2, <2>1
    <2> QED BY <2>2 DEF Branches
  <1> QED BY <1>3, <1>4, <1>5, <1>6 DEF Keyed

\* The chain is stored at a node.
Stored(t, at, m, chain) == [t EXCEPT ![at].chain[m] = chain]

\* A chain is stored, and nothing else changed.
LEMMA StoreKeeps ==
    ASSUME NEW t, NEW key, Keyed(t, key), NEW at \in 1 .. Len(t),
           NEW m \in ToSet(Methods), NEW chain \in Seq(Entries)
    PROVE  /\ Keyed(Stored(t, at, m, chain), key)
           /\ Stores(t, at, m, chain, Stored(t, at, m, chain))
  <1> DEFINE nd == [t[at] EXCEPT !.chain[m] = chain]
             t2 == Stored(t, at, m, chain)
             Chains == [ToSet(Methods) -> Seq(Entries)]
             M == ToSet(Methods)
  <1>1. t \in Seq(NodeRecords) /\ Len(t) \in Nat /\ DOMAIN t = 1 .. Len(t) /\ t[at] \in NodeRecords
    BY KeyedTypes DEF Keyed, Hangs
  <1>2. t2 = [t EXCEPT ![at] = nd]
    BY DEF Stored
  <1>3. /\ nd \in NodeRecords /\ nd.parent = t[at].parent /\ nd.kind = t[at].kind
        /\ nd.path = t[at].path /\ nd.name = t[at].name
        /\ nd.chain = [t[at].chain EXCEPT ![m] = chain]
    <2>1. NodeRecords = [parent : Nat, kind : {"static", "param", "catchAll"}, path : Seq(Symbols),
                         name : STRING \cup {"none"}, chain : Chains]
      BY DEF NodeRecords
    <2> DEFINE ch == t[at].chain
    <2>2. ch \in [M -> Seq(Entries)]
      <3> HIDE DEF Chains
      <3>1. t[at].chain \in Chains
        BY <1>1, <2>1
      <3> QED BY <3>1 DEF Chains
    <2>3. [ch EXCEPT ![m] = chain] \in Chains
      <3> HIDE DEF M, ch
      <3>1. [ch EXCEPT ![m] = chain] \in [M -> Seq(Entries)]
        BY <2>2
      <3> QED BY <3>1 DEF M
    <2> DEFINE nc == [ch EXCEPT ![m] = chain]
    <2>4. nd = [t[at] EXCEPT !.chain = nc]
      OBVIOUS
    <2> HIDE DEF nd, Chains, nc, M
    <2>5. /\ nd \in NodeRecords /\ nd.parent = t[at].parent /\ nd.kind = t[at].kind
          /\ nd.path = t[at].path /\ nd.name = t[at].name /\ nd.chain = nc
      <3>1. nc \in Chains
        BY <2>3 DEF nc
      <3> QED BY <1>1, <2>1, <2>4, <3>1
    <2> QED BY <2>5 DEF nc
  <1> HIDE DEF nd, t2
  <1>4. /\ t2 \in Seq(NodeRecords) /\ Len(t2) = Len(t) /\ t2[at] = nd
        /\ \A x \in 1 .. Len(t) : x # at => t2[x] = t[x]
    BY <1>1, <1>2, <1>3
  <1>5. Label(nd) = Label(t[at]) /\ Labelled(nd) = Labelled(t[at])
    BY <1>3 DEF Label, Labelled
  <1>6. ASSUME NEW x \in 1 .. Len(t) PROVE Relabelled(t, t2, x)
    <2>1. CASE x = at
      BY <1>3, <1>4, <1>5, <2>1 DEF Relabelled
    <2>2. CASE x # at
      <3>1. t2[x] = t[x] /\ t[x] \in NodeRecords
        BY <1>1, <1>4, <2>2
      <3> QED BY <3>1 DEF Relabelled
    <2> QED BY <2>1, <2>2
  <1>7. Keyed(t2, key)
    BY <1>4, <1>6, RelabelledKeyed
  <1>8. Stores(t, at, m, chain, t2)
    BY <1>3, <1>4 DEF Stores
  <1> QED BY <1>7, <1>8 DEF t2

\* The last call of insert
LEMMA WalkEnds ==
    ASSUME NEW t0, NEW key0, NEW segs, Sound(segs), NEW ending \in Endings,
           NEW t, NEW at, Walking(t0, key0, segs, ending, t, at, << >>),
           NEW m \in ToSet(Methods), NEW chain \in Seq(Entries)
    PROVE  LET r == Insert(t, at, << >>, m, chain)
           IN  \/ r = Threw(t) /\ Refused(t0, key0, t)
               \/ \E t2 : r = Returned(t2) /\ Registered(t0, key0, segs, m, chain, t2)
  <1> DEFINE r == Insert(t, at, << >>, m, chain)
  <1>1. at \in 1 .. Len(t)
    BY DEF Walking
  <1>2. PICK key, j, o : /\ Keyed(t, key) /\ Grown(t0, key0, t, key)
                         /\ Spot(segs, ending, j, o, key[at], << >>) /\ Bounds(segs, j, t, key)
    BY DEF Walking
  <1>3. r = InsertHere(t, at, m, chain)
    BY DEF Insert
  <1>4. j = Len(segs) /\ key[at] = Key(segs, j)
    <2>1. ASSUME NEW s, NEW next, Reads(<< >>, s, next) PROVE FALSE
      <3>1. s \in Seq(STRING) /\ s # << >> /\ next \in Seq(Symbols)
        BY <2>1 DEF Reads
      <3>2. CASE << >> = s
        BY <3>1, <3>2
      <3>3. CASE << >> = s \o (<<"/">> \o next)
        <4>1. <<"/">> \in Seq(Symbols)
          BY DEF Symbols
        <4>2. <<"/">> \o next \in Seq(Symbols) /\ Len(<<"/">> \o next) = Len(next) + 1
          BY <3>1, <4>1, ConcatProperties
        <4> DEFINE e == <<"/">> \o next
        <4>3. s \in Seq(Symbols)
          <5>1. \A n \in 1 .. Len(s) : s[n] \in Symbols
            BY <3>1 DEF Symbols
          <5> QED BY <3>1, <5>1
        <4> HIDE DEF e
        <4>4. Len(s \o e) = Len(s) + Len(e)
          BY <4>2, <4>3, ConcatProperties DEF e
        <4>5. Len(<< >>) = 0 /\ Len(s) \in Nat /\ Len(next) \in Nat
          BY <3>1
        <4>6. Len(e) = Len(next) + 1
          BY <4>2 DEF e
        <4>7. s \o e = << >>
          BY <3>3 DEF e
        <4> QED BY <4>4, <4>5, <4>6, <4>7
      <3> QED BY <2>1, <3>2, <3>3 DEF Reads
    <2> QED BY <1>2, <2>1, Zenon DEF Spot
  <1>5. key[at] = FlattenSeq(segs)
    <2>1. segs \in Seq(Seq(STRING))
      BY DEF Sound
    <2> QED BY <1>4, <2>1, KeyIs
  <1>6. CASE t[at].chain[m] # << >>
    <2>1. r = Threw(t)
      BY <1>3, <1>6 DEF InsertHere
    <2> QED BY <1>2, <2>1 DEF Refused
  <1>7. CASE t[at].chain[m] = << >>
    <2> DEFINE t2 == Stored(t, at, m, chain)
    <2>1. r = Returned(t2)
      BY <1>3, <1>7 DEF InsertHere, Stored
    <2>2. Keyed(t2, key) /\ Stores(t, at, m, chain, t2)
      BY <1>1, <1>2, StoreKeeps
    <2> HIDE DEF t2, r
    <2>3. Registered(t0, key0, segs, m, chain, t2)
      BY <1>1, <1>2, <1>4, <1>5, <1>7, <2>2 DEF Registered
    <2> QED BY <2>1, <2>3 DEF r
  <1> QED BY <1>6, <1>7

\* add_route is over, one way or the other.
Ended(t0, key0, segs, m, chain, s) ==
    \/ s.ok = TRUE /\ Registered(t0, key0, segs, m, chain, s.trie)
    \/ s.ok = FALSE /\ Refused(t0, key0, s.trie)

\* What n calls of insert for a pattern that is longer than max have come to
Underway(t0, key0, segs, ending, m, chain, max, s, n) ==
    \/ s.done = TRUE /\ Ended(t0, key0, segs, m, chain, s)
    \/ /\ s.done = FALSE /\ Len(s.rest) \in Nat /\ Len(s.rest) + n <= max
       /\ Walking(t0, key0, segs, ending, s.trie, s.at, s.rest)

\* The results of a call of insert
Calls(s, t, at, rest) == s.trie = t /\ s.at = at /\ s.rest = rest /\ s.done = FALSE
Ends(s, t, ok)        == s.trie = t /\ s.done = TRUE /\ s.ok = ok

\* What the results of a call say.
LEMMA ResultIs ==
    ASSUME NEW t, NEW at, NEW rest
    PROVE  /\ Calls(Goes(t, at, rest), t, at, rest)
           /\ Ends(Returned(t), t, TRUE) /\ Ends(Threw(t), t, FALSE)
  BY DEF Goes, Returned, Threw, Calls, Ends

\* The first call
LEMMA WalkStarts ==
    ASSUME NEW t0, NEW key0, Keyed(t0, key0), NEW segs, Sound(segs), NEW ending \in Endings
    PROVE  Walking(t0, key0, segs, ending, t0, 1, Rest(segs, ending, 0))
  <1>1. 1 \in 1 .. Len(t0) /\ t0[1].kind # "catchAll" /\ key0[1] = << >>
    BY KeyedTypes DEF Keyed, Hangs
  <1>2. segs \in Seq(Seq(STRING)) /\ 0 \in 0 .. Len(segs)
    BY DEF Sound
  <1>3. Key(segs, 0) = << >>
    BY <1>2, KeyIs
  <1>4. Spot(segs, ending, 0, 0, key0[1], Rest(segs, ending, 0))
    BY <1>1, <1>2, <1>3, SpotAt
  <1>5. Bounds(segs, 0, t0, key0)
    BY <1>1, <1>3 DEF Bounds
  <1> QED BY <1>1, <1>4, <1>5, GrownItself DEF Walking

\* One call more
LEMMA WalkStep ==
    ASSUME NEW t0, NEW key0, NEW segs, Sound(segs), NEW ending \in Endings,
           NEW m \in ToSet(Methods), NEW chain \in Seq(Entries), NEW max \in Nat, NEW n \in Nat,
           NEW s, s.done = FALSE, Underway(t0, key0, segs, ending, m, chain, max, s, n)
    PROVE  Underway(t0, key0, segs, ending, m, chain, max,
                    Insert(s.trie, s.at, s.rest, m, chain), n + 1)
  <1> DEFINE t == s.trie
             at == s.at
             rest == s.rest
             r == Insert(t, at, rest, m, chain)
  <1>1. Len(rest) \in Nat /\ Len(rest) + n <= max /\ Walking(t0, key0, segs, ending, t, at, rest)
    BY DEF Underway
  <1> HIDE DEF t, at, rest, r
  <1>2. CASE rest = << >>
    <2>1. \/ r = Threw(t) /\ Refused(t0, key0, t)
          \/ \E t2 : r = Returned(t2) /\ Registered(t0, key0, segs, m, chain, t2)
      BY <1>1, <1>2, WalkEnds DEF r
    <2>2. CASE r = Threw(t) /\ Refused(t0, key0, t)
      <3>1. Ends(r, t, FALSE)
        BY <2>2, ResultIs
      <3>2. Ended(t0, key0, segs, m, chain, r)
        BY <2>2, <3>1 DEF Ended, Ends
      <3> QED BY <3>1, <3>2 DEF Underway, Ends, r, t, at, rest
    <2>3. CASE \E t2 : r = Returned(t2) /\ Registered(t0, key0, segs, m, chain, t2)
      <3>1. PICK t2 : r = Returned(t2) /\ Registered(t0, key0, segs, m, chain, t2)
        BY <2>3
      <3>2. Ends(r, t2, TRUE)
        BY <3>1, ResultIs
      <3>3. Ended(t0, key0, segs, m, chain, r)
        BY <3>1, <3>2 DEF Ended, Ends
      <3> QED BY <3>2, <3>3 DEF Underway, Ends, r, t, at, rest
    <2> QED BY <2>1, <2>2, <2>3
  <1>3. CASE rest # << >>
    <2>1. \/ r = Threw(t) /\ Refused(t0, key0, t)
          \/ \E t2, at2, rest2 : /\ r = Goes(t2, at2, rest2) /\ Len(rest2) < Len(rest)
                                 /\ Walking(t0, key0, segs, ending, t2, at2, rest2)
      BY <1>1, <1>3, WalkOn DEF r
    <2>2. CASE r = Threw(t) /\ Refused(t0, key0, t)
      <3>1. Ends(r, t, FALSE)
        BY <2>2, ResultIs
      <3>2. Ended(t0, key0, segs, m, chain, r)
        BY <2>2, <3>1 DEF Ended, Ends
      <3> QED BY <3>1, <3>2 DEF Underway, Ends, r, t, at, rest
    <2>3. CASE \E t2, at2, rest2 : /\ r = Goes(t2, at2, rest2) /\ Len(rest2) < Len(rest)
                                   /\ Walking(t0, key0, segs, ending, t2, at2, rest2)
      <3>1. PICK t2, at2, rest2 : /\ r = Goes(t2, at2, rest2) /\ Len(rest2) < Len(rest)
                                  /\ Walking(t0, key0, segs, ending, t2, at2, rest2)
        BY <2>3
      <3>2. Len(rest2) \in Nat
        <4>1. PICK j, o, k : Spot(segs, ending, j, o, k, rest2)
          BY <3>1 DEF Walking
        <4>2. rest2 = << >> \/ rest2 \in Seq(Symbols)
          BY <4>1 DEF Spot, Reads
        <4> QED BY <4>2
      <3>3. Len(rest2) + (n + 1) <= max
        BY <1>1, <3>1, <3>2
      <3>4. r.trie = t2 /\ r.at = at2 /\ r.rest = rest2 /\ r.done = FALSE
        <4>1. Calls(r, t2, at2, rest2)
          BY <3>1, ResultIs
        <4> QED BY <4>1 DEF Calls
      <3>5. Underway(t0, key0, segs, ending, m, chain, max, r, n + 1)
        BY <3>1, <3>2, <3>3, <3>4, Zenon DEF Underway
      <3> QED BY <3>5 DEF r, t, at, rest
    <2> QED BY <2>1, <2>2, <2>3
  <1> QED BY <1>2, <1>3

\* add_route, call by call
AddsUp(f, root0, m, pattern, chain) ==
    /\ f[0] = Goes(root0, 1, Tail(pattern))
    /\ \A n \in 1 .. Len(pattern) :
          f[n] = IF f[n - 1].done THEN f[n - 1]
                 ELSE Insert(f[n - 1].trie, f[n - 1].at, f[n - 1].rest, m, chain)

\* The recursion of add_route has a value for every number of calls.
LEMMA AddRouteUnfolds ==
    ASSUME NEW root0, NEW m, NEW pattern, Len(pattern) \in Nat, NEW chain
    PROVE  \E f : /\ AddsUp(f, root0, m, pattern, chain)
                  /\ AddRoute(root0, m, pattern, chain) = f[Len(pattern)]
  <1> DEFINE N == Len(pattern)
             Step(f, n) == IF n = 0 THEN Goes(root0, 1, Tail(pattern))
                           ELSE LET s == f[n - 1]
                                IN  IF s.done THEN s ELSE Insert(s.trie, s.at, s.rest, m, chain)
             insert[n \in 0 .. N] ==
                 IF n = 0 THEN Goes(root0, 1, Tail(pattern))
                 ELSE LET s == insert[n - 1]
                      IN  IF s.done THEN s ELSE Insert(s.trie, s.at, s.rest, m, chain)
             Upto == {n \in Nat : \E f : f = [i \in 0 .. n |-> Step(f, i)]}
  <1>1. AddRoute(root0, m, pattern, chain) = insert[N]
    BY DEF AddRoute
  <1>2. insert = CHOOSE f : f = [n \in 0 .. N |-> Step(f, n)]
    OBVIOUS
  <1> HIDE DEF insert, N
  <1>3. N \in Nat
    BY DEF N
  <1>4. Nat \subseteq Upto
    <2>1. 0 \in Upto
      <3> DEFINE f == [i \in 0 .. 0 |-> Goes(root0, 1, Tail(pattern))]
      <3>1. f = [i \in 0 .. 0 |-> Step(f, i)]
        OBVIOUS
      <3> QED BY <3>1
    <2>2. ASSUME NEW n \in Nat, n \in Upto PROVE n + 1 \in Upto
      <3>1. PICK f : f = [i \in 0 .. n |-> Step(f, i)]
        BY <2>2
      <3> DEFINE h == [i \in 0 .. n + 1 |-> IF i <= n THEN f[i] ELSE Step(f, n + 1)]
      <3>2. ASSUME NEW i \in 0 .. n + 1 PROVE h[i] = Step(h, i)
        <4>1. CASE i = 0
          <5>1. h[i] = f[i] /\ f[i] = Goes(root0, 1, Tail(pattern))
            BY <3>1, <4>1
          <5> QED BY <4>1, <5>1
        <4>2. CASE i # 0
          <5>1. i - 1 \in 0 .. n /\ i - 1 <= n /\ i - 1 \in 0 .. n + 1
            BY <4>2
          <5>2. h[i - 1] = f[i - 1]
            BY <5>1
          <5>3. h[i] = Step(f, i)
            <6>1. CASE i <= n
              <7>1. h[i] = f[i] /\ i \in 0 .. n
                BY <6>1
              <7> HIDE DEF Step, h
              <7> QED BY <3>1, <7>1
            <6>2. CASE i = n + 1
              <7>1. ~(i <= n)
                BY <6>2
              <7> HIDE DEF Step
              <7> QED BY <6>2, <7>1
            <6> QED BY <6>1, <6>2
          <5> QED BY <4>2, <5>2, <5>3
        <4> QED BY <4>1, <4>2
      <3>3. h = [i \in 0 .. n + 1 |-> Step(h, i)]
        <4> HIDE DEF Step
        <4> QED BY <3>2
      <3>4. \E k : k = [i \in 0 .. n + 1 |-> Step(k, i)]
        BY <3>3
      <3> HIDE DEF Step
      <3> QED BY <2>2, <3>4
    <2> HIDE DEF Upto
    <2> QED BY <2>1, <2>2, Induction
  <1>5. insert = [n \in 0 .. N |-> Step(insert, n)]
    BY <1>2, <1>3, <1>4
  <1>6. \A n \in 0 .. N : insert[n] = Step(insert, n)
    <2> HIDE DEF Step
    <2> QED BY <1>5
  <1>7. insert[0] = Goes(root0, 1, Tail(pattern))
    <2>1. 0 \in 0 .. N
      BY <1>3
    <2> QED BY <1>6, <2>1
  <1>8. ASSUME NEW n \in 1 .. N
        PROVE  insert[n] = IF insert[n - 1].done THEN insert[n - 1]
                           ELSE Insert(insert[n - 1].trie, insert[n - 1].at, insert[n - 1].rest, m, chain)
    <2>1. n \in 0 .. N /\ n # 0
      BY <1>3
    <2>2. insert[n] = Step(insert, n)
      BY <1>6, <2>1
    <2> QED BY <2>1, <2>2
  <1>9. AddsUp(insert, root0, m, pattern, chain)
    BY <1>7, <1>8 DEF AddsUp, N
  <1> QED BY <1>1, <1>9 DEF N

\* A pattern that is registered is a key, with its chain, and all that was stored
\* stays where it was; one that is refused changes no chain.
LEMMA AddRouteKeeps ==
    ASSUME NEW t0, NEW key0, Keyed(t0, key0), NEW segs, Sound(segs), NEW ending \in Endings,
           NEW m \in ToSet(Methods), NEW chain \in Seq(Entries),
           NEW pattern \in Seq(Symbols), Len(pattern) >= 1, Tail(pattern) = Rest(segs, ending, 0)
    PROVE  Ended(t0, key0, segs, m, chain, AddRoute(t0, m, pattern, chain))
  <1> DEFINE N == Len(pattern)
             max == N - 1
             Good(s, n) == Underway(t0, key0, segs, ending, m, chain, max, s, n)
  <1>1. N \in Nat /\ max \in Nat /\ Len(Tail(pattern)) = max
    OBVIOUS
  <1>2. PICK f : AddsUp(f, t0, m, pattern, chain) /\ AddRoute(t0, m, pattern, chain) = f[N]
    BY <1>1, AddRouteUnfolds
  <1> DEFINE S == {n \in Nat : n <= N => Good(f[n], n)}
  <1>3. 0 \in S
    <2>1. f[0] = Goes(t0, 1, Rest(segs, ending, 0))
      BY <1>2 DEF AddsUp
    <2>2. Walking(t0, key0, segs, ending, t0, 1, Rest(segs, ending, 0))
      BY WalkStarts
    <2>3. Len(Rest(segs, ending, 0)) \in Nat /\ Len(Rest(segs, ending, 0)) + 0 <= max
      BY <1>1
    <2>4. /\ f[0].trie = t0 /\ f[0].at = 1 /\ f[0].rest = Rest(segs, ending, 0) /\ f[0].done = FALSE
      <3>1. Calls(f[0], t0, 1, Rest(segs, ending, 0))
        BY <2>1, ResultIs
      <3> QED BY <3>1 DEF Calls
    <2> HIDE DEF max
    <2>5. Good(f[0], 0)
      BY <2>2, <2>3, <2>4, Zenon DEF Underway
    <2> HIDE DEF Good
    <2> QED BY <2>5
  <1>4. ASSUME NEW n \in Nat, n \in S PROVE n + 1 \in S
    <2> SUFFICES ASSUME n + 1 <= N PROVE Good(f[n + 1], n + 1)
      <3> HIDE DEF Good
      <3> QED OBVIOUS
    <2>1. n <= N /\ n + 1 \in 1 .. N /\ (n + 1) - 1 = n
      BY <1>1
    <2>2. Good(f[n], n)
      <3> HIDE DEF Good
      <3> QED BY <1>4, <2>1
    <2>3. f[n + 1] = IF f[n].done THEN f[n] ELSE Insert(f[n].trie, f[n].at, f[n].rest, m, chain)
      BY <1>2, <2>1 DEF AddsUp
    <2>4. CASE f[n].done = TRUE
      <3>1. f[n + 1] = f[n]
        BY <2>3, <2>4
      <3>2. Ended(t0, key0, segs, m, chain, f[n])
        BY <2>2, <2>4 DEF Underway
      <3> QED BY <2>4, <3>1, <3>2 DEF Underway
    <2>5. CASE f[n].done = FALSE
      <3>1. f[n + 1] = Insert(f[n].trie, f[n].at, f[n].rest, m, chain)
        BY <2>3, <2>5
      <3> QED BY <1>1, <2>2, <2>5, <3>1, WalkStep
    <2> QED BY <2>2, <2>4, <2>5 DEF Underway
  <1>5. Good(f[N], N)
    <2> HIDE DEF S, Good
    <2>1. N \in S
      BY <1>1, <1>3, <1>4, Induction
    <2> QED BY <1>1, <2>1 DEF S
  <1>6. Ended(t0, key0, segs, m, chain, f[N])
    <2>1. ~(Len(f[N].rest) \in Nat /\ Len(f[N].rest) + N <= max)
      BY <1>1
    <2> QED BY <1>5, <2>1 DEF Underway
  <1> QED BY <1>2, <1>6

-----------------------------------------------------------------------------
(* What the trie has of the routes                                         *)

\* A route that was accepted
Valid(r) == Sound(r.segments) /\ r.method \in ToSet(Methods) /\ r.chain # << >>

\* The route is found at the node of its key, and the ends of its segments are
\* nodes on the way there.
Placed(t, key, r) ==
    /\ \E x \in 1 .. Len(t) : key[x] = FlattenSeq(r.segments) /\ t[x].chain[r.method] = r.chain
    /\ Bounds(r.segments, Len(r.segments), t, key)

\* One of the routes has this key.
Ours(rs, k, m, chain) ==
    \E i \in 1 .. Len(rs) : rs[i].method = m /\ FlattenSeq(rs[i].segments) = k /\ rs[i].chain = chain

\* Every chain in the trie is of a route of ours.
Known(t, key, rs) ==
    \A x \in 1 .. Len(t), m \in ToSet(Methods) :
        t[x].chain[m] # << >> => Ours(rs, key[x], m, t[x].chain[m])

\* No two routes of a method have the same key.
Alone(rs) ==
    \A i, j \in 1 .. Len(rs) :
        rs[i].method = rs[j].method /\ FlattenSeq(rs[i].segments) = FlattenSeq(rs[j].segments) => i = j

\* The trie has the routes, and no others.
Holds(t, rs, key) ==
    /\ Keyed(t, key) /\ rs \in Seq(RouteRecords)
    /\ \A i \in 1 .. Len(rs) : Valid(rs[i]) /\ Placed(t, key, rs[i])
    /\ Known(t, key, rs) /\ Alone(rs)

\* The ends of segments stay nodes in a trie that grows.
LEMMA BoundsGrow ==
    ASSUME NEW t, NEW key, NEW t2, NEW key2, Grown(t, key, t2, key2), NEW segs, NEW j,
           Bounds(segs, j, t, key)
    PROVE  Bounds(segs, j, t2, key2)
  <1>1. ASSUME NEW i \in 0 .. j PROVE \E y \in 1 .. Len(t2) : key2[y] = Key(segs, i)
    <2>1. PICK x \in 1 .. Len(t) : key[x] = Key(segs, i)
      BY DEF Bounds
    <2> QED BY <2>1 DEF Grown
  <1> QED BY <1>1 DEF Bounds

\* A trie that has grown still has them.
LEMMA HoldsGrown ==
    ASSUME NEW t, NEW key, NEW rs, Holds(t, rs, key), NEW t2, NEW key2,
           Keyed(t2, key2), Grown(t, key, t2, key2)
    PROVE  Holds(t2, rs, key2)
  <1>1. rs \in Seq(RouteRecords) /\ Alone(rs)
    BY DEF Holds
  <1>2. ASSUME NEW i \in 1 .. Len(rs) PROVE Valid(rs[i]) /\ Placed(t2, key2, rs[i])
    <2> DEFINE r == rs[i]
    <2>1. Valid(r) /\ Placed(t, key, r)
      BY DEF Holds
    <2> HIDE DEF r
    <2>2. PICK x \in 1 .. Len(t) : key[x] = FlattenSeq(r.segments) /\ t[x].chain[r.method] = r.chain
      BY <2>1 DEF Placed
    <2>3. PICK y \in 1 .. Len(t2) : key2[y] = key[x] /\ t2[y].chain = t[x].chain
      BY DEF Grown
    <2>4. key2[y] = FlattenSeq(r.segments) /\ t2[y].chain[r.method] = r.chain
      BY <2>2, <2>3
    <2>5. Bounds(r.segments, Len(r.segments), t2, key2)
      BY <2>1, BoundsGrow DEF Placed
    <2>6. Placed(t2, key2, r)
      BY <2>4, <2>5 DEF Placed
    <2> QED BY <2>1, <2>6 DEF r
  <1>3. ASSUME NEW y \in 1 .. Len(t2), NEW m \in ToSet(Methods), t2[y].chain[m] # << >>
        PROVE  Ours(rs, key2[y], m, t2[y].chain[m])
    <2>1. NoChains[m] = << >>
      BY DEF NoChains
    <2>2. t2[y].chain # NoChains
      BY <1>3, <2>1
    <2>3. PICK x \in 1 .. Len(t) : key[x] = key2[y] /\ t[x].chain = t2[y].chain
      BY <2>2 DEF Grown
    <2>4. Ours(rs, key[x], m, t[x].chain[m])
      BY <1>3, <2>3 DEF Holds, Known
    <2> QED BY <2>3, <2>4
  <1> QED BY <1>1, <1>2, <1>3 DEF Holds, Known

\* It has a route more that is registered.
LEMMA HoldsRegistered ==
    ASSUME NEW t0, NEW key0, NEW rs, Holds(t0, rs, key0), NEW r \in RouteRecords, Valid(r), NEW t2,
           Registered(t0, key0, r.segments, r.method, r.chain, t2)
    PROVE  \E key : Holds(t2, Append(rs, r), key)
  <1> DEFINE segs == r.segments
             m == r.method
             rs2 == Append(rs, r)
             R == Len(rs)
  <1>1. PICK t, key, at : /\ Keyed(t, key) /\ Grown(t0, key0, t, key) /\ Bounds(segs, Len(segs), t, key)
                          /\ at \in 1 .. Len(t) /\ key[at] = FlattenSeq(segs) /\ t[at].chain[m] = << >>
                          /\ Stores(t, at, m, r.chain, t2) /\ Keyed(t2, key)
    BY DEF Registered
  <1>2. Holds(t, rs, key)
    BY <1>1, HoldsGrown
  <1>3. R \in Nat /\ rs2 \in Seq(RouteRecords) /\ Len(rs2) = R + 1 /\ rs2[R + 1] = r
        /\ \A i \in 1 .. R : rs2[i] = rs[i]
    <2>1. rs \in Seq(RouteRecords)
      BY DEF Holds
    <2> QED BY <2>1
  <1>4. /\ Len(t2) = Len(t) /\ t2[at].chain = [t[at].chain EXCEPT ![m] = r.chain]
        /\ \A x \in 1 .. Len(t) : x # at => t2[x].chain = t[x].chain
    BY <1>1 DEF Stores
  <1>5. m \in ToSet(Methods) /\ DOMAIN t[at].chain = ToSet(Methods)
    <2>1. t[at] \in NodeRecords
      BY <1>1, KeyedTypes
    <2>2. t[at].chain \in [ToSet(Methods) -> Seq(Entries)]
      BY <2>1 DEF NodeRecords
    <2> QED BY <2>2 DEF Valid
  <1>6. /\ t2[at].chain[m] = r.chain
        /\ \A n \in ToSet(Methods) : n # m => t2[at].chain[n] = t[at].chain[n]
    <2> DEFINE ch == t[at].chain
    <2>1. t2[at].chain = [ch EXCEPT ![m] = r.chain] /\ DOMAIN ch = ToSet(Methods)
      BY <1>4, <1>5
    <2> DEFINE M == ToSet(Methods)
    <2>2. m \in M /\ DOMAIN ch = M
      BY <1>5
    <2> HIDE DEF ch, M
    <2>3. t2[at].chain[m] = r.chain /\ \A n \in M : n # m => t2[at].chain[n] = ch[n]
      BY <2>1, <2>2
    <2> QED BY <2>3 DEF ch, M
  <1> HIDE DEF rs2, R
  <1>7. ASSUME NEW i \in 1 .. R PROVE ~(rs[i].method = m /\ FlattenSeq(rs[i].segments) = FlattenSeq(segs))
    <2> SUFFICES ASSUME rs[i].method = m, FlattenSeq(rs[i].segments) = FlattenSeq(segs) PROVE FALSE
      OBVIOUS
    <2>1. Valid(rs[i]) /\ Placed(t, key, rs[i])
      BY <1>2 DEF Holds, R
    <2>2. PICK x \in 1 .. Len(t) : /\ key[x] = FlattenSeq(rs[i].segments)
                                   /\ t[x].chain[rs[i].method] = rs[i].chain
      BY <2>1 DEF Placed
    <2>3. key[x] = key[at]
      BY <1>1, <2>2
    <2>4. x = at
      BY <1>1, <2>3 DEF Keyed, Distinct
    <2> QED BY <1>1, <2>1, <2>2, <2>4 DEF Valid
  <1>8. ASSUME NEW i \in 1 .. R PROVE Placed(t2, key, rs[i])
    <2> DEFINE q == rs[i]
    <2>1. Valid(q) /\ Placed(t, key, q)
      BY <1>2 DEF Holds, R
    <2>2. ~(q.method = m /\ FlattenSeq(q.segments) = FlattenSeq(segs))
      BY <1>7
    <2> HIDE DEF q
    <2>3. PICK x \in 1 .. Len(t) : key[x] = FlattenSeq(q.segments) /\ t[x].chain[q.method] = q.chain
      BY <2>1 DEF Placed
    <2>4. t2[x].chain[q.method] = q.chain
      <3>1. CASE x # at
        BY <1>4, <2>3, <3>1
      <3>2. CASE x = at
        <4>1. q.method # m /\ q.method \in ToSet(Methods)
          BY <1>1, <2>1, <2>2, <2>3, <3>2 DEF Valid
        <4> QED BY <1>6, <2>3, <3>2, <4>1
      <3> QED BY <3>1, <3>2
    <2>5. Bounds(q.segments, Len(q.segments), t2, key)
      BY <1>4, <2>1 DEF Placed, Bounds
    <2>6. Placed(t2, key, q)
      BY <1>4, <2>3, <2>4, <2>5 DEF Placed
    <2> QED BY <2>6 DEF q
  <1>9. Placed(t2, key, r)
    <2>1. Bounds(segs, Len(segs), t2, key)
      BY <1>1, <1>4 DEF Bounds
    <2> QED BY <1>1, <1>4, <1>6, <2>1 DEF Placed
  <1>10. ASSUME NEW k, NEW n, NEW c, Ours(rs, k, n, c) PROVE Ours(rs2, k, n, c)
    <2>1. PICK i \in 1 .. R : rs[i].method = n /\ FlattenSeq(rs[i].segments) = k /\ rs[i].chain = c
      BY <1>10 DEF Ours, R
    <2>2. i \in 1 .. Len(rs2) /\ rs2[i] = rs[i]
      BY <1>3
    <2> QED BY <2>1, <2>2 DEF Ours
  <1>11. Ours(rs2, FlattenSeq(segs), m, r.chain)
    <2>1. R + 1 \in 1 .. Len(rs2)
      BY <1>3
    <2> QED BY <1>3, <2>1 DEF Ours
  <1>12. ASSUME NEW x \in 1 .. Len(t2), NEW n \in ToSet(Methods), t2[x].chain[n] # << >>
         PROVE  Ours(rs2, key[x], n, t2[x].chain[n])
    <2>1. CASE x = at /\ n = m
      BY <1>1, <1>6, <1>11, <2>1
    <2>2. CASE ~(x = at /\ n = m)
      <3>1. t2[x].chain[n] = t[x].chain[n] /\ x \in 1 .. Len(t)
        BY <1>4, <1>6, <2>2
      <3>2. Ours(rs, key[x], n, t[x].chain[n])
        BY <1>2, <1>12, <3>1 DEF Holds, Known
      <3> QED BY <1>10, <3>1, <3>2
    <2> QED BY <2>1, <2>2
  <1>13. Alone(rs2)
    <2>1. ASSUME NEW i \in 1 .. R + 1, NEW j \in 1 .. R + 1, rs2[i].method = rs2[j].method,
                 FlattenSeq(rs2[i].segments) = FlattenSeq(rs2[j].segments)
          PROVE  i = j
      <3>1. (i \in 1 .. R \/ i = R + 1) /\ (j \in 1 .. R \/ j = R + 1)
        BY <1>3
      <3>2. CASE i \in 1 .. R /\ j \in 1 .. R
        BY <1>2, <1>3, <2>1, <3>2 DEF Holds, Alone, R
      <3>3. CASE i \in 1 .. R /\ j = R + 1
        BY <1>3, <1>7, <2>1, <3>3
      <3>4. CASE i = R + 1 /\ j \in 1 .. R
        BY <1>3, <1>7, <2>1, <3>4
      <3> QED BY <3>1, <3>2, <3>3, <3>4
    <2> QED BY <1>3, <2>1 DEF Alone
  <1>14. ASSUME NEW i \in 1 .. Len(rs2) PROVE Valid(rs2[i]) /\ Placed(t2, key, rs2[i])
    <2>1. i \in 1 .. R \/ i = R + 1
      BY <1>3
    <2>2. \A j \in 1 .. R : Valid(rs[j])
      BY <1>2 DEF Holds, R
    <2> QED BY <1>3, <1>8, <1>9, <2>1, <2>2
  <1>15. Holds(t2, rs2, key)
    BY <1>1, <1>3, <1>12, <1>13, <1>14 DEF Holds, Known
  <1> QED BY <1>15 DEF rs2

-----------------------------------------------------------------------------
(* The invariant of registration                                           *)

\* What groups are made with: no catch-all
Formed(segs) == Sound(segs) /\ \A i \in 1 .. Len(segs) : segs[i][1] \notin CatchAlls

\* The inductive invariant: the trie holds the accepted routes, at keys.
LInv ==
    /\ RInv
    /\ \A g \in 1 .. Len(groups) : Formed(groups[g].prefix)
    /\ \E key : Holds(root, routes, key)

\* The patterns and the prefixes are of the forms the lemmas ask for.
LEMMA PatternsSound ==
    /\ \A pattern \in Patterns : Sound(pattern)
    /\ \A prefix \in GroupPrefixes : Formed(prefix)
  <1>1. ASSUME NEW s \in Seq(STRING), IsWord(s)
        PROVE  /\ s # << >> /\ \A n \in 1 .. Len(s) : s[n] \in Letters
               /\ s[1] \notin CatchAlls
    <2>1. s # << >> /\ Len(s) \in Nat /\ DOMAIN s = 1 .. Len(s) /\ \A n \in 1 .. Len(s) : s[n] \in STRING
      BY <1>1 DEF IsWord
    <2>2. 1 \in 1 .. Len(s)
      BY <2>1
    <2>3. \A n \in 1 .. Len(s) : s[n] \notin ParamSyms \cup CatchAlls \cup {"/"}
      BY <1>1, <2>1 DEF IsWord
    <2>4. \A n \in 1 .. Len(s) : s[n] \in Letters
      <3> TAKE n \in 1 .. Len(s)
      <3>1. s[n] \in STRING
        BY <2>1
      <3>2. s[n] \notin ParamSyms \cup CatchAlls \cup {"/"}
        BY <2>3, Zenon
      <3> QED BY <3>1, <3>2 DEF Letters
    <2> QED BY <2>1, <2>2, <2>3, <2>4
  <1>2. ASSUME NEW pattern \in Patterns PROVE Sound(pattern)
    <2>1. pattern \in Seq(Seq(STRING)) /\ DOMAIN pattern = 1 .. Len(pattern)
      BY RegistrationAssumption
    <2>2. ASSUME NEW i \in 1 .. Len(pattern)
          PROVE  \/ pattern[i] # << >> /\ \A n \in 1 .. Len(pattern[i]) : pattern[i][n] \in Letters
                 \/ Len(pattern[i]) = 1 /\ pattern[i][1] \in ParamSyms
                 \/ Len(pattern[i]) = 1 /\ pattern[i][1] \in CatchAlls /\ i = Len(pattern)
      <3>1. IsWord(pattern[i]) \/ IsParam(pattern[i]) \/ (IsCatchAll(pattern[i]) /\ i = Len(pattern))
        BY <2>1, RouteLookupAssumption
      <3>2. pattern[i] \in Seq(STRING)
        BY <2>1
      <3>3. CASE IsWord(pattern[i])
        BY <1>1, <3>2, <3>3
      <3>4. CASE IsParam(pattern[i])
        BY <3>4 DEF IsParam
      <3>5. CASE IsCatchAll(pattern[i]) /\ i = Len(pattern)
        BY <3>5, Zenon DEF IsCatchAll
      <3> QED BY <3>1, <3>3, <3>4, <3>5, Zenon
    <2> QED BY <2>1, <2>2 DEF Sound
  <1>3. ASSUME NEW prefix \in GroupPrefixes PROVE Formed(prefix)
    <2>1. prefix \in Seq(Seq(STRING)) /\ DOMAIN prefix = 1 .. Len(prefix)
      BY RegistrationAssumption
    <2>2. ASSUME NEW i \in 1 .. Len(prefix)
          PROVE  /\ \/ prefix[i] # << >> /\ \A n \in 1 .. Len(prefix[i]) : prefix[i][n] \in Letters
                    \/ Len(prefix[i]) = 1 /\ prefix[i][1] \in ParamSyms
                 /\ prefix[i][1] \notin CatchAlls
      <3>1. IsWord(prefix[i]) \/ IsParam(prefix[i])
        BY <2>1, RouteLookupAssumption
      <3>2. prefix[i] \in Seq(STRING)
        BY <2>1
      <3>3. CASE IsWord(prefix[i])
        BY <1>1, <3>2, <3>3
      <3>4. CASE IsParam(prefix[i])
        BY <3>4, RouterAssumption DEF IsParam
      <3> QED BY <3>1, <3>3, <3>4
    <2> QED BY <2>1, <2>2 DEF Sound, Formed
  <1> QED BY <1>2, <1>3

\* Segments behind a prefix
LEMMA Behind ==
    ASSUME NEW a, Formed(a), NEW b, Sound(b)
    PROVE  Sound(a \o b) /\ (Formed(b) => Formed(a \o b))
  <1> DEFINE ab == a \o b
  <1>1. a \in Seq(Seq(STRING)) /\ b \in Seq(Seq(STRING)) /\ Len(a) \in Nat /\ Len(b) \in Nat
    BY DEF Formed, Sound
  <1>2. /\ ab \in Seq(Seq(STRING)) /\ Len(ab) = Len(a) + Len(b)
        /\ \A i \in 1 .. Len(a) + Len(b) : ab[i] = IF i <= Len(a) THEN a[i] ELSE b[i - Len(a)]
    BY <1>1, ConcatProperties, Zenon
  <1> HIDE DEF ab
  <1>3. ASSUME NEW i \in 1 .. Len(ab)
        PROVE  \/ i \in 1 .. Len(a) /\ ab[i] = a[i]
               \/ i - Len(a) \in 1 .. Len(b) /\ ab[i] = b[i - Len(a)] /\ (i - Len(a) = Len(b) <=> i = Len(ab))
    BY <1>1, <1>2
  <1>4. ASSUME NEW i \in 1 .. Len(ab)
        PROVE  \/ ab[i] # << >> /\ \A n \in 1 .. Len(ab[i]) : ab[i][n] \in Letters
               \/ Len(ab[i]) = 1 /\ ab[i][1] \in ParamSyms
               \/ Len(ab[i]) = 1 /\ ab[i][1] \in CatchAlls /\ i = Len(ab)
    <2>1. CASE i \in 1 .. Len(a) /\ ab[i] = a[i]
      BY <2>1 DEF Formed, Sound
    <2>2. CASE i - Len(a) \in 1 .. Len(b) /\ ab[i] = b[i - Len(a)] /\ (i - Len(a) = Len(b) <=> i = Len(ab))
      <3> DEFINE j == i - Len(a)
      <3>1. \/ b[j] # << >> /\ \A n \in 1 .. Len(b[j]) : b[j][n] \in Letters
            \/ Len(b[j]) = 1 /\ b[j][1] \in ParamSyms
            \/ Len(b[j]) = 1 /\ b[j][1] \in CatchAlls /\ j = Len(b)
        BY <2>2 DEF Sound
      <3> QED BY <2>2, <3>1
    <2> QED BY <1>3, <2>1, <2>2
  <1>5. Sound(ab)
    BY <1>2, <1>4 DEF Sound
  <1>6. ASSUME Formed(b), NEW i \in 1 .. Len(ab) PROVE ab[i][1] \notin CatchAlls
    <2>1. \A n \in 1 .. Len(a) : a[n][1] \notin CatchAlls
      BY DEF Formed
    <2>2. \A n \in 1 .. Len(b) : b[n][1] \notin CatchAlls
      BY <1>6 DEF Formed
    <2> QED BY <1>3, <2>1, <2>2
  <1> QED BY <1>5, <1>6 DEF Formed, ab

\* An empty router is a keyed trie.
LEMMA EmptyKeyed ==
    Keyed(EmptyRouter, [x \in 1 .. 1 |-> << >>])
  <1> DEFINE n == Node(0, "static", <<"/">>, "none")
             key == [x \in 1 .. 1 |-> << >>]
  <1>1. NoChains \in [ToSet(Methods) -> Seq(Entries)]
    BY DEF NoChains
  <1>2. n \in NodeRecords
    <2> DEFINE Chains == [ToSet(Methods) -> Seq(Entries)]
               Names == STRING \cup {"none"}
    <2>1. NodeRecords = [parent : Nat, kind : {"static", "param", "catchAll"}, path : Seq(Symbols),
                         name : Names, chain : Chains]
      BY DEF NodeRecords
    <2>2. <<"/">> \in Seq(Symbols) /\ "none" \in Names /\ NoChains \in Chains
          /\ "static" \in {"static", "param", "catchAll"} /\ 0 \in Nat
      BY <1>1 DEF Symbols
    <2> HIDE DEF Chains, Names
    <2> QED BY <2>1, <2>2, Zenon DEF Node
  <1>3. n.parent = 0 /\ n.kind = "static"
    BY DEF Node
  <1> HIDE DEF n
  <1>4. EmptyRouter = << n >>
    BY DEF EmptyRouter, n
  <1>5. EmptyRouter \in Seq(NodeRecords) /\ Len(EmptyRouter) = 1 /\ EmptyRouter[1] = n
    BY <1>2, <1>4
  <1>6. key \in [1 .. 1 -> Seq(STRING)] /\ key[1] = << >>
    OBVIOUS
  <1> HIDE DEF key
  <1>7. \A c \in 2 .. 1 : FALSE
    OBVIOUS
  <1>8. Hangs(EmptyRouter, key)
    BY <1>3, <1>5, <1>6, <1>7 DEF Hangs
  <1>9. ApartHeads(EmptyRouter) /\ ApartKinds(EmptyRouter)
    BY <1>5, <1>7 DEF ApartHeads, ApartKinds
  <1>10. Distinct(EmptyRouter, key)
    BY <1>5 DEF Distinct
  <1>11. Branches(EmptyRouter, key)
    BY <1>5 DEF Branches
  <1> QED BY <1>8, <1>9, <1>10, <1>11 DEF Keyed, key

\* Before any call the trie holds the routes: there are none.
LEMMA LInit == Init => LInv
  <1> SUFFICES ASSUME Init PROVE LInv
    OBVIOUS
  <1>1. root = EmptyRouter /\ groups = << Group(0, << >>, << >>) >> /\ routes = << >>
    BY DEF Init
  <1>2. Len(groups) = 1 /\ groups[1].prefix = << >>
    BY <1>1 DEF Group
  <1>3. Formed(<< >>)
    BY DEF Formed, Sound
  <1>4. \A g \in 1 .. Len(groups) : Formed(groups[g].prefix)
    BY <1>2, <1>3
  <1> DEFINE key == [x \in 1 .. 1 |-> << >>]
  <1>5. Holds(root, routes, key)
    <2>1. Keyed(root, key)
      BY <1>1, EmptyKeyed
    <2>2. routes \in Seq(RouteRecords) /\ Len(routes) = 0
      BY <1>1
    <2>3. Len(root) = 1 /\ root[1].chain = NoChains
      BY <1>1 DEF EmptyRouter, Node
    <2>4. Known(root, key, routes)
      <3>1. \A m \in ToSet(Methods) : NoChains[m] = << >>
        BY DEF NoChains
      <3>2. \A x \in 1 .. 1 : x = 1
        OBVIOUS
      <3> HIDE DEF key
      <3> QED BY <2>3, <3>1, <3>2 DEF Known
    <2> HIDE DEF key
    <2> QED BY <2>1, <2>2, <2>4 DEF Holds, Alone
  <1> HIDE DEF key
  <1> QED BY <1>4, <1>5, InvInit DEF LInv

-----------------------------------------------------------------------------
(* get() and all(), again                                                  *)

\* The same of what a call has come to so far
Stands(s) == \E key : Holds(s.trie, s.routes, key)

\* add_route of one more method leaves a trie that holds the routes registered.
LEMMA RegisterStands ==
    ASSUME LInv, NEW g \in 1 .. Len(groups), NEW pattern \in Patterns, NEW m \in ToSet(Methods),
           NEW s, Stands(s)
    PROVE  Stands(Register(s, g, m, pattern))
  <1> DEFINE full == FullPattern(g, pattern)
             new == Route(g, m, pattern, Chain(g))
             segs == groups[g].prefix \o pattern
             a == AddRoute(s.trie, m, full, Chain(g))
             r == IF frozen THEN Threw(s.trie) ELSE a
             R == Register(s, g, m, pattern)
  <1>1. PICK key : Holds(s.trie, s.routes, key)
    BY DEF Stands
  <1>2. Formed(groups[g].prefix) /\ Sound(pattern) /\ Sound(segs)
    BY PatternsSound, Behind DEF LInv
  <1>3. /\ new.segments = segs /\ new.method = m /\ new.chain = Chain(g)
        /\ new \in RouteRecords /\ Valid(new) /\ Chain(g) \in Seq(Entries)
    <2>1. new.segments = segs /\ new.method = m /\ new.chain = Chain(g) /\ new.group = g
      BY DEF Route
    <2>2. RInv /\ Len(groups[g].uses) \in Nat
      BY Types DEF LInv, RInv
    <2>3. Chain(g) \in Seq(Entries) /\ Len(Chain(g)) = Len(groups[g].uses) + 1
      BY <2>2, ChainMade
    <2>4. Chain(g) # << >>
      BY <2>2, <2>3
    <2>5. m \in STRING
      BY MethodsAssumption DEF ToSet
    <2>6. segs \in Seq(Seq(STRING))
      BY <1>2 DEF Sound
    <2>7. new \in RouteRecords
      <3> HIDE DEF segs
      <3> QED BY <2>3, <2>5, <2>6 DEF RouteRecords, Route, segs
    <2> HIDE DEF new
    <2> QED BY <1>2, <2>1, <2>3, <2>4, <2>7 DEF Valid
  <1> HIDE DEF new
  <1>4. /\ full \in Seq(Symbols) /\ Len(full) >= 1
        /\ \E ending \in Endings : Tail(full) = Rest(segs, ending, 0)
    BY <1>2, SoundSegments, FullRest DEF Formed
  <1>5. PICK ending \in Endings : Tail(full) = Rest(segs, ending, 0)
    BY <1>4
  <1>6. Ended(s.trie, key, segs, m, Chain(g), a)
    <2>1. Keyed(s.trie, key)
      BY <1>1 DEF Holds
    <2> HIDE DEF segs, full
    <2> QED BY <1>2, <1>3, <1>4, <1>5, <2>1, AddRouteKeeps
  <1>7. R = [ok |-> r.ok, trie |-> r.trie,
             routes |-> IF r.ok THEN Append(s.routes, new) ELSE s.routes]
    BY DEF Register, new
  <1> HIDE DEF a, segs, full, r, R
  <1>8. R.trie = r.trie /\ R.routes = IF r.ok THEN Append(s.routes, new) ELSE s.routes
    BY <1>7
  <1>9. CASE frozen
    <2>1. r = Threw(s.trie)
      BY <1>9 DEF r
    <2>2. r.trie = s.trie /\ r.ok = FALSE
      BY <2>1, ResultIs DEF Ends
    <2> QED BY <1>1, <1>8, <2>2 DEF Stands, R
  <1>10. CASE ~frozen
    <2>1. r = a
      BY <1>10 DEF r
    <2>2. CASE a.ok = TRUE /\ Registered(s.trie, key, segs, m, Chain(g), a.trie)
      <3>1. \E k : Holds(a.trie, Append(s.routes, new), k)
        BY <1>1, <1>3, <2>2, HoldsRegistered
      <3>2. R.trie = a.trie /\ R.routes = Append(s.routes, new)
        BY <1>8, <2>1, <2>2
      <3> QED BY <3>1, <3>2 DEF Stands, R
    <2>3. CASE a.ok = FALSE /\ Refused(s.trie, key, a.trie)
      <3>1. PICK k : Keyed(a.trie, k) /\ Grown(s.trie, key, a.trie, k)
        BY <2>3 DEF Refused
      <3>2. Holds(a.trie, s.routes, k)
        BY <1>1, <3>1, HoldsGrown
      <3>3. R.trie = a.trie /\ R.routes = s.routes
        BY <1>8, <2>1, <2>3
      <3> QED BY <3>2, <3>3 DEF Stands, R
    <2> QED BY <1>6, <2>2, <2>3 DEF Ended
  <1> QED BY <1>9, <1>10

\* So does the trie before the first of them.
LEMMA SoFarStands == LInv => Stands(SoFar)
  BY DEF LInv, Stands, SoFar

\* A call of get() or all() that ends so keeps the invariant.
LEMMA SettleStands ==
    ASSUME LInv, RInv', NEW s, Stands(s), Settle(s)
    PROVE  LInv'
  <1>1. root' = s.trie /\ routes' = s.routes /\ groups' = groups
    BY DEF Settle
  <1>2. \A g \in 1 .. Len(groups') : Formed(groups'[g].prefix)
    BY <1>1 DEF LInv
  <1>3. \E key : Holds(root', routes', key)
    BY <1>1 DEF Stands
  <1>4. (\A g \in 1 .. Len(groups) : Formed(groups[g].prefix))'
    BY <1>2
  <1>5. (\E key : Holds(root, routes, key))'
    BY <1>3
  <1> QED BY <1>4, <1>5 DEF LInv

\* get() keeps the invariant, whether it throws or not.
LEMMA GetStands ==
    ASSUME LInv, NEW g, NEW pattern \in Patterns, NEW m \in ToSet(Methods), Get(g, m, pattern)
    PROVE  LInv'
  <1> DEFINE s == Register(SoFar, g, m, pattern)
  <1>1. RInv /\ RInv'
    BY GetKeeps DEF LInv
  <1>2. g \in 1 .. Len(groups)
    BY <1>1, Types DEF RInv, Get
  <1>3. Stands(s)
    BY <1>2, SoFarStands, RegisterStands
  <1>4. Settle(s)
    BY DEF Get
  <1> HIDE DEF s
  <1> QED BY <1>1, <1>3, <1>4, SettleStands

\* all() keeps it, also when it throws with some of the methods registered.
LEMMA AllStands ==
    ASSUME LInv, NEW g, NEW pattern \in Patterns, All(g, pattern)
    PROVE  LInv'
  <1> DEFINE N == Len(Methods)
  <1>1. RInv /\ RInv'
    BY AllKeeps DEF LInv
  <1>2. g \in 1 .. Len(groups) /\ N \in Nat /\ \A i \in 1 .. N : Methods[i] \in ToSet(Methods)
    BY <1>1, Types, MethodsAssumption DEF RInv, All, ToSet
  <1>3. PICK f : Tries(f, g, pattern) /\ Settle(f[N])
    BY AllUnfolds
  <1> DEFINE Good == {n \in Nat : n <= N => Stands(f[n])}
  <1>4. 0 \in Good
    BY <1>3, SoFarStands DEF Tries
  <1>5. ASSUME NEW n \in Nat, n \in Good PROVE n + 1 \in Good
    <2> SUFFICES ASSUME n + 1 <= N PROVE Stands(f[n + 1])
      OBVIOUS
    <2>1. n + 1 \in 1 .. N /\ (n + 1) - 1 = n /\ n <= N
      BY <1>2
    <2>2. \/ f[n + 1] = Register(f[n], g, Methods[n + 1], pattern)
          \/ f[n + 1] = f[n]
      BY <1>3, <2>1 DEF Tries
    <2>3. Stands(f[n]) /\ Methods[n + 1] \in ToSet(Methods)
      BY <1>2, <1>5, <2>1
    <2> QED BY <1>2, <2>2, <2>3, RegisterStands
  <1>6. Stands(f[N])
    <2> HIDE DEF Good
    <2>1. N \in Good
      BY <1>2, <1>4, <1>5, Induction
    <2> QED BY <1>2, <2>1 DEF Good
  <1> QED BY <1>1, <1>3, <1>6, SettleStands

\* use() does not touch the trie or the routes.
LEMMA UseStands == ASSUME LInv, NEW g, Use(g) PROVE LInv'
  <1>1. RInv' /\ RInv
    BY UseKeeps DEF LInv
  <1>2. groups' = [groups EXCEPT ![g].uses = Append(@, <<g, Len(@) + 1>>)] /\ g \in DOMAIN groups
        /\ root' = root /\ routes' = routes
    BY DEF Use
  <1>3. groups \in Seq(GroupRecords)
    BY <1>1 DEF RInv, Typed
  <1>4. \A h \in 1 .. Len(groups) : groups'[h].prefix = groups[h].prefix
    <2> TAKE h \in 1 .. Len(groups)
    <2> DEFINE gr == [groups[g] EXCEPT !.uses = Append(@, <<g, Len(@) + 1>>)]
    <2>1. groups' = [groups EXCEPT ![g] = gr]
      BY <1>2
    <2>2. gr.prefix = groups[g].prefix
      BY <1>2, <1>3 DEF GroupRecords
    <2> HIDE DEF gr
    <2> QED BY <1>2, <1>3, <2>1, <2>2
  <1>5. Len(groups') = Len(groups)
    <2>1. DOMAIN groups' = DOMAIN groups /\ groups' \in Seq(GroupRecords)
      BY <1>1, <1>2 DEF RInv, Typed
    <2> QED BY <1>3, <2>1
  <1>6. \A h \in 1 .. Len(groups') : Formed(groups'[h].prefix)
    BY <1>4, <1>5 DEF LInv
  <1>7. (\A h \in 1 .. Len(groups) : Formed(groups[h].prefix))'
    BY <1>6
  <1>8. (\E key : Holds(root, routes, key))'
    BY <1>2 DEF LInv
  <1> QED BY <1>1, <1>7, <1>8 DEF LInv

\* A subgroup gets a prefix that patterns can go on from.
LEMMA SubgroupStands ==
    ASSUME LInv, NEW g, NEW prefix \in GroupPrefixes, Subgroup(g, prefix) PROVE LInv'
  <1> DEFINE new == Group(g, groups[g].prefix \o prefix, groups[g].uses)
  <1>1. RInv' /\ RInv
    BY SubgroupKeeps DEF LInv
  <1>2. groups' = Append(groups, new) /\ g \in DOMAIN groups /\ root' = root /\ routes' = routes
    BY DEF Subgroup
  <1>3. groups \in Seq(GroupRecords) /\ Len(groups) \in Nat /\ g \in 1 .. Len(groups)
    BY <1>1, <1>2, Types DEF RInv
  <1>4. Formed(groups[g].prefix) /\ Formed(prefix)
    BY <1>3, PatternsSound DEF LInv
  <1>5. Formed(new.prefix)
    <2>1. new.prefix = groups[g].prefix \o prefix
      BY DEF Group
    <2>2. Sound(prefix)
      BY <1>4 DEF Formed
    <2> QED BY <1>4, <2>1, <2>2, Behind
  <1> HIDE DEF new
  <1>6. /\ Len(groups') = Len(groups) + 1 /\ groups'[Len(groups) + 1] = new
        /\ \A h \in 1 .. Len(groups) : groups'[h] = groups[h]
    <2>1. Append(groups, new) = groups'
      BY <1>2
    <2> QED BY <1>3, <2>1
  <1>7. \A h \in 1 .. Len(groups') : Formed(groups'[h].prefix)
    <2> TAKE h \in 1 .. Len(groups')
    <2>1. h \in 1 .. Len(groups) \/ h = Len(groups) + 1
      BY <1>3, <1>6
    <2>2. \A i \in 1 .. Len(groups) : Formed(groups[i].prefix)
      BY DEF LInv
    <2> QED BY <1>5, <1>6, <2>1, <2>2
  <1>8. (\A h \in 1 .. Len(groups) : Formed(groups[h].prefix))'
    BY <1>7
  <1>9. (\E key : Holds(root, routes, key))'
    BY <1>2 DEF LInv
  <1> QED BY <1>1, <1>8, <1>9 DEF LInv

\* Every call keeps the invariant.
LEMMA LNext == LInv /\ [Next]_vars => LInv'
  <1> SUFFICES ASSUME LInv, [Next]_vars PROVE LInv'
    OBVIOUS
  <1>1. ASSUME NEW g, Call(g) PROVE LInv'
    BY <1>1, UseStands, SubgroupStands, GetStands, AllStands DEF Call
  <1>2. RInv'
    BY InvNext DEF LInv
  <1>3. CASE UNCHANGED <<root, groups, routes>>
    <2>1. (\A g \in 1 .. Len(groups) : Formed(groups[g].prefix))'
      BY <1>3 DEF LInv
    <2>2. (\E key : Holds(root, routes, key))'
      BY <1>3 DEF LInv
    <2> QED BY <1>2, <2>1, <2>2 DEF LInv
  <1>4. CASE Listen
    BY <1>3, <1>4 DEF Listen
  <1>5. CASE UNCHANGED vars
    BY <1>3, <1>5 DEF vars
  <1> QED BY <1>1, <1>4, <1>5 DEF Next, AppCall, GroupCall

\* Every accepted route stands in the trie at its key with its own chain, no two
\* of a method at the same one, and nothing else does.
THEOREM RoutesKept == Spec => []LInv
  BY LInit, LNext, PTL DEF Spec

\* A trie that holds the routes is one a search can rely on.
LEMMA KeyedWell == LInv => WellFormed
  <1> SUFFICES ASSUME LInv PROVE WellFormed
    OBVIOUS
  <1>1. PICK key : Keyed(root, key)
    BY DEF LInv, Holds
  <1> DEFINE N == Len(root)
  <1>2. N \in Nat /\ DOMAIN root = 1 .. N /\ root[1].parent = 0 /\ root[1].kind = "static"
    BY <1>1, KeyedTypes DEF Keyed, Hangs
  <1>3. ASSUME NEW c \in 2 .. N
        PROVE  /\ root[c].parent \in 1 .. N /\ root[root[c].parent].kind # "catchAll"
               /\ root[c] \in NodeRecords /\ Labelled(root[c])
    BY <1>1, Child DEF Parented
  <1>4. \A c \in 1 .. N : c = 1 \/ c \in 2 .. N
    BY <1>2
  <1> HIDE DEF N
  <1>5. ASSUME NEW c \in 1 .. N, NEW d \in 1 .. N, root[c].parent = d
        PROVE  root[d].kind # "catchAll"
    <2>1. c # 1
      BY <1>2, <1>5
    <2> QED BY <1>3, <1>4, <1>5, <2>1
  <1>6. ASSUME NEW c \in 1 .. N, NEW d \in 1 .. N, c # d, root[c].parent = root[d].parent,
               root[c].kind = root[d].kind
        PROVE  /\ root[c].kind = "static" /\ root[c].path # << >> /\ root[d].path # << >>
               /\ Head(root[c].path) # Head(root[d].path)
    <2>1. c \in 2 .. N /\ d \in 2 .. N
      <3>1. \A x \in 2 .. N : root[x].parent # 0
        BY <1>2, <1>3
      <3> QED BY <1>2, <1>4, <1>6, <3>1
    <2>2. root[c].kind = "static"
      BY <1>1, <1>6, <2>1 DEF Keyed, ApartKinds, N
    <2>3. /\ root[c].path # << >> /\ root[c].path \in Seq(Letters)
          /\ root[d].path # << >> /\ root[d].path \in Seq(Letters)
      BY <1>3, <1>6, <2>1, <2>2 DEF Labelled
    <2>4. Label(root[c])[1] # Label(root[d])[1]
      BY <1>1, <1>6, <2>1 DEF Keyed, ApartHeads, N
    <2>5. Label(root[c]) = root[c].path /\ Label(root[d]) = root[d].path
      BY <1>6, <2>2 DEF Label
    <2> DEFINE a == root[c].path
               b == root[d].path
    <2>6. Head(a) = a[1] /\ Head(b) = b[1]
      <3>1. a \in Seq(Letters) /\ b \in Seq(Letters) /\ a # << >> /\ b # << >>
        BY <2>3
      <3> HIDE DEF a, b
      <3> QED BY <3>1
    <2> QED BY <2>2, <2>3, <2>4, <2>5, <2>6
  <1> QED BY <1>2, <1>5, <1>6 DEF WellFormed

\* Static siblings begin differently, there is at most one parameter and one
\* catch-all below a node, and nothing below a catch-all, however the calls of
\* router::add_route have split the edges (WellFormed).
THEOREM TrieWellFormed == Spec => []WellFormed
  BY RoutesKept, KeyedWell, PTL

-----------------------------------------------------------------------------
(* What a path has left                                                    *)

\* Left, symbol by symbol
Lefts(f, k, path) ==
    f[0] = path /\ \A n \in 1 .. Len(k) : f[n] = Advance(k[n], f[n - 1])

\* The recursion of Left has a value for every number of symbols.
LEMMA LeftUnfolds ==
    ASSUME NEW k, Len(k) \in Nat, NEW path
    PROVE  \E f : Lefts(f, k, path) /\ Left(k, path) = f[Len(k)]
  <1> DEFINE N == Len(k)
             Step(f, n) == IF n = 0 THEN path ELSE Advance(k[n], f[n - 1])
             left[n \in 0 .. N] == IF n = 0 THEN path ELSE Advance(k[n], left[n - 1])
             Upto == {n \in Nat : \E f : f = [i \in 0 .. n |-> Step(f, i)]}
  <1>1. Left(k, path) = left[N]
    BY DEF Left
  <1>2. left = CHOOSE f : f = [n \in 0 .. N |-> Step(f, n)]
    OBVIOUS
  <1> HIDE DEF left, N
  <1>3. N \in Nat
    BY DEF N
  <1>4. Nat \subseteq Upto
    <2>1. 0 \in Upto
      <3> DEFINE f == [i \in 0 .. 0 |-> path]
      <3>1. f = [i \in 0 .. 0 |-> Step(f, i)]
        OBVIOUS
      <3> QED BY <3>1
    <2>2. ASSUME NEW n \in Nat, n \in Upto PROVE n + 1 \in Upto
      <3>1. PICK f : f = [i \in 0 .. n |-> Step(f, i)]
        BY <2>2
      <3> DEFINE h == [i \in 0 .. n + 1 |-> IF i <= n THEN f[i] ELSE Step(f, n + 1)]
      <3>2. ASSUME NEW i \in 0 .. n + 1 PROVE h[i] = Step(h, i)
        <4>1. CASE i = 0
          <5>1. h[i] = f[i] /\ f[i] = path
            BY <3>1, <4>1
          <5> QED BY <4>1, <5>1
        <4>2. CASE i # 0
          <5>1. i - 1 \in 0 .. n /\ i - 1 <= n /\ i - 1 \in 0 .. n + 1
            BY <4>2
          <5>2. h[i - 1] = f[i - 1]
            BY <5>1
          <5>3. h[i] = Step(f, i)
            <6>1. CASE i <= n
              <7>1. h[i] = f[i] /\ i \in 0 .. n
                BY <6>1
              <7> HIDE DEF Step, h
              <7> QED BY <3>1, <7>1
            <6>2. CASE i = n + 1
              <7>1. ~(i <= n)
                BY <6>2
              <7> HIDE DEF Step
              <7> QED BY <6>2, <7>1
            <6> QED BY <6>1, <6>2
          <5> QED BY <4>2, <5>2, <5>3
        <4> QED BY <4>1, <4>2
      <3>3. h = [i \in 0 .. n + 1 |-> Step(h, i)]
        <4> HIDE DEF Step
        <4> QED BY <3>2
      <3>4. \E g : g = [i \in 0 .. n + 1 |-> Step(g, i)]
        BY <3>3
      <3> HIDE DEF Step
      <3> QED BY <2>2, <3>4
    <2> HIDE DEF Upto
    <2> QED BY <2>1, <2>2, Induction
  <1>5. left = [n \in 0 .. N |-> Step(left, n)]
    BY <1>2, <1>3, <1>4
  <1>6. \A n \in 0 .. N : left[n] = Step(left, n)
    <2> HIDE DEF Step
    <2> QED BY <1>5
  <1>7. left[0] = path
    <2>1. 0 \in 0 .. N
      BY <1>3
    <2> QED BY <1>6, <2>1
  <1>8. ASSUME NEW n \in 1 .. N PROVE left[n] = Advance(k[n], left[n - 1])
    <2>1. n \in 0 .. N /\ n # 0
      BY <1>3
    <2>2. left[n] = Step(left, n)
      BY <1>6, <2>1
    <2> QED BY <2>1, <2>2
  <1>9. Lefts(left, k, path)
    BY <1>7, <1>8 DEF Lefts, N
  <1> QED BY <1>1, <1>9 DEF N

\* One element more.
Appended(l, k, s) == /\ Len(k) \in Nat /\ Len(l) = Len(k) + 1 /\ l[Len(k) + 1] = s
                     /\ \A i \in 1 .. Len(k) : l[i] = k[i]

\* What Append makes.
LEMMA AppendIs ==
    ASSUME NEW X, NEW k \in Seq(X), NEW s \in X
    PROVE  Append(k, s) \in Seq(X) /\ Appended(Append(k, s), k, s)
  <1>1. Append(k, s) \in Seq(X) /\ Len(k) \in Nat /\ Len(Append(k, s)) = Len(k) + 1
    OBVIOUS
  <1>2. Append(k, s)[Len(k) + 1] = s /\ \A i \in 1 .. Len(k) : Append(k, s)[i] = k[i]
    BY AppendProperties
  <1> QED BY <1>1, <1>2 DEF Appended

\* One symbol more.
LEMMA LeftAppend ==
    ASSUME NEW k \in Seq(STRING), NEW s \in STRING, NEW path
    PROVE  Left(<< >>, path) = path /\ Left(Append(k, s), path) = Advance(s, Left(k, path))
  <1> DEFINE N == Len(k)
             l == Append(k, s)
  <1>1. N \in Nat /\ Len(l) = N + 1 /\ l[N + 1] = s /\ \A i \in 1 .. N : l[i] = k[i]
    <2>1. Appended(l, k, s)
      BY AppendIs
    <2> HIDE DEF l
    <2> QED BY <2>1 DEF Appended
  <1> HIDE DEF l
  <1>2. PICK f : Lefts(f, k, path) /\ Left(k, path) = f[N]
    BY <1>1, LeftUnfolds
  <1>3. PICK g : Lefts(g, l, path) /\ Left(l, path) = g[N + 1]
    BY <1>1, LeftUnfolds
  <1>4. PICK h : Lefts(h, << >>, path) /\ Left(<< >>, path) = h[0]
    <2>1. Len(<< >>) = 0
      OBVIOUS
    <2> QED BY <2>1, LeftUnfolds
  <1> HIDE DEF N
  <1> DEFINE Same == {n \in Nat : n <= N => f[n] = g[n]}
  <1>5. 0 \in Same
    BY <1>2, <1>3 DEF Lefts
  <1>6. ASSUME NEW n \in Nat, n \in Same PROVE n + 1 \in Same
    <2> SUFFICES ASSUME n + 1 <= N PROVE f[n + 1] = g[n + 1]
      OBVIOUS
    <2>1. n <= N /\ n + 1 \in 1 .. N /\ n + 1 \in 1 .. N + 1 /\ (n + 1) - 1 = n
      BY <1>1
    <2>2. f[n] = g[n] /\ l[n + 1] = k[n + 1]
      BY <1>1, <1>6, <2>1
    <2>3. f[n + 1] = Advance(k[n + 1], f[n])
      BY <1>2, <2>1 DEF Lefts, N
    <2>4. g[n + 1] = Advance(l[n + 1], g[n])
      BY <1>1, <1>3, <2>1 DEF Lefts
    <2> QED BY <2>2, <2>3, <2>4
  <1>7. f[N] = g[N]
    <2> HIDE DEF Same
    <2>1. N \in Same
      BY <1>1, <1>5, <1>6, Induction
    <2> QED BY <1>1, <2>1 DEF Same
  <1>8. g[N + 1] = Advance(s, g[N])
    <2>1. N + 1 \in 1 .. N + 1 /\ (N + 1) - 1 = N
      BY <1>1
    <2> QED BY <1>1, <1>3, <2>1 DEF Lefts
  <1> QED BY <1>2, <1>3, <1>4, <1>7, <1>8 DEF Lefts, l

-----------------------------------------------------------------------------
(* What a search has taken                                                 *)

\* What one symbol of a pattern takes of what is left
Capture(sym, rest) ==
    IF sym \in ParamSyms THEN << <<sym, SubSeq(rest, 1, Before(rest, {"/"}))>> >>
    ELSE IF sym \in CatchAlls THEN << <<sym, rest>> >> ELSE << >>

\* What all of them take
Caps(k, path) == FlattenSeq([i \in 1 .. Len(k) |-> Capture(k[i], Left(SubSeq(k, 1, i - 1), path))])

\* Names with values
Pairs(X) == STRING \X Seq(X)

\* The types of what one symbol leaves and takes
LEMMA AdvanceType ==
    ASSUME NEW X, "/" \in X, NEW rest \in Seq(X), NEW sym \in STRING
    PROVE  Advance(sym, rest) \in Seq(X) /\ Capture(sym, rest) \in Seq(Pairs(X))
  <1> DEFINE b == Before(rest, {"/"})
  <1>1. b \in 0 .. Len(rest) /\ Len(rest) \in Nat
    BY BeforeIs
  <1> HIDE DEF b
  <1>2. Drop(rest, b + 1) \in Seq(X)
    BY <1>1 DEF Drop
  <1>3. SubSeq(rest, 1, b) \in Seq(X)
    BY <1>1
  <1>4. <<"/">> \in Seq(X) /\ << >> \in Seq(X)
    OBVIOUS
  <1>7. Capture(sym, rest) \in Seq(Pairs(X))
    <2>1. <<sym, SubSeq(rest, 1, b)>> \in Pairs(X) /\ <<sym, rest>> \in Pairs(X)
      BY <1>3 DEF Pairs
    <2> DEFINE p == <<sym, SubSeq(rest, 1, b)>>
               q == <<sym, rest>>
    <2>2. Capture(sym, rest) \in {<< p >>, << q >>, << >>}
      BY DEF Capture, b
    <2>3. p \in Pairs(X) /\ q \in Pairs(X)
      BY <2>1
    <2> HIDE DEF p, q
    <2>4. << p >> \in Seq(Pairs(X)) /\ << q >> \in Seq(Pairs(X)) /\ << >> \in Seq(Pairs(X))
      BY <2>3
    <2> QED BY <2>2, <2>4
  <1>5. CASE rest = << >> \/ Head(rest) = "/"
    <2>1. Advance(sym, rest) = <<"/">>
      BY <1>5 DEF Advance
    <2> QED BY <1>4, <1>7, <2>1
  <1>6. CASE ~(rest = << >> \/ Head(rest) = "/")
    <2>1. Tail(rest) \in Seq(X) /\ SkipSlash(Tail(rest)) \in Seq(X)
      <3>1. Tail(rest) \in Seq(X)
        BY <1>6
      <3> DEFINE u == Tail(rest)
      <3> HIDE DEF u
      <3>2. ASSUME u \in Seq(X) PROVE SkipSlash(u) \in Seq(X)
        BY <3>2 DEF SkipSlash
      <3> QED BY <3>1, <3>2 DEF u
    <2>2. Advance(sym, rest) \in {Drop(rest, b + 1), << >>, SkipSlash(Tail(rest)), <<"/">>}
      BY <1>6 DEF Advance, b
    <2>3. Advance(sym, rest) \in Seq(X)
      BY <1>2, <1>4, <2>1, <2>2
    <2> QED BY <1>7, <2>3
  <1> QED BY <1>5, <1>6

\* A sequence goes on symbol by symbol.
LEMMA OneMore ==
    ASSUME NEW X, NEW k \in Seq(X), NEW n \in 0 .. Len(k) - 1
    PROVE  /\ SubSeq(k, 1, n) \in Seq(X) /\ k[n + 1] \in X /\ Len(SubSeq(k, 1, n)) = n
           /\ SubSeq(k, 1, n + 1) = Append(SubSeq(k, 1, n), k[n + 1])
  <1> DEFINE a == SubSeq(k, 1, n)
             b == SubSeq(k, 1, n + 1)
             c == Append(a, k[n + 1])
  <1>1. Len(k) \in Nat /\ n \in Nat /\ n + 1 \in 1 .. Len(k)
    OBVIOUS
  <1>2. a \in Seq(X) /\ Len(a) = n /\ \A i \in 1 .. n : a[i] = k[i]
    OBVIOUS
  <1>3. b \in Seq(X) /\ Len(b) = n + 1 /\ \A i \in 1 .. n + 1 : b[i] = k[i]
    OBVIOUS
  <1>4. k[n + 1] \in X
    BY <1>1
  <1> HIDE DEF a, b
  <1>5. c \in Seq(X) /\ Appended(c, a, k[n + 1])
    BY <1>2, <1>4, AppendIs
  <1> HIDE DEF c
  <1>6. Len(c) = n + 1 /\ c[n + 1] = k[n + 1] /\ \A i \in 1 .. n : c[i] = a[i]
    BY <1>2, <1>5 DEF Appended
  <1>7. \A i \in 1 .. n + 1 : c[i] = b[i]
    <2> TAKE i \in 1 .. n + 1
    <2>1. i \in 1 .. n \/ i = n + 1
      BY <1>1
    <2> QED BY <1>2, <1>3, <1>6, <2>1
  <1>8. b = c
    BY <1>3, <1>5, <1>6, <1>7, SeqEqual
  <1> QED BY <1>2, <1>4, <1>8 DEF a, b, c

\* What is left is of the path's symbols.
LEMMA LeftType ==
    ASSUME NEW X, "/" \in X, NEW path \in Seq(X), NEW k \in Seq(STRING)
    PROVE  Left(k, path) \in Seq(X)
  <1> DEFINE S == {n \in Nat : n <= Len(k) => Left(SubSeq(k, 1, n), path) \in Seq(X)}
  <1>1. 0 \in S
    <2>1. SubSeq(k, 1, 0) = << >>
      BY SubSeqEmpty
    <2>2. Left(<< >>, path) = path
      <3>1. PICK f : Lefts(f, << >>, path) /\ Left(<< >>, path) = f[0]
        <4>1. Len(<< >>) = 0
          OBVIOUS
        <4> QED BY <4>1, LeftUnfolds
      <3> QED BY <3>1 DEF Lefts
    <2> QED BY <2>1, <2>2
  <1>2. ASSUME NEW n \in Nat, n \in S PROVE n + 1 \in S
    <2> SUFFICES ASSUME n + 1 <= Len(k) PROVE Left(SubSeq(k, 1, n + 1), path) \in Seq(X)
      OBVIOUS
    <2>1. n \in 0 .. Len(k) - 1 /\ n <= Len(k)
      OBVIOUS
    <2> DEFINE a == SubSeq(k, 1, n)
               s == k[n + 1]
    <2>2. a \in Seq(STRING) /\ s \in STRING /\ SubSeq(k, 1, n + 1) = Append(a, s)
      BY <2>1, OneMore
    <2>3. Left(a, path) \in Seq(X)
      BY <1>2, <2>1
    <2> HIDE DEF a, s
    <2>4. Left(Append(a, s), path) = Advance(s, Left(a, path))
      BY <2>2, LeftAppend
    <2> QED BY <2>2, <2>3, <2>4, AdvanceType
  <1>3. Len(k) \in S
    <2> HIDE DEF S
    <2>1. Len(k) \in Nat
      OBVIOUS
    <2> QED BY <1>1, <1>2, <2>1, Induction
  <1>4. SubSeq(k, 1, Len(k)) = k
    BY SubSeqFull
  <1>5. Left(SubSeq(k, 1, Len(k)), path) \in Seq(X)
    <2>1. Len(k) <= Len(k)
      OBVIOUS
    <2> QED BY <1>3, <2>1
  <1> QED BY <1>4, <1>5

\* The captures of the symbols, before they are joined
Takes(k, path) == [i \in 1 .. Len(k) |-> Capture(k[i], Left(SubSeq(k, 1, i - 1), path))]

\* What is taken are pairs of a symbol and a part of the path.
LEMMA CapsType ==
    ASSUME NEW X, "/" \in X, NEW path \in Seq(X), NEW k \in Seq(STRING)
    PROVE  /\ Takes(k, path) \in Seq(Seq(Pairs(X))) /\ Len(Takes(k, path)) = Len(k)
           /\ Caps(k, path) \in Seq(Pairs(X))
  <1>1. Takes(k, path) \in Seq(Seq(Pairs(X))) /\ Len(Takes(k, path)) = Len(k)
    <2>1. Len(k) \in Nat
      OBVIOUS
    <2>2. ASSUME NEW i \in 1 .. Len(k)
          PROVE  Capture(k[i], Left(SubSeq(k, 1, i - 1), path)) \in Seq(Pairs(X))
      <3>1. SubSeq(k, 1, i - 1) \in Seq(STRING) /\ k[i] \in STRING
        OBVIOUS
      <3> QED BY <3>1, LeftType, AdvanceType
    <2> DEFINE c == Takes(k, path)
    <2>3. c \in [1 .. Len(k) -> Seq(Pairs(X))]
      BY <2>2 DEF Takes
    <2> HIDE DEF c
    <2>4. c \in Seq(Seq(Pairs(X))) /\ Len(c) = Len(k)
      BY <2>1, <2>3
    <2> QED BY <2>4 DEF c
  <1>2. FlattenSeq(Takes(k, path)) \in Seq(Pairs(X))
    <2>1. << >> \in Seq(Pairs(X))
      OBVIOUS
    <2> QED BY <1>1, <2>1, FlattenAppend
  <1> QED BY <1>1, <1>2 DEF Caps, Takes

\* One symbol more takes what it captures of what is left.
LEMMA CapsAppend ==
    ASSUME NEW X, "/" \in X, NEW path \in Seq(X), NEW k \in Seq(STRING), NEW s \in STRING
    PROVE  /\ Caps(<< >>, path) = << >> /\ Caps(k, path) \in Seq(Pairs(X))
           /\ Caps(Append(k, s), path) = Caps(k, path) \o Capture(s, Left(k, path))
  <1> DEFINE N == Len(k)
             l == Append(k, s)
             C(a) == [i \in 1 .. Len(a) |-> Capture(a[i], Left(SubSeq(a, 1, i - 1), path))]
             new == Capture(s, Left(k, path))
  <1>1. N \in Nat /\ Len(l) = N + 1 /\ l[N + 1] = s /\ \A i \in 1 .. N : l[i] = k[i]
    <2>1. Appended(l, k, s)
      BY AppendIs
    <2> HIDE DEF l
    <2> QED BY <2>1 DEF Appended
  <1>2. l \in Seq(STRING)
    BY AppendIs
  <1>3. ASSUME NEW a \in Seq(STRING) PROVE C(a) \in Seq(Seq(Pairs(X))) /\ Len(C(a)) = Len(a)
    BY CapsType DEF Takes
  <1>4. ASSUME NEW i \in 0 .. N PROVE SubSeq(l, 1, i) = SubSeq(k, 1, i)
    <2> DEFINE a == SubSeq(l, 1, i)
               b == SubSeq(k, 1, i)
    <2>1. b \in Seq(STRING) /\ Len(b) = i /\ \A j \in 1 .. i : b[j] = k[j]
      OBVIOUS
    <2>2. i \in 0 .. Len(l)
      BY <1>1
    <2>3. a \in Seq(STRING) /\ Len(a) = i /\ \A j \in 1 .. i : a[j] = l[j]
      <3> HIDE DEF l
      <3> QED BY <1>2, <2>2
    <2>4. \A j \in 1 .. i : a[j] = b[j]
      <3> HIDE DEF a, b, l
      <3>1. \A j \in 1 .. i : j \in 1 .. N
        BY <1>1
      <3> QED BY <1>1, <2>1, <2>3, <3>1
    <2> HIDE DEF a, b
    <2>5. a = b
      BY <2>1, <2>3, <2>4, SeqEqual
    <2> QED BY <2>5 DEF a, b
  <1>5. C(l) = Append(C(k), new)
    <2> DEFINE a == C(l)
               b == C(k)
               c == Append(b, new)
    <2>1. a \in Seq(Seq(Pairs(X))) /\ Len(a) = N + 1
      BY <1>1, <1>2, <1>3
    <2>2. b \in Seq(Seq(Pairs(X))) /\ Len(b) = N
      BY <1>3
    <2>3. new \in Seq(Pairs(X))
      BY LeftType, AdvanceType
    <2>4. c \in Seq(Seq(Pairs(X))) /\ Appended(c, b, new)
      <3> HIDE DEF b, new
      <3> QED BY <2>2, <2>3, AppendIs
    <2>5. Len(c) = N + 1 /\ c[N + 1] = new /\ \A i \in 1 .. N : c[i] = b[i]
      BY <2>2, <2>4 DEF Appended
    <2>6. a[N + 1] = new
      <3>1. a[N + 1] = Capture(l[N + 1], Left(SubSeq(l, 1, (N + 1) - 1), path))
        <4>1. N + 1 \in 1 .. Len(l)
          BY <1>1
        <4> HIDE DEF l, N
        <4> QED BY <4>1
      <3>2. (N + 1) - 1 = N /\ SubSeq(k, 1, N) = k /\ N \in 0 .. N
        BY <1>1, SubSeqFull
      <3> QED BY <1>1, <1>4, <3>1, <3>2
    <2>7. ASSUME NEW i \in 1 .. N PROVE a[i] = b[i]
      <3>1. i \in 1 .. Len(l) /\ i \in 1 .. Len(k) /\ i - 1 \in 0 .. N
        BY <1>1
      <3>2. a[i] = Capture(l[i], Left(SubSeq(l, 1, i - 1), path))
        <4> HIDE DEF l
        <4> QED BY <3>1
      <3>3. b[i] = Capture(k[i], Left(SubSeq(k, 1, i - 1), path))
        BY <3>1
      <3>4. l[i] = k[i] /\ SubSeq(l, 1, i - 1) = SubSeq(k, 1, i - 1)
        BY <1>1, <1>4, <3>1
      <3> QED BY <3>2, <3>3, <3>4
    <2>8. \A i \in 1 .. N + 1 : a[i] = c[i]
      <3> TAKE i \in 1 .. N + 1
      <3>1. i \in 1 .. N \/ i = N + 1
        BY <1>1
      <3> HIDE DEF a, b, c, new
      <3> QED BY <2>5, <2>6, <2>7, <3>1
    <2> HIDE DEF a, b, c, new
    <2>9. a = c
      BY <2>1, <2>4, <2>5, <2>8, SeqEqual
    <2> QED BY <2>9 DEF a, b, c, new
  <1>6. FlattenSeq(C(k)) \in Seq(Pairs(X)) /\ FlattenSeq(C(l)) = FlattenSeq(C(k)) \o new
    <2>1. C(k) \in Seq(Seq(Pairs(X))) /\ new \in Seq(Pairs(X))
      BY <1>3, LeftType, AdvanceType
    <2> HIDE DEF C, new, l
    <2> QED BY <1>5, <2>1, FlattenAppend
  <1>7. Caps(<< >>, path) = << >>
    <2>1. C(<< >>) \in Seq(Seq(Pairs(X))) /\ Len(C(<< >>)) = 0
      <3>1. << >> \in Seq(STRING) /\ Len(<< >>) = 0
        OBVIOUS
      <3> HIDE DEF C
      <3> QED BY <1>3, <3>1
    <2>2. C(<< >>) = << >>
      <3> DEFINE e == C(<< >>)
      <3>1. e \in Seq(Seq(Pairs(X))) /\ Len(e) = 0
        BY <2>1
      <3> HIDE DEF e
      <3>2. e = << >>
        BY <3>1, EmptySeq
      <3> QED BY <3>2 DEF e
    <2>3. FlattenSeq(<< >>) = << >>
      BY DEF FlattenSeq
    <2>4. Caps(<< >>, path) = FlattenSeq(C(<< >>))
      BY DEF Caps
    <2> QED BY <2>2, <2>3, <2>4
  <1>8. Caps(k, path) = FlattenSeq(C(k)) /\ Caps(l, path) = FlattenSeq(C(l))
    BY DEF Caps
  <1> QED BY <1>6, <1>7, <1>8

\* Before the first symbol all of the path is left.
LEMMA EmptyWalk ==
    ASSUME NEW X, "/" \in X, NEW path \in Seq(X)
    PROVE  Left(<< >>, path) = path /\ Caps(<< >>, path) = << >>
  <1>1. << >> \in Seq(STRING)
    OBVIOUS
  <1>2. PICK g : Lefts(g, << >>, path) /\ Left(<< >>, path) = g[0]
    <2>1. Len(<< >>) = 0
      OBVIOUS
    <2> QED BY <2>1, LeftUnfolds
  <1>3. Left(<< >>, path) = path
    BY <1>2 DEF Lefts
  <1>4. Caps(<< >>, path) = << >>
    <2>1. Takes(<< >>, path) \in Seq(Seq(Pairs(X))) /\ Len(Takes(<< >>, path)) = Len(<< >>)
      BY <1>1, CapsType
    <2> DEFINE e == Takes(<< >>, path)
    <2>2. e \in Seq(Seq(Pairs(X))) /\ Len(e) = 0
      BY <2>1
    <2> HIDE DEF e
    <2>3. e = << >>
      BY <2>2, EmptySeq
    <2>4. FlattenSeq(<< >>) = << >>
      BY DEF FlattenSeq
    <2> QED BY <2>3, <2>4 DEF e, Caps, Takes
  <1> QED BY <1>3, <1>4

\* A path that is used up, or has got stuck, leads no further; and nothing that
\* was taken is given back.
Stuck(rest) == rest = << >> \/ rest = <<"/">>

\* What a longer key leaves and takes, compared with a shorter one.
LEMMA Beyond ==
    ASSUME NEW X, "/" \in X, NEW path \in Seq(X), NEW a \in Seq(STRING), NEW b \in Seq(STRING),
           Prefix(a, b)
    PROVE  /\ Len(Caps(a, path)) <= Len(Caps(b, path))
           /\ Stuck(Left(a, path)) /\ Len(a) < Len(b) => Left(b, path) = <<"/">>
  <1> DEFINE A == Len(a)
             B == Len(b)
             K(n) == SubSeq(b, 1, n)
             Fine(n) == /\ Len(Caps(a, path)) <= Len(Caps(K(A + n), path))
                        /\ Stuck(Left(a, path)) /\ n > 0 => Left(K(A + n), path) = <<"/">>
             S == {n \in Nat : A + n <= B => Fine(n)}
  <1>1. A \in Nat /\ B \in Nat /\ A <= B /\ \A i \in 1 .. A : a[i] = b[i]
    BY DEF Prefix
  <1>2. K(A + 0) = a
    <2>1. K(A) \in Seq(STRING) /\ Len(K(A)) = A /\ \A i \in 1 .. A : K(A)[i] = b[i]
      BY <1>1
    <2> HIDE DEF K
    <2>2. K(A) = a
      BY <1>1, <2>1, SeqEqual
    <2>3. A + 0 = A
      BY <1>1
    <2> QED BY <2>2, <2>3
  <1>3. ASSUME NEW k \in Seq(STRING) PROVE Len(Caps(k, path)) \in Nat
    <2>1. Caps(k, path) \in Seq(Pairs(X))
      BY CapsType
    <2> QED BY <2>1
  <1>4. 0 \in S
    <2>1. Len(Caps(a, path)) <= Len(Caps(a, path))
      BY <1>3
    <2> HIDE DEF K
    <2> QED BY <1>2, <2>1
  <1>5. ASSUME NEW n \in Nat, n \in S PROVE n + 1 \in S
    <2> SUFFICES ASSUME A + (n + 1) <= B PROVE Fine(n + 1)
      <3> HIDE DEF Fine
      <3> QED OBVIOUS
    <2>1. A + n \in 0 .. B - 1 /\ A + n <= B /\ A + (n + 1) = (A + n) + 1 /\ n + 1 > 0
      BY <1>1
    <2> DEFINE k == K(A + n)
               s == b[(A + n) + 1]
    <2>2. Fine(n)
      <3> HIDE DEF Fine
      <3> QED BY <1>5, <2>1
    <2>3. k \in Seq(STRING) /\ s \in STRING /\ K(A + (n + 1)) = Append(k, s)
      BY <2>1, OneMore
    <2>9. n = 0 => k = a
      BY <1>2
    <2> HIDE DEF K, k, s, A, B
    <2>4. Left(Append(k, s), path) = Advance(s, Left(k, path))
      BY <2>3, LeftAppend
    <2>5. Caps(Append(k, s), path) = Caps(k, path) \o Capture(s, Left(k, path))
      BY <2>3, CapsAppend
    <2>6. Caps(k, path) \in Seq(Pairs(X)) /\ Capture(s, Left(k, path)) \in Seq(Pairs(X))
      BY <2>3, CapsAppend, LeftType, AdvanceType
    <2>7. Len(Caps(Append(k, s), path)) >= Len(Caps(k, path))
      <3> DEFINE u == Caps(k, path)
                 v == Capture(s, Left(k, path))
      <3>1. u \in Seq(Pairs(X)) /\ v \in Seq(Pairs(X))
        BY <2>6
      <3> HIDE DEF u, v
      <3>2. Len(u \o v) >= Len(u)
        BY <3>1
      <3> QED BY <2>5, <3>2 DEF u, v
    <2>8. Stuck(Left(k, path)) => Advance(s, Left(k, path)) = <<"/">>
      <3>1. ASSUME NEW r, Stuck(r) PROVE Advance(s, r) = <<"/">>
        <4>1. r = << >> \/ Head(r) = "/"
          BY <3>1 DEF Stuck
        <4> QED BY <4>1 DEF Advance
      <3> QED BY <3>1
    <2>10. Len(Caps(a, path)) <= Len(Caps(Append(k, s), path))
      <3>1. Len(Caps(a, path)) \in Nat /\ Len(Caps(k, path)) \in Nat /\ Len(Caps(Append(k, s), path)) \in Nat
        <4>1. Append(k, s) \in Seq(STRING)
          BY <2>3, AppendIs
        <4> QED BY <1>3, <2>3, <4>1
      <3> QED BY <2>2, <2>7, <3>1 DEF k
    <2>11. Stuck(Left(a, path)) => Left(Append(k, s), path) = <<"/">>
      <3>1. CASE n = 0
        BY <2>4, <2>8, <2>9, <3>1
      <3>2. CASE n # 0
        <4>1. n > 0
          BY <3>2
        <4>2. Stuck(Left(a, path)) => Left(k, path) = <<"/">>
          BY <2>2, <4>1 DEF k
        <4> QED BY <2>4, <2>8, <4>2 DEF Stuck
      <3> QED BY <3>1, <3>2
    <2> QED BY <2>3, <2>10, <2>11
  <1>6. Fine(B - A)
    <2> HIDE DEF S, Fine
    <2>1. B - A \in Nat /\ A + (B - A) <= B
      BY <1>1
    <2>2. B - A \in S
      BY <1>4, <1>5, <2>1, Induction
    <2> QED BY <2>1, <2>2 DEF S
  <1>7. K(A + (B - A)) = b /\ (A < B <=> B - A > 0)
    <2>1. A + (B - A) = B
      BY <1>1
    <2> QED BY <1>1, <2>1, SubSeqFull
  <1> HIDE DEF K
  <1> QED BY <1>6, <1>7

\* IsPrefix, symbol by symbol
LEMMA PrefixIs ==
    ASSUME NEW X, NEW a \in Seq(X), NEW b \in Seq(X)
    PROVE  IsPrefix(a, b) <=> Prefix(a, b)
  <1> DEFINE A == Len(a)
             u == SubSeq(a, 1, A)
             v == SubSeq(b, 1, A)
  <1>1. A \in Nat /\ Len(b) \in Nat /\ u = a
    BY SubSeqFull
  <1>2. IsPrefix(a, b) <=> A <= Len(b) /\ u = v
    BY <1>1 DEF IsPrefix
  <1>3. CASE A <= Len(b)
    <2>1. v \in Seq(X) /\ Len(v) = A /\ \A i \in 1 .. A : v[i] = b[i]
      BY <1>3
    <2> HIDE DEF u, v
    <2>2. u = v <=> \A i \in 1 .. A : a[i] = b[i]
      <3>1. ASSUME \A i \in 1 .. A : a[i] = b[i] PROVE a = v
        <4>1. \A i \in 1 .. Len(a) : a[i] = v[i]
          BY <2>1, <3>1
        <4> QED BY <2>1, <4>1, SeqEqual
      <3> QED BY <1>1, <2>1, <3>1
    <2> QED BY <1>2, <1>3, <2>2 DEF Prefix
  <1>4. CASE ~(A <= Len(b))
    BY <1>2, <1>4 DEF Prefix
  <1> QED BY <1>3, <1>4

\* A path without empty segments, in which no search leaves a "/" in front
Clean(r) ==
    \A i \in 1 .. Len(r) : r[i] = "/" => i # 1 /\ (i < Len(r) => r[i + 1] # "/")

\* What is left behind some symbols of a clean path, when the "/" is skipped.
LEMMA CleanDrop ==
    ASSUME NEW X, NEW r \in Seq(X), Clean(r), NEW n \in 1 .. Len(r)
    PROVE  /\ Clean(SkipSlash(Drop(r, n))) /\ SkipSlash(Drop(r, n)) \in Seq(X)
           /\ Len(SkipSlash(Drop(r, n))) < Len(r)
           /\ n = Len(r) => SkipSlash(Drop(r, n)) = << >>
           /\ n < Len(r) /\ r[n + 1] # "/" => SkipSlash(Drop(r, n)) = Drop(r, n) /\ Drop(r, n) # << >>
           /\ n < Len(r) /\ r[n + 1] = "/" => SkipSlash(Drop(r, n)) = Drop(r, n + 1)
  <1> DEFINE R == Len(r)
             d == Drop(r, n)
  <1>1. R \in Nat
    OBVIOUS
  <1>2. d \in Seq(X) /\ Len(d) = R - n /\ \A i \in 1 .. R - n : d[i] = r[n + i]
    BY DropIs
  <1> HIDE DEF d
  <1>3. ASSUME NEW m \in 1 .. R, m < R => r[m + 1] # "/"
        PROVE  Clean(Drop(r, m))
    <2> DEFINE e == Drop(r, m)
    <2>1. e \in Seq(X) /\ Len(e) = R - m /\ \A i \in 1 .. R - m : e[i] = r[m + i]
      BY DropIs
    <2> HIDE DEF e
    <2>2. ASSUME NEW i \in 1 .. Len(e), e[i] = "/" PROVE i # 1 /\ (i < Len(e) => e[i + 1] # "/")
      <3>1. m + i \in 1 .. R /\ i \in 1 .. R - m /\ m < R
        BY <1>1, <2>1
      <3>2. r[m + i] = "/"
        BY <2>1, <2>2, <3>1
      <3>3. i # 1
        BY <1>3, <3>1, <3>2
      <3>4. ASSUME i < Len(e) PROVE e[i + 1] # "/"
        <4>1. m + i < R /\ i + 1 \in 1 .. R - m /\ m + (i + 1) = (m + i) + 1
          BY <1>1, <2>1, <3>1, <3>4
        <4>2. r[(m + i) + 1] # "/"
          BY <3>1, <3>2, <4>1 DEF Clean
        <4> QED BY <2>1, <4>1, <4>2
      <3> QED BY <3>3, <3>4
    <2> QED BY <2>2 DEF Clean, e
  <1>4. CASE n = R
    <2>1. d = << >>
      BY <1>1, <1>2, <1>4
    <2>2. SkipSlash(d) = << >>
      BY <2>1 DEF SkipSlash
    <2>3. Clean(<< >>) /\ << >> \in Seq(X) /\ Len(<< >>) = 0 /\ 0 < R
      BY <1>1, <1>4 DEF Clean
    <2> QED BY <1>1, <1>4, <2>2, <2>3 DEF d
  <1>5. CASE n < R /\ r[n + 1] # "/"
    <2>1. d # << >> /\ Head(d) = r[n + 1] /\ Len(d) < R
      BY <1>1, <1>2, <1>5
    <2>2. SkipSlash(d) = d
      BY <1>5, <2>1 DEF SkipSlash
    <2>3. Clean(d)
      BY <1>3, <1>5 DEF d
    <2> QED BY <1>1, <1>2, <1>5, <2>1, <2>2, <2>3 DEF d
  <1>6. CASE n < R /\ r[n + 1] = "/"
    <2>1. d # << >> /\ Head(d) = "/"
      BY <1>1, <1>2, <1>6
    <2>2. SkipSlash(d) = Tail(d)
      BY <2>1 DEF SkipSlash
    <2> DEFINE e == Drop(r, n + 1)
    <2>3. e \in Seq(X) /\ Len(e) = R - (n + 1) /\ \A i \in 1 .. R - (n + 1) : e[i] = r[(n + 1) + i]
      <3>1. n + 1 \in 0 .. R
        BY <1>1, <1>6
      <3> QED BY <3>1, DropIs
    <2>4. Tail(d) \in Seq(X) /\ Len(Tail(d)) = R - (n + 1) /\ \A i \in 1 .. R - (n + 1) : Tail(d)[i] = r[(n + 1) + i]
      <3>1. /\ Tail(d) \in Seq(X) /\ Len(Tail(d)) = Len(d) - 1
            /\ \A i \in 1 .. Len(d) - 1 : Tail(d)[i] = d[i + 1]
        BY <1>2, <2>1
      <3>2. Len(d) - 1 = R - (n + 1)
        BY <1>1, <1>2
      <3>3. ASSUME NEW i \in 1 .. R - (n + 1) PROVE Tail(d)[i] = r[(n + 1) + i]
        <4>1. i + 1 \in 1 .. R - n /\ n + (i + 1) = (n + 1) + i
          BY <1>1
        <4> QED BY <1>2, <3>1, <3>2, <4>1
      <3> QED BY <3>1, <3>2, <3>3
    <2>5. Tail(d) = e
      <3> DEFINE u == Tail(d)
      <3>1. u \in Seq(X) /\ Len(u) = Len(e) /\ \A i \in 1 .. Len(u) : u[i] = e[i]
        BY <2>3, <2>4
      <3>2. e \in Seq(X)
        BY <2>3
      <3> HIDE DEF u, e
      <3>3. u = e
        BY <3>1, <3>2, SeqEqual
      <3> QED BY <3>3 DEF u
    <2>6. Clean(e)
      <3>1. n + 1 \in 1 .. R /\ (n + 1 < R => r[(n + 1) + 1] # "/")
        BY <1>1, <1>6 DEF Clean
      <3> QED BY <1>3, <3>1
    <2>7. Len(e) < R
      BY <1>1, <2>3
    <2>8. SkipSlash(d) = e
      BY <2>2, <2>5
    <2>9. Clean(SkipSlash(d)) /\ SkipSlash(d) \in Seq(X) /\ Len(SkipSlash(d)) < R
      BY <2>3, <2>6, <2>7, <2>8
    <2>10. n # R /\ r[n + 1] = "/"
      BY <1>1, <1>6
    <2> HIDE DEF R
    <2> QED BY <2>8, <2>9, <2>10 DEF d, R
  <1>7. n = R \/ (n < R /\ r[n + 1] # "/") \/ (n < R /\ r[n + 1] = "/")
    BY <1>1
  <1> QED BY <1>4, <1>5, <1>6, <1>7

\* What is left behind a label, and what was taken
Walks(k, l, b, rest, path) ==
    /\ Left(b, path) = SkipSlash(Drop(rest, Len(l))) /\ Caps(b, path) = Caps(k, path)

\* A label that stands in the path is walked symbol by symbol.
LEMMA LabelWalk ==
    ASSUME NEW X, "/" \in X, NEW path \in Seq(X), NEW k \in Seq(STRING), NEW l \in Seq(Letters),
           l # << >>, NEW b \in Seq(STRING), Joined(b, k, l),
           Clean(Left(k, path)), Prefix(l, Left(k, path))
    PROVE  Walks(k, l, b, Left(k, path), path)
  <1> DEFINE rest == Left(k, path)
             K == Len(k)
             N == Len(l)
             B(n) == SubSeq(b, 1, K + n)
             Fine(n) == /\ Caps(B(n), path) = Caps(k, path)
                        /\ n = 0 => Left(B(n), path) = rest
                        /\ n > 0 => Left(B(n), path) = SkipSlash(Drop(rest, n))
             S == {n \in Nat : n <= N => Fine(n)}
  <1>1. /\ K \in Nat /\ N \in Nat /\ N >= 1 /\ Len(b) = K + N
        /\ \A i \in 1 .. K : b[i] = k[i]
        /\ \A i \in 1 .. N : b[K + i] = l[i]
    BY DEF Joined
  <1>2. rest \in Seq(X) /\ Len(rest) \in Nat /\ N <= Len(rest) /\ \A i \in 1 .. N : l[i] = rest[i]
    <2>1. rest \in Seq(X)
      BY LeftType
    <2> QED BY <2>1 DEF Prefix
  <1>3. \A i \in 1 .. N : /\ l[i] \in STRING /\ l[i] # "/" /\ l[i] \notin ParamSyms /\ l[i] \notin CatchAlls
                          /\ rest[i] # "/"
    BY <1>2 DEF Letters
  <1>4. B(0) = k
    <2>1. K + 0 = K /\ K \in 0 .. Len(b)
      BY <1>1
    <2> DEFINE u == SubSeq(b, 1, K)
    <2>2. u \in Seq(STRING) /\ Len(u) = K /\ \A i \in 1 .. K : u[i] = b[i]
      BY <2>1
    <2> HIDE DEF u
    <2>3. u = k
      BY <1>1, <2>2, SeqEqual
    <2> QED BY <2>1, <2>3 DEF u
  <1>5. 0 \in S
    <2> HIDE DEF B
    <2> QED BY <1>4
  <1> HIDE DEF rest
  <1>6. ASSUME NEW n \in Nat, n \in S PROVE n + 1 \in S
    <2> SUFFICES ASSUME n + 1 <= N PROVE Fine(n + 1)
      <3> HIDE DEF Fine
      <3> QED OBVIOUS
    <2>1. n <= N /\ n + 1 \in 1 .. N /\ K + n \in 0 .. Len(b) - 1 /\ (K + n) + 1 = K + (n + 1) /\ n + 1 > 0
      BY <1>1
    <2>2. Fine(n)
      <3> HIDE DEF Fine
      <3> QED BY <1>6, <2>1
    <2> DEFINE a == B(n)
               s == b[K + (n + 1)]
    <2>3. a \in Seq(STRING) /\ s \in STRING /\ B(n + 1) = Append(a, s)
      BY <2>1, OneMore
    <2>4. s = l[n + 1] /\ s = rest[n + 1] /\ s # "/" /\ s \notin ParamSyms /\ s \notin CatchAlls
      BY <1>1, <1>2, <1>3, <2>1
    <2>5. Left(a, path) = Drop(rest, n) /\ Drop(rest, n) # << >> /\ Head(Drop(rest, n)) = s
      <3>1. n \in 0 .. Len(rest) /\ n < Len(rest)
        BY <1>1, <1>2, <2>1
      <3> DEFINE d == Drop(rest, n)
      <3>2. d \in Seq(X) /\ Len(d) = Len(rest) - n /\ \A i \in 1 .. Len(rest) - n : d[i] = rest[n + i]
        BY <1>2, <3>1, DropIs
      <3> HIDE DEF d
      <3>3. d # << >> /\ Head(d) = rest[n + 1]
        BY <1>2, <3>1, <3>2
      <3>4. CASE n = 0
        <4>1. d = rest
          BY <1>2, <3>4, SubSeqFull DEF d, Drop
        <4>2. Left(a, path) = rest
          BY <2>2, <3>4
        <4> QED BY <2>4, <3>3, <4>1, <4>2 DEF d
      <3>5. CASE n # 0
        <4>1. n \in 1 .. Len(rest) /\ n > 0 /\ rest[n + 1] # "/"
          BY <2>4, <3>1, <3>5
        <4>2. Left(a, path) = SkipSlash(Drop(rest, n))
          BY <2>2, <4>1
        <4>3. SkipSlash(Drop(rest, n)) = Drop(rest, n)
          BY <1>2, <3>1, <4>1, CleanDrop DEF rest
        <4> QED BY <2>4, <3>3, <4>2, <4>3 DEF d
      <3> QED BY <3>4, <3>5
    <2>6. Tail(Drop(rest, n)) = Drop(rest, n + 1)
      <3>1. n + 1 \in 1 .. Len(rest) /\ Len(rest) \in 1 .. Len(rest) /\ Len(rest) \in n + 1 .. Len(rest)
        BY <1>1, <1>2, <2>1
      <3>2. Tail(SubSeq(rest, n + 1, Len(rest))) = SubSeq(rest, (n + 1) + 1, Len(rest))
        BY <1>2, <3>1, HeadTailOfSubSeq
      <3> QED BY <3>2 DEF Drop
    <2> HIDE DEF B, a, s
    <2>7. Left(Append(a, s), path) = Advance(s, Drop(rest, n))
      BY <2>3, <2>5, LeftAppend
    <2>8. Advance(s, Drop(rest, n)) = SkipSlash(Drop(rest, n + 1))
      BY <2>4, <2>5, <2>6 DEF Advance
    <2>9. Caps(Append(a, s), path) = Caps(a, path) \o Capture(s, Left(a, path))
      BY <2>3, CapsAppend
    <2>10. Capture(s, Left(a, path)) = << >>
      BY <2>4 DEF Capture
    <2>11. Caps(a, path) \in Seq(Pairs(X)) /\ Caps(a, path) = Caps(k, path)
      <3>1. Caps(a, path) \in Seq(Pairs(X))
        BY <2>3, CapsAppend
      <3> QED BY <2>2, <3>1 DEF a
    <2>12. Caps(Append(a, s), path) = Caps(k, path)
      BY <2>9, <2>10, <2>11, ConcatEmptySeq
    <2>13. Left(B(n + 1), path) = SkipSlash(Drop(rest, n + 1)) /\ Caps(B(n + 1), path) = Caps(k, path)
      BY <2>3, <2>7, <2>8, <2>12
    <2>14. n + 1 # 0
      BY <2>1
    <2> QED BY <2>13, <2>14
  <1>7. Fine(N)
    <2> HIDE DEF S, Fine
    <2>1. N \in S
      BY <1>1, <1>5, <1>6, Induction
    <2>2. N <= N
      BY <1>1
    <2> QED BY <2>1, <2>2 DEF S
  <1>8. B(N) = b /\ N > 0
    BY <1>1, SubSeqFull
  <1> HIDE DEF B
  <1> QED BY <1>7, <1>8 DEF Walks, rest

\* A key that is one symbol longer
LEMMA JoinedOne ==
    ASSUME NEW k \in Seq(STRING), NEW s \in STRING, NEW b \in Seq(STRING), Joined(b, k, << s >>)
    PROVE  b = Append(k, s)
  <1> DEFINE c == Append(k, s)
  <1>1. c \in Seq(STRING) /\ Appended(c, k, s)
    BY AppendIs
  <1>2. Len(<< s >>) = 1 /\ << s >>[1] = s
    OBVIOUS
  <1> HIDE DEF c
  <1>3. Len(c) = Len(k) + 1 /\ c[Len(k) + 1] = s /\ Len(k) \in Nat /\ \A i \in 1 .. Len(k) : c[i] = k[i]
    BY <1>1 DEF Appended
  <1>4. Len(b) = Len(k) + 1 /\ \A i \in 1 .. Len(k) : b[i] = k[i]
    BY <1>2 DEF Joined
  <1>5. b[Len(k) + 1] = s
    <2>1. 1 \in 1 .. Len(<< s >>)
      BY <1>2
    <2>2. b[Len(k) + 1] = << s >>[1]
      BY <2>1 DEF Joined
    <2> QED BY <1>2, <2>2
  <1>6. \A i \in 1 .. Len(b) : b[i] = c[i]
    <2> TAKE i \in 1 .. Len(b)
    <2>1. i \in 1 .. Len(k) \/ i = Len(k) + 1
      BY <1>3, <1>4
    <2> QED BY <1>3, <1>4, <1>5, <2>1
  <1>7. b = c
    BY <1>1, <1>3, <1>4, <1>6, SameSequence
  <1> QED BY <1>7 DEF c

\* What is left behind a parameter of n symbols, and what was taken
TakesPart(k, s, b, rest, n, path) ==
    /\ n \in 1 .. Len(rest) /\ Left(b, path) = Drop(rest, n + 1)
    /\ Clean(Drop(rest, n + 1)) /\ Len(Drop(rest, n + 1)) < Len(rest)
    /\ Caps(b, path) = Caps(k, path) \o << <<s, SubSeq(rest, 1, n)>> >>

\* A parameter takes the rest of the segment.
LEMMA ParamWalk ==
    ASSUME NEW X, "/" \in X, NEW path \in Seq(X), NEW k \in Seq(STRING), NEW s \in ParamSyms,
           NEW b \in Seq(STRING), Joined(b, k, << s >>), Clean(Left(k, path)), Left(k, path) # << >>
    PROVE  /\ TakesPart(k, s, b, Left(k, path), Before(Left(k, path), {"/"}), path)
           /\ Drop(Left(k, path), Before(Left(k, path), {"/"}) + 1) \in Seq(X)
  <1> DEFINE rest == Left(k, path)
             n == Before(rest, {"/"})
  <1>1. s \in STRING /\ rest \in Seq(X)
    BY LeftType, RouterAssumption
  <1>2. Left(b, path) = Advance(s, rest) /\ Caps(b, path) = Caps(k, path) \o Capture(s, rest)
    <2>1. b = Append(k, s)
      BY <1>1, JoinedOne
    <2> QED BY <1>1, <2>1, LeftAppend, CapsAppend
  <1> HIDE DEF rest
  <1>3. Len(rest) \in Nat /\ Len(rest) >= 1 /\ Head(rest) = rest[1] /\ rest[1] # "/" /\ rest # << >>
    <2>1. rest # << >> /\ Clean(rest)
      BY DEF rest
    <2>2. Len(rest) \in Nat /\ Len(rest) >= 1 /\ Head(rest) = rest[1]
      BY <1>1, <2>1
    <2>3. 1 \in 1 .. Len(rest)
      BY <2>2
    <2> QED BY <2>1, <2>2, <2>3 DEF Clean
  <1>4. /\ n \in 0 .. Len(rest) /\ \A i \in 1 .. n : rest[i] # "/"
        /\ n < Len(rest) => rest[n + 1] = "/"
    BY <1>1, BeforeIs
  <1> HIDE DEF n
  <1>5. n \in 1 .. Len(rest)
    <2>1. CASE n = 0
      <3>1. n < Len(rest) /\ n + 1 = 1
        BY <1>3, <2>1
      <3> QED BY <1>3, <1>4, <3>1
    <2>2. CASE n # 0
      BY <1>3, <1>4, <2>2
    <2> QED BY <2>1, <2>2
  <1>6. Drop(rest, n + 1) = SkipSlash(Drop(rest, n))
    <2>1. CASE n < Len(rest)
      <3>1. rest[n + 1] = "/"
        BY <1>4, <2>1
      <3> QED BY <1>1, <1>5, <2>1, <3>1, CleanDrop DEF rest
    <2>2. CASE n = Len(rest)
      <3>1. SkipSlash(Drop(rest, n)) = << >>
        BY <1>1, <1>5, <2>2, CleanDrop DEF rest
      <3>2. Drop(rest, n + 1) = << >>
        <4>1. n + 1 \in Int /\ Len(rest) \in Int /\ (n + 1) + 1 > Len(rest)
          BY <1>3, <1>5, <2>2
        <4>2. SubSeq(rest, (n + 1) + 1, Len(rest)) = << >>
          BY <4>1, SubSeqEmpty
        <4> QED BY <4>2 DEF Drop
      <3> QED BY <3>1, <3>2
    <2> QED BY <1>3, <1>5, <2>1, <2>2
  <1>7. Clean(Drop(rest, n + 1)) /\ Len(Drop(rest, n + 1)) < Len(rest) /\ Drop(rest, n + 1) \in Seq(X)
    BY <1>1, <1>5, <1>6, CleanDrop DEF rest
  <1>8. Advance(s, rest) = Drop(rest, n + 1)
    <2>1. Head(rest) # "/" /\ rest # << >> /\ s \in ParamSyms /\ s \notin CatchAlls
      BY <1>3, RouterAssumption
    <2> HIDE DEF n
    <2>2. Advance(s, rest) = Drop(rest, Before(rest, {"/"}) + 1)
      BY <2>1 DEF Advance
    <2> QED BY <2>2 DEF n
  <1>9. Capture(s, rest) = << <<s, SubSeq(rest, 1, n)>> >>
    BY DEF Capture, n
  <1>10. TakesPart(k, s, b, rest, n, path)
    BY <1>2, <1>5, <1>7, <1>8, <1>9 DEF TakesPart
  <1> QED BY <1>7, <1>10 DEF rest, n

\* A catch-all takes all that is left.
TakesAll(k, s, b, rest, path) ==
    Left(b, path) = << >> /\ Caps(b, path) = Caps(k, path) \o << <<s, rest>> >>

\* So a catch-all ends the walk, with the rest as its value.
LEMMA CatchAllWalk ==
    ASSUME NEW X, "/" \in X, NEW path \in Seq(X), NEW k \in Seq(STRING), NEW s \in CatchAlls,
           NEW b \in Seq(STRING), Joined(b, k, << s >>), Clean(Left(k, path)), Left(k, path) # << >>
    PROVE  TakesAll(k, s, b, Left(k, path), path)
  <1> DEFINE rest == Left(k, path)
  <1>1. s \in STRING /\ s \notin ParamSyms /\ rest \in Seq(X)
    BY LeftType, RouterAssumption
  <1>2. Left(b, path) = Advance(s, rest) /\ Caps(b, path) = Caps(k, path) \o Capture(s, rest)
    <2>1. b = Append(k, s)
      BY <1>1, JoinedOne
    <2> QED BY <1>1, <2>1, LeftAppend, CapsAppend
  <1> HIDE DEF rest
  <1>3. Head(rest) # "/" /\ rest # << >>
    <2>1. rest # << >> /\ Clean(rest)
      BY DEF rest
    <2>2. Len(rest) \in Nat /\ Len(rest) >= 1 /\ Head(rest) = rest[1]
      BY <1>1, <2>1
    <2>3. 1 \in 1 .. Len(rest)
      BY <2>2
    <2> QED BY <2>1, <2>2, <2>3 DEF Clean
  <1>4. Advance(s, rest) = << >>
    BY <1>1, <1>3 DEF Advance
  <1>5. Capture(s, rest) = << <<s, rest>> >>
    BY <1>1 DEF Capture
  <1> QED BY <1>2, <1>4, <1>5 DEF TakesAll, rest

\* Before a segment that is read off, what is left is as clean as behind it.
LEMMA CleanBefore ==
    ASSUME NEW rest, NEW s, NEW next, Reads(rest, s, next), Clean(next)
    PROVE  Clean(rest)
  <1> DEFINE S == Len(s)
             N == Len(next)
             R == Len(rest)
  <1>1. Laid(rest, s, next)
    BY ReadsLaid
  <1>2. S \in Nat /\ N \in Nat /\ R \in Nat /\ S >= 1 /\ R >= S /\ \A i \in 1 .. S : rest[i] # "/"
    BY <1>1 DEF Laid
  <1>3. \/ R = S
        \/ R = S + 1 + N /\ rest[S + 1] = "/" /\ \A i \in 1 .. N : rest[S + 1 + i] = next[i]
    BY <1>1 DEF Laid
  <1>4. \A i \in 1 .. N : next[i] = "/" => i # 1 /\ (i < N => next[i + 1] # "/")
    BY DEF Clean
  <1> HIDE DEF S, N, R
  <1>5. ASSUME NEW i \in 1 .. R, rest[i] = "/" PROVE i # 1 /\ (i < R => rest[i + 1] # "/")
    <2>1. i \notin 1 .. S
      BY <1>2, <1>5
    <2>2. i > S /\ i # 1 /\ i \in Nat
      BY <1>2, <2>1
    <2>3. R = S + 1 + N /\ \A j \in 1 .. N : rest[S + 1 + j] = next[j]
      BY <1>2, <1>3, <2>2
    <2>4. ASSUME i < R PROVE rest[i + 1] # "/"
      <3>1. CASE i = S + 1
        <4>1. 1 \in 1 .. N /\ i + 1 = S + 1 + 1
          BY <1>2, <2>3, <2>4, <3>1
        <4>2. rest[S + 1 + 1] = next[1] /\ next[1] # "/"
          BY <1>4, <2>3, <4>1
        <4> QED BY <4>1, <4>2
      <3>2. CASE i # S + 1
        <4> DEFINE j == i - (S + 1)
        <4>1. /\ j \in 1 .. N /\ j + 1 \in 1 .. N /\ j < N
              /\ i = S + 1 + j /\ i + 1 = S + 1 + (j + 1)
          BY <1>2, <2>2, <2>3, <2>4, <3>2
        <4> HIDE DEF j
        <4>2. next[j] = "/"
          BY <1>5, <2>3, <4>1
        <4>3. next[j + 1] # "/"
          BY <1>4, <4>1, <4>2
        <4> QED BY <2>3, <4>1, <4>3
      <3> QED BY <3>1, <3>2
    <2> QED BY <2>2, <2>4
  <1> QED BY <1>5 DEF Clean, R

\* A path that has no empty segments is clean from every segment on.
LEMMA CleanRest ==
    ASSUME NEW path, Segments(path), NEW j \in 0 .. Len(path)
    PROVE  Clean(Rest(path, << >>, j))
  <1> DEFINE L == Len(path)
             S == {n \in Nat : n <= L => Clean(Rest(path, << >>, L - n))}
  <1>1. L \in Nat /\ << >> \in Endings
    BY DEF Segments, Endings
  <1>2. 0 \in S
    <2>1. Rest(path, << >>, L) = << >>
      BY DEF Rest
    <2>2. Clean(<< >>)
      BY DEF Clean
    <2>3. L - 0 = L
      BY <1>1
    <2> QED BY <2>1, <2>2, <2>3
  <1>3. ASSUME NEW n \in Nat, n \in S PROVE n + 1 \in S
    <2> SUFFICES ASSUME n + 1 <= L PROVE Clean(Rest(path, << >>, L - (n + 1)))
      OBVIOUS
    <2> DEFINE i == L - (n + 1)
    <2>1. i \in 0 .. L - 1 /\ i + 1 = L - n /\ n <= L
      BY <1>1
    <2>2. Reads(Rest(path, << >>, i), path[i + 1], Rest(path, << >>, i + 1))
      BY <1>1, <2>1, RestReads
    <2>3. Clean(Rest(path, << >>, i + 1))
      BY <1>3, <2>1
    <2> QED BY <2>2, <2>3, CleanBefore
  <1>4. L - j \in Nat /\ L - j <= L /\ L - (L - j) = j
    BY <1>1
  <1> HIDE DEF L
  <1>5. L - j \in S
    <2> HIDE DEF S
    <2> QED BY <1>2, <1>3, <1>4, Induction
  <1> QED BY <1>4, <1>5

\* What is looked up is a path of this form.
LEMMA PathIs ==
    ASSUME NEW path \in Paths
    PROVE  /\ Segments(path) /\ Clean(Tail(Text(path)))
           /\ Tail(Text(path)) = Rest(path, << >>, 0) /\ Text(path) \in Seq(Symbols)
           /\ Len(Text(path)) \in Nat /\ Len(Text(path)) >= 1 /\ Head(Text(path)) = "/"
  <1>1. path \in Seq(Seq(STRING))
    BY RouteLookupAssumption
  <1>2. ASSUME NEW i \in 1 .. Len(path)
        PROVE  path[i] # << >> /\ \A n \in 1 .. Len(path[i]) : path[i][n] # "/"
    <2>1. i \in DOMAIN path /\ path[i] \in Seq(STRING)
      BY <1>1
    <2>2. path[i] # << >> /\ "/" \notin ToSet(path[i])
      BY <2>1, RouteLookupAssumption
    <2> DEFINE s == path[i]
    <2> HIDE DEF s
    <2>3. ASSUME s \in Seq(STRING), "/" \notin ToSet(s) PROVE \A n \in 1 .. Len(s) : s[n] # "/"
      BY <2>3 DEF ToSet
    <2> QED BY <2>1, <2>2, <2>3 DEF s
  <1>3. Segments(path)
    BY <1>1, <1>2 DEF Segments
  <1>4. Tail(Text(path)) = Rest(path, << >>, 0) /\ Text(path) \in Seq(Symbols) /\ Len(Text(path)) >= 1
    BY <1>3, TextIs
  <1>5. Clean(Rest(path, << >>, 0))
    <2>1. 0 \in 0 .. Len(path)
      BY <1>1
    <2> QED BY <1>3, <2>1, CleanRest
  <1>6. Head(Text(path)) = "/"
    <2>1. CASE path = << >>
      <3>1. Text(path) = <<"/">>
        BY <2>1 DEF Text
      <3> QED BY <3>1
    <2>2. CASE path # << >>
      <3>1. Text(path) = More(path, << >>, 0)
        BY <1>3, <2>2, TextIs
      <3>2. 0 \in 0 .. Len(path) - 1 /\ 0 + 1 = 1 /\ 0 + 1 \in 0 .. Len(path) /\ 1 \in 1 .. Len(path)
        BY <1>1, <2>2
      <3>3. << >> \in Endings
        BY DEF Endings
      <3>4. More(path, << >>, 0) = <<"/">> \o (path[1] \o More(path, << >>, 1))
        BY <1>3, <3>2, <3>3, MoreIs
      <3> DEFINE m == path[1] \o More(path, << >>, 1)
      <3>5. m \in Seq(Symbols)
        <4>1. More(path, << >>, 1) \in Seq(Symbols)
          BY <1>3, <3>2, <3>3, MoreIs
        <4>2. path[1] \in Seq(Symbols)
          <5>1. path[1] \in Seq(STRING)
            BY <1>1, <3>2
          <5>2. STRING \subseteq Symbols
            BY DEF Symbols
          <5> QED BY <5>1, <5>2, SeqMonotonic
        <4> QED BY <4>1, <4>2
      <3> HIDE DEF m
      <3>6. Head(<<"/">> \o m) = "/"
        <4>1. "/" \in Symbols
          BY DEF Symbols
        <4> QED BY <3>5, <4>1
      <3> QED BY <3>1, <3>4, <3>6 DEF m
    <2> QED BY <2>1, <2>2
  <1>7. Len(Text(path)) \in Nat
    <2> DEFINE text == Text(path)
    <2>1. text \in Seq(Symbols)
      BY <1>4
    <2> HIDE DEF text
    <2>2. Len(text) \in Nat
      BY <2>1
    <2> QED BY <2>2 DEF text
  <1>8. Clean(Tail(Text(path)))
    BY <1>4, <1>5
  <1> QED BY <1>3, <1>4, <1>6, <1>7, <1>8

-----------------------------------------------------------------------------
(* The search, call by call                                                *)

\* The calls of search in a trie, for paths of the symbols X
Searching(f, t, X, m, max) ==
    \A n \in 1 .. max, at \in DOMAIN t, rest \in Seq(X), taken \in 0 .. MaxParams :
        f[n][at][rest][taken] = Search(t, f[n - 1], m, at, rest, taken)

\* What lookup makes of the result of search
Outcome(found) == IF found.chain = << >> THEN None ELSE found

\* The recursion of lookup has a value for every depth of calls.
LEMMA SearchUnfolds ==
    ASSUME NEW t, NEW m, NEW path, Len(path) \in Nat
    PROVE  \E f : /\ Searching(f, t, ToSet(path), m, Len(path))
                  /\ Lookup(t, m, path) = Outcome(f[Len(path)][1][Tail(path)][0])
  <1> DEFINE N == Len(path)
             Step(f, n) == [at \in DOMAIN t |-> [rest \in Seq(ToSet(path)) |-> [taken \in 0 .. MaxParams |->
                               IF n = 0 THEN None ELSE Search(t, f[n - 1], m, at, rest, taken)]]]
             search[n \in 0 .. N] ==
                 [at \in DOMAIN t |-> [rest \in Seq(ToSet(path)) |-> [taken \in 0 .. MaxParams |->
                     IF n = 0 THEN None ELSE Search(t, search[n - 1], m, at, rest, taken)]]]
             Upto == {n \in Nat : \E f : f = [i \in 0 .. n |-> Step(f, i)]}
  <1>1. Lookup(t, m, path) = Outcome(search[N][1][Tail(path)][0])
    BY DEF Lookup, Outcome
  <1>2. search = CHOOSE f : f = [n \in 0 .. N |-> Step(f, n)]
    OBVIOUS
  <1> HIDE DEF search, N
  <1>3. N \in Nat
    BY DEF N
  <1>4. ASSUME NEW f, NEW g, NEW i, i # 0, f[i - 1] = g[i - 1]
        PROVE  Step(f, i) = Step(g, i)
    BY <1>4
  <1>5. Nat \subseteq Upto
    <2>1. 0 \in Upto
      <3> DEFINE f == [i \in 0 .. 0 |-> Step(<< >>, 0)]
      <3>1. f = [i \in 0 .. 0 |-> Step(f, i)]
        OBVIOUS
      <3> QED BY <3>1
    <2>2. ASSUME NEW n \in Nat, n \in Upto PROVE n + 1 \in Upto
      <3>1. PICK f : f = [i \in 0 .. n |-> Step(f, i)]
        BY <2>2
      <3> DEFINE h == [i \in 0 .. n + 1 |-> IF i <= n THEN f[i] ELSE Step(f, n + 1)]
      <3>2. ASSUME NEW i \in 0 .. n + 1 PROVE h[i] = Step(h, i)
        <4>1. h[i] = Step(f, i)
          <5>1. CASE i <= n
            <6>1. h[i] = f[i] /\ i \in 0 .. n
              BY <5>1
            <6> HIDE DEF Step, h
            <6> QED BY <3>1, <6>1
          <5>2. CASE i = n + 1
            <6>1. ~(i <= n)
              BY <5>2
            <6> HIDE DEF Step
            <6> QED BY <5>2, <6>1
          <5> QED BY <5>1, <5>2
        <4>2. CASE i = 0
          <5>1. Step(f, 0) = Step(h, 0)
            OBVIOUS
          <5> HIDE DEF Step, h
          <5> QED BY <4>1, <4>2, <5>1
        <4>3. CASE i # 0
          <5>1. i - 1 \in 0 .. n /\ i - 1 <= n /\ i - 1 \in 0 .. n + 1
            BY <4>3
          <5>2. h[i - 1] = f[i - 1]
            <6> HIDE DEF Step
            <6> QED BY <5>1
          <5> HIDE DEF Step, h
          <5>3. Step(h, i) = Step(f, i)
            BY <1>4, <4>3, <5>2
          <5> QED BY <4>1, <5>3
        <4> QED BY <4>2, <4>3
      <3>3. h = [i \in 0 .. n + 1 |-> Step(h, i)]
        <4> HIDE DEF Step
        <4> QED BY <3>2
      <3>4. \E g : g = [i \in 0 .. n + 1 |-> Step(g, i)]
        BY <3>3
      <3> HIDE DEF Step
      <3> QED BY <2>2, <3>4
    <2> HIDE DEF Upto
    <2> QED BY <2>1, <2>2, Induction
  <1>6. search = [n \in 0 .. N |-> Step(search, n)]
    <2> HIDE DEF Step
    <2> QED BY <1>2, <1>3, <1>5
  <1>7. ASSUME NEW n \in 1 .. N, NEW at \in DOMAIN t, NEW rest \in Seq(ToSet(path)), NEW taken \in 0 .. MaxParams
        PROVE  search[n][at][rest][taken] = Search(t, search[n - 1], m, at, rest, taken)
    <2>1. n \in 0 .. N /\ n # 0
      BY <1>3
    <2>2. search[n] = Step(search, n)
      <3> HIDE DEF Step
      <3> QED BY <1>6, <2>1
    <2>3. Step(search, n)[at][rest][taken] = Search(t, search[n - 1], m, at, rest, taken)
      BY <2>1
    <2> QED BY <2>2, <2>3
  <1>8. Searching(search, t, ToSet(path), m, N)
    BY <1>7 DEF Searching
  <1> QED BY <1>1, <1>8 DEF N

\* The children of this kind fail, or r is what one of them returns.
OneOf(t, below, m, at, kind, rest, taken, r) ==
    \/ r = None /\ \A c \in Children(t, at, kind) : SearchChild(t, below, m, c, rest, taken).chain = << >>
    \/ /\ r.chain # << >>
       /\ \E c \in Children(t, at, kind) : r = SearchChild(t, below, m, c, rest, taken)

\* That is what search tries of one kind of children.
LEMMA BelowIs ==
    ASSUME NEW t, NEW below, NEW m, NEW at, NEW kind, NEW rest, NEW taken,
           Children(t, at, kind) \subseteq Nat
    PROVE  OneOf(t, below, m, at, kind, rest, taken, SearchBelow(t, below, m, at, kind, rest, taken))
  <1> DEFINE C == Children(t, at, kind)
             Got(c) == SearchChild(t, below, m, c, rest, taken)
             tried == {<<c, Got(c)>> : c \in C}
             hits == {r \in tried : r[2].chain # << >>}
             Best(r) == r \in hits /\ \A h \in hits : r[1] <= h[1]
             first == CHOOSE r \in hits : \A h \in hits : r[1] <= h[1]
  <1>1. SearchBelow(t, below, m, at, kind, rest, taken) = IF hits = {} THEN None ELSE first[2]
    BY DEF SearchBelow
  <1> HIDE DEF C, Got
  <1>2. \A c \in C : Got(c).chain # << >> => <<c, Got(c)>> \in hits
    <2> TAKE c \in C
    <2> HAVE Got(c).chain # << >>
    <2>1. <<c, Got(c)>> \in tried
      OBVIOUS
    <2>2. <<c, Got(c)>>[2] = Got(c)
      OBVIOUS
    <2> QED BY <2>1, <2>2
  <1>3. ASSUME NEW h \in hits PROVE \E c \in C : h = <<c, Got(c)>> /\ Got(c).chain # << >>
    <2>1. PICK c \in C : h = <<c, Got(c)>>
      BY <1>3
    <2>2. h[2] = Got(c)
      BY <2>1
    <2> QED BY <1>3, <2>1, <2>2
  <1> HIDE DEF hits, first
  <1>4. CASE hits = {}
    <2>1. \A c \in C : Got(c).chain = << >>
      BY <1>2, <1>4
    <2> QED BY <1>1, <1>4, <2>1 DEF OneOf, C, Got
  <1>5. CASE hits # {}
    <2> DEFINE S == {c \in C : Got(c).chain # << >>}
    <2>1. S # {} /\ S \subseteq Nat
      BY <1>3, <1>5 DEF C
    <2>2. Min(S) \in S /\ \A c \in S : Min(S) <= c
      BY <2>1, Least
    <2> DEFINE b == Min(S)
    <2> HIDE DEF b
    <2>3. b \in C /\ Got(b).chain # << >> /\ \A c \in C : Got(c).chain # << >> => b <= c
      BY <2>2 DEF b
    <2>4. <<b, Got(b)>> \in hits
      BY <1>2, <2>3
    <2>5. ASSUME NEW h \in hits PROVE <<b, Got(b)>>[1] <= h[1]
      <3>1. PICK c \in C : h = <<c, Got(c)>> /\ Got(c).chain # << >>
        BY <1>3
      <3>2. h[1] = c /\ b <= c /\ <<b, Got(b)>>[1] = b
        BY <2>3, <3>1
      <3> QED BY <3>2
    <2>6. first \in hits
      BY <2>4, <2>5 DEF first
    <2>7. PICK c \in C : first = <<c, Got(c)>> /\ Got(c).chain # << >>
      BY <1>3, <2>6
    <2>8. first[2] = Got(c)
      BY <2>7
    <2>9. SearchBelow(t, below, m, at, kind, rest, taken) = Got(c)
      BY <1>1, <1>5, <2>8
    <2> QED BY <2>7, <2>9 DEF OneOf, C, Got
  <1> QED BY <1>4, <1>5

\* The order in which kinds of children are tried
KindRank(kind) == IF kind = "catchAll" THEN 3 ELSE IF kind = "param" THEN 2 ELSE 1

\* No child leads on, or r is what one returns, and none of a kind that comes earlier does.
FirstOf(t, below, m, at, rest, taken, r) ==
    \/ /\ r.chain = << >>
       /\ \A c \in 2 .. Len(t) : t[c].parent = at => SearchChild(t, below, m, c, rest, taken).chain = << >>
    \/ /\ r.chain # << >>
       /\ \E c \in 2 .. Len(t) :
             /\ t[c].parent = at /\ r = SearchChild(t, below, m, c, rest, taken)
             /\ \A d \in 2 .. Len(t) : t[d].parent = at /\ KindRank(t[d].kind) < KindRank(t[c].kind) =>
                   SearchChild(t, below, m, d, rest, taken).chain = << >>

\* Children are tried static before param before catch-all.
LEMMA SearchIs ==
    ASSUME NEW t, NEW key, Keyed(t, key), NEW below, NEW m, NEW at \in 1 .. Len(t),
           NEW rest, rest # << >>, NEW taken
    PROVE  FirstOf(t, below, m, at, rest, taken, Search(t, below, m, at, rest, taken))
  <1> DEFINE Got(c) == SearchChild(t, below, m, c, rest, taken)
             s == SearchBelow(t, below, m, at, "static", rest, taken)
             p == SearchBelow(t, below, m, at, "param", rest, taken)
             a == SearchBelow(t, below, m, at, "catchAll", rest, taken)
             r == Search(t, below, m, at, rest, taken)
             Kids(kind) == {c \in 2 .. Len(t) : t[c].parent = at /\ t[c].kind = kind}
  <1>1. ASSUME NEW kind
        PROVE  LET b == SearchBelow(t, below, m, at, kind, rest, taken)
               IN  \/ b.chain = << >> /\ \A c \in Kids(kind) : Got(c).chain = << >>
                   \/ b.chain # << >> /\ \E c \in Kids(kind) : b = Got(c)
    <2>1. Children(t, at, kind) \subseteq Nat /\ Children(t, at, kind) = Kids(kind)
      BY ChildrenAre
    <2> DEFINE b == SearchBelow(t, below, m, at, kind, rest, taken)
    <2>2. OneOf(t, below, m, at, kind, rest, taken, b)
      BY <2>1, BelowIs
    <2>3. None.chain = << >>
      BY DEF None
    <2> HIDE DEF b, Kids, Got
    <2>4. \/ b.chain = << >> /\ \A c \in Kids(kind) : Got(c).chain = << >>
          \/ b.chain # << >> /\ \E c \in Kids(kind) : b = Got(c)
      BY <2>1, <2>2, <2>3 DEF OneOf, Got
    <2> QED BY <2>4 DEF b
  <1>2. r = IF s.chain # << >> THEN s ELSE IF p.chain # << >> THEN p ELSE a
    BY DEF Search
  <1>3. \A c \in 2 .. Len(t) : t[c].kind \in {"static", "param", "catchAll"}
    <2>1. \A c \in 1 .. Len(t) : t[c] \in NodeRecords
      BY KeyedTypes
    <2>2. Len(t) \in Nat
      BY KeyedTypes
    <2> QED BY <2>1, <2>2 DEF NodeRecords
  <1>4. KindRank("static") = 1 /\ KindRank("param") = 2 /\ KindRank("catchAll") = 3
    BY DEF KindRank
  <1>5. \/ s.chain = << >> /\ \A c \in Kids("static") : Got(c).chain = << >>
        \/ s.chain # << >> /\ \E c \in Kids("static") : s = Got(c)
    BY <1>1
  <1>6. \/ p.chain = << >> /\ \A c \in Kids("param") : Got(c).chain = << >>
        \/ p.chain # << >> /\ \E c \in Kids("param") : p = Got(c)
    BY <1>1
  <1>7. \/ a.chain = << >> /\ \A c \in Kids("catchAll") : Got(c).chain = << >>
        \/ a.chain # << >> /\ \E c \in Kids("catchAll") : a = Got(c)
    BY <1>1
  <1> HIDE DEF Got, s, p, a, r
  <1> DEFINE First(c) == \A d \in 2 .. Len(t) : t[d].parent = at /\ KindRank(t[d].kind) < KindRank(t[c].kind) =>
                             Got(d).chain = << >>
  <1>8. CASE s.chain # << >>
    <2>1. PICK c \in Kids("static") : s = Got(c)
      BY <1>5, <1>8
    <2>2. First(c)
      <3> TAKE d \in 2 .. Len(t)
      <3>1. KindRank(t[d].kind) >= 1
        BY <1>3, <1>4
      <3> QED BY <1>3, <1>4, <2>1, <3>1
    <2>3. r = Got(c) /\ r.chain # << >>
      BY <1>2, <1>8, <2>1
    <2> QED BY <2>1, <2>2, <2>3 DEF FirstOf, Got, r
  <1>9. CASE s.chain = << >> /\ p.chain # << >>
    <2>1. PICK c \in Kids("param") : p = Got(c)
      BY <1>6, <1>9
    <2>2. First(c)
      <3> SUFFICES ASSUME NEW d \in 2 .. Len(t), t[d].parent = at, KindRank(t[d].kind) < KindRank(t[c].kind)
                   PROVE  Got(d).chain = << >>
        OBVIOUS
      <3>1. t[d].kind = "static"
        BY <1>3, <1>4, <2>1
      <3> QED BY <1>5, <1>9, <3>1
    <2>3. r = Got(c) /\ r.chain # << >>
      BY <1>2, <1>9, <2>1
    <2> QED BY <2>1, <2>2, <2>3 DEF FirstOf, Got, r
  <1>10. CASE s.chain = << >> /\ p.chain = << >> /\ a.chain # << >>
    <2>1. PICK c \in Kids("catchAll") : a = Got(c)
      BY <1>7, <1>10
    <2>2. First(c)
      <3> SUFFICES ASSUME NEW d \in 2 .. Len(t), t[d].parent = at, KindRank(t[d].kind) < KindRank(t[c].kind)
                   PROVE  Got(d).chain = << >>
        OBVIOUS
      <3>1. t[d].kind = "static" \/ t[d].kind = "param"
        BY <1>3, <1>4, <2>1
      <3> QED BY <1>5, <1>6, <1>10, <3>1
    <2>3. r = Got(c) /\ r.chain # << >>
      BY <1>2, <1>10, <2>1
    <2> QED BY <2>1, <2>2, <2>3 DEF FirstOf, Got, r
  <1>11. CASE s.chain = << >> /\ p.chain = << >> /\ a.chain = << >>
    <2>1. \A c \in 2 .. Len(t) : t[c].parent = at => Got(c).chain = << >>
      BY <1>3, <1>5, <1>6, <1>7, <1>11
    <2>2. r.chain = << >>
      BY <1>2, <1>11
    <2> QED BY <2>1, <2>2 DEF FirstOf, Got, r
  <1> QED BY <1>8, <1>9, <1>10, <1>11

\* A search for a route of m with this path ends here.
EndsAt(t, key, m, path, x) == x \in 1 .. Len(t) /\ t[x].chain[m] # << >> /\ Left(key[x], path) = << >>

\* Where the keys part, this one goes on with the kind that comes earlier.
Better(a, b) ==
    \E i \in 1 .. Len(a) :
        /\ i <= Len(b) /\ \A j \in 1 .. i - 1 : a[j] = b[j]
        /\ \/ a[i] \in Letters /\ b[i] \notin Letters
           \/ a[i] \in ParamSyms /\ b[i] \in CatchAlls

\* What a search can return, for paths of the symbols X
Results(X) == [chain : Seq(Entries), params : Seq(Pairs(X))]

\* There is nothing to find from this node on, or r is the best of it, with what
\* it takes beyond the base.
Answers(t, key, m, path, X, base, at, r) ==
    \/ r.chain = << >> /\ \A x : EndsAt(t, key, m, path, x) => ~Prefix(key[at], key[x])
    \/ /\ r.chain # << >> /\ r \in Results(X)
       /\ \E y : /\ EndsAt(t, key, m, path, y) /\ Prefix(key[at], key[y]) /\ r.chain = t[y].chain[m]
                 /\ Caps(base, path) \o r.params = Caps(key[y], path)
                 /\ \A x : EndsAt(t, key, m, path, x) /\ Prefix(key[at], key[x]) /\ x # y =>
                       Better(key[y], key[x])

\* Where a search can end it has room for all it takes, and the labels on the
\* way stand in the path as they are.
Straight(t, key, m, path) ==
    \A x : EndsAt(t, key, m, path, x) =>
        /\ Len(Caps(key[x], path)) <= MaxParams
        /\ \A c \in 2 .. Len(t) : t[c].kind = "static" /\ Prefix(key[c], key[x]) =>
              Prefix(t[c].path, Left(key[t[c].parent], path))

\* The calls that have less than n of the path left answer.
Answering(t, key, m, path, X, below, n) ==
    \A at \in 1 .. Len(t) :
        Clean(Left(key[at], path)) /\ Len(Left(key[at], path)) < n /\ Len(Caps(key[at], path)) <= MaxParams =>
            Answers(t, key, m, path, X, key[at], at, below[at][Left(key[at], path)][Len(Caps(key[at], path))])

\* What a search looks at: a trie, a method and a path
Sought(t, key, m, path, X) ==
    /\ Keyed(t, key) /\ m \in ToSet(Methods) /\ path \in Seq(X) /\ "/" \in X /\ X \subseteq Symbols
    /\ Straight(t, key, m, path)

\* Where the path is used up, only this node is left.
LEMMA EndAnswers ==
    ASSUME NEW t, NEW key, NEW m, NEW path, NEW X, Sought(t, key, m, path, X),
           NEW at \in 1 .. Len(t), Left(key[at], path) = << >>
    PROVE  Answers(t, key, m, path, X, key[at], at, Found(t[at].chain[m], << >>))
  <1> DEFINE r == Found(t[at].chain[m], << >>)
  <1>1. Keyed(t, key) /\ m \in ToSet(Methods) /\ path \in Seq(X) /\ "/" \in X
    BY DEF Sought
  <1>2. key[at] \in Seq(STRING) /\ t[at] \in NodeRecords /\ Len(key[at]) \in Nat
    BY <1>1, KeyedTypes
  <1>3. t[at].chain[m] \in Seq(Entries)
    BY <1>1, <1>2 DEF NodeRecords
  <1>4. r.chain = t[at].chain[m] /\ r.params = << >> /\ r \in Results(X)
    <2>1. << >> \in Seq(Pairs(X))
      OBVIOUS
    <2> QED BY <1>3, <2>1 DEF Found, Results
  <1>5. ASSUME NEW x, EndsAt(t, key, m, path, x), Prefix(key[at], key[x]) PROVE x = at
    <2>1. x \in 1 .. Len(t) /\ Left(key[x], path) = << >>
      BY <1>5 DEF EndsAt
    <2>2. key[x] \in Seq(STRING) /\ Len(key[x]) \in Nat
      BY <1>1, <2>1, KeyedTypes
    <2>3. Stuck(Left(key[at], path))
      BY DEF Stuck
    <2>4. ~(Len(key[at]) < Len(key[x]))
      <3>1. Len(key[at]) < Len(key[x]) => Left(key[x], path) = <<"/">>
        BY <1>1, <1>2, <1>5, <2>2, <2>3, Beyond
      <3> QED BY <2>1, <3>1
    <2>5. key[at] = key[x]
      <3>1. Len(key[x]) <= Len(key[at])
        BY <1>2, <2>2, <2>4
      <3> QED BY <1>2, <1>5, <2>2, <3>1, PrefixEqual
    <2> QED BY <1>1, <2>1, <2>5 DEF Keyed, Distinct
  <1> HIDE DEF r
  <1>6. CASE r.chain = << >>
    <2>1. \A x : EndsAt(t, key, m, path, x) => ~Prefix(key[at], key[x])
      BY <1>4, <1>5, <1>6 DEF EndsAt
    <2> QED BY <1>6, <2>1 DEF Answers, r
  <1>7. CASE r.chain # << >>
    <2>1. EndsAt(t, key, m, path, at)
      BY <1>4, <1>7 DEF EndsAt
    <2>2. Caps(key[at], path) \o r.params = Caps(key[at], path)
      <3>1. Caps(key[at], path) \in Seq(Pairs(X))
        BY <1>1, <1>2, CapsType
      <3> QED BY <1>4, <3>1, ConcatEmptySeq
    <2>3. Prefix(key[at], key[at])
      BY <1>2, PrefixItself
    <2>4. \A x : EndsAt(t, key, m, path, x) /\ Prefix(key[at], key[x]) /\ x # at => Better(key[at], key[x])
      BY <1>5
    <2>5. Answers(t, key, m, path, X, key[at], at, r)
      BY <1>4, <1>7, <2>1, <2>2, <2>3, <2>4 DEF Answers
    <2> QED BY <2>5 DEF r
  <1> QED BY <1>6, <1>7

\* What the search for a child of a node needs to know
Tried(t, key, m, path, X, below, c, at) ==
    /\ Sought(t, key, m, path, X) /\ c \in 2 .. Len(t) /\ at = t[c].parent
    /\ Clean(Left(key[at], path)) /\ Left(key[at], path) # << >>
    /\ Len(Caps(key[at], path)) <= MaxParams
    /\ Answering(t, key, m, path, X, below, Len(Left(key[at], path)))

\* What follows for the node and the child
LEMMA TriedTypes ==
    ASSUME NEW t, NEW key, NEW m, NEW path, NEW X, NEW below, NEW c, NEW at,
           Tried(t, key, m, path, X, below, c, at)
    PROVE  /\ Keyed(t, key) /\ path \in Seq(X) /\ "/" \in X /\ X \subseteq Symbols
           /\ m \in ToSet(Methods) /\ Straight(t, key, m, path)
           /\ c \in 2 .. Len(t) /\ c \in 1 .. Len(t) /\ at \in 1 .. Len(t) /\ at = t[c].parent
           /\ key[c] \in Seq(STRING) /\ key[at] \in Seq(STRING) /\ Joined(key[c], key[at], Label(t[c]))
           /\ t[c] \in NodeRecords /\ Labelled(t[c]) /\ t[c].chain[m] \in Seq(Entries)
           /\ Left(key[at], path) \in Seq(X) /\ Caps(key[at], path) \in Seq(Pairs(X))
           /\ Len(Caps(key[at], path)) \in 0 .. MaxParams
  <1>1. /\ Keyed(t, key) /\ path \in Seq(X) /\ "/" \in X /\ X \subseteq Symbols
        /\ m \in ToSet(Methods) /\ Straight(t, key, m, path) /\ c \in 2 .. Len(t) /\ at = t[c].parent
    BY DEF Tried, Sought
  <1>2. Parented(t, key, c, at)
    BY <1>1, Child
  <1>3. /\ c \in 1 .. Len(t) /\ at \in 1 .. Len(t)
        /\ key[c] \in Seq(STRING) /\ key[at] \in Seq(STRING) /\ Joined(key[c], key[at], Label(t[c]))
        /\ t[c] \in NodeRecords /\ Labelled(t[c])
    BY <1>2 DEF Parented
  <1>4. t[c].chain[m] \in Seq(Entries)
    BY <1>1, <1>3 DEF NodeRecords
  <1>5. Left(key[at], path) \in Seq(X) /\ Caps(key[at], path) \in Seq(Pairs(X))
    BY <1>1, <1>3, LeftType, CapsType
  <1>6. Len(Caps(key[at], path)) \in 0 .. MaxParams
    <2>1. Len(Caps(key[at], path)) \in Nat
      BY <1>5
    <2>2. Len(Caps(key[at], path)) <= MaxParams
      BY DEF Tried
    <2> QED BY <2>1, <2>2, RouterAssumption
  <1> QED BY <1>1, <1>3, <1>4, <1>5, <1>6

\* The search of a static child answers for it: where its label does not stand in
\* the path, nothing is found below it.
LEMMA StaticAnswers ==
    ASSUME NEW t, NEW key, NEW m, NEW path, NEW X, NEW below, NEW c, NEW at,
           Tried(t, key, m, path, X, below, c, at), t[c].kind = "static"
    PROVE  Answers(t, key, m, path, X, key[at], c,
                   SearchChild(t, below, m, c, Left(key[at], path), Len(Caps(key[at], path))))
  <1> DEFINE rest == Left(key[at], path)
             taken == Len(Caps(key[at], path))
             l == t[c].path
             r == SearchChild(t, below, m, c, rest, taken)
  <1>1. /\ Keyed(t, key) /\ path \in Seq(X) /\ "/" \in X /\ X \subseteq Symbols
        /\ Straight(t, key, m, path)
        /\ c \in 2 .. Len(t) /\ c \in 1 .. Len(t) /\ at \in 1 .. Len(t) /\ at = t[c].parent
        /\ key[c] \in Seq(STRING) /\ key[at] \in Seq(STRING) /\ Joined(key[c], key[at], Label(t[c]))
        /\ t[c] \in NodeRecords /\ Labelled(t[c])
        /\ rest \in Seq(X) /\ taken \in 0 .. MaxParams
    BY TriedTypes
  <1>2. l \in Seq(Letters) /\ l # << >> /\ Joined(key[c], key[at], l)
    BY <1>1 DEF Labelled, Label
  <1>3. r = SearchStatic(t, below, c, rest, taken)
    BY DEF SearchChild
  <1>4. l \in Seq(Symbols) /\ rest \in Seq(Symbols)
    <2>1. Letters \subseteq Symbols
      BY DEF Letters, Symbols
    <2>2. l \in Seq(Symbols)
      BY <1>2, <2>1, SeqMonotonic
    <2>3. rest \in Seq(Symbols)
      BY <1>1, SeqMonotonic
    <2> QED BY <2>2, <2>3
  <1>5. IsPrefix(l, rest) <=> Prefix(l, rest)
    BY <1>4, PrefixIs
  <1>6. CASE Prefix(l, rest)
    <2>1. Walks(key[at], l, key[c], rest, path)
      BY <1>1, <1>2, <1>6, LabelWalk DEF Tried
    <2>2. Left(key[c], path) = SkipSlash(Drop(rest, Len(l))) /\ Caps(key[c], path) = Caps(key[at], path)
      BY <2>1 DEF Walks
    <2>3. Len(l) \in 1 .. Len(rest)
      <3>1. Len(l) \in Nat /\ Len(l) >= 1 /\ Len(rest) \in Nat
        BY <1>1, <1>2
      <3>2. Len(l) <= Len(rest)
        BY <1>6 DEF Prefix
      <3> QED BY <3>1, <3>2
    <2>4. Clean(Left(key[c], path)) /\ Len(Left(key[c], path)) < Len(rest)
      <3>1. Clean(rest)
        BY DEF Tried
      <3> HIDE DEF rest, l
      <3>2. Clean(SkipSlash(Drop(rest, Len(l)))) /\ Len(SkipSlash(Drop(rest, Len(l)))) < Len(rest)
        BY <1>1, <2>3, <3>1, CleanDrop
      <3> QED BY <2>2, <3>2
    <2>5. r = below[c][Left(key[c], path)][Len(Caps(key[c], path))]
      BY <1>3, <1>5, <1>6, <2>2 DEF SearchStatic
    <2>6. Answering(t, key, m, path, X, below, Len(rest))
      BY DEF Tried
    <2>7. Len(Caps(key[c], path)) <= MaxParams
      BY <1>1, <2>2, RouterAssumption
    <2> HIDE DEF r, l
    <2>8. Answers(t, key, m, path, X, key[c], c, r)
      BY <1>1, <2>4, <2>5, <2>6, <2>7 DEF Answering
    <2>9. Answers(t, key, m, path, X, key[at], c, r)
      BY <2>2, <2>8 DEF Answers
    <2> QED BY <2>9 DEF r
  <1>7. CASE ~Prefix(l, rest)
    <2>1. r = None
      BY <1>3, <1>5, <1>7 DEF SearchStatic
    <2>2. r.chain = << >>
      BY <2>1 DEF None
    <2>3. ASSUME NEW x, EndsAt(t, key, m, path, x) PROVE ~Prefix(key[c], key[x])
      BY <1>1, <1>7, <2>3 DEF Straight
    <2> QED BY <2>2, <2>3 DEF Answers
  <1> QED BY <1>6, <1>7

\* One more parameter in front
LEMMA InFront ==
    ASSUME NEW X, NEW r \in Results(X), NEW p \in Pairs(X)
    PROVE  LET q == [r EXCEPT !.params = << p >> \o @]
           IN  q \in Results(X) /\ q.chain = r.chain /\ q.params = << p >> \o r.params
  <1> DEFINE q == [r EXCEPT !.params = << p >> \o @]
  <1>1. r.params \in Seq(Pairs(X)) /\ r.chain \in Seq(Entries)
    BY DEF Results
  <1>2. << p >> \o r.params \in Seq(Pairs(X))
    <2>1. << p >> \in Seq(Pairs(X))
      OBVIOUS
    <2> QED BY <1>1, <2>1, ConcatProperties
  <1> DEFINE s == << p >> \o r.params
  <1>3. q = [r EXCEPT !.params = s]
    OBVIOUS
  <1> HIDE DEF s, q
  <1>4. q.chain = r.chain /\ q.params = s
    BY <1>3 DEF Results
  <1>5. q \in Results(X)
    BY <1>2, <1>3 DEF Results, s
  <1> QED BY <1>4, <1>5 DEF s, q

\* Behind a node a search has taken no more than where it ends.
LEMMA RoomLeft ==
    ASSUME NEW t, NEW key, NEW m, NEW path, NEW X, Sought(t, key, m, path, X), NEW c \in 1 .. Len(t),
           NEW x, EndsAt(t, key, m, path, x), Prefix(key[c], key[x])
    PROVE  Len(Caps(key[c], path)) <= MaxParams
  <1>1. Keyed(t, key) /\ path \in Seq(X) /\ "/" \in X /\ Straight(t, key, m, path) /\ x \in 1 .. Len(t)
    BY DEF Sought, EndsAt
  <1>2. key[c] \in Seq(STRING) /\ key[x] \in Seq(STRING)
    BY <1>1, KeyedTypes
  <1>3. Len(Caps(key[c], path)) <= Len(Caps(key[x], path))
    BY <1>1, <1>2, Beyond
  <1>4. Len(Caps(key[x], path)) <= MaxParams
    BY <1>1 DEF Straight
  <1>5. Len(Caps(key[c], path)) \in Nat /\ Len(Caps(key[x], path)) \in Nat
    <2>1. Caps(key[c], path) \in Seq(Pairs(X)) /\ Caps(key[x], path) \in Seq(Pairs(X))
      BY <1>1, <1>2, CapsType
    <2> QED BY <2>1
  <1> QED BY <1>3, <1>4, <1>5, RouterAssumption

\* One element behind
LEMMA OneBehind ==
    ASSUME NEW X, NEW s \in Seq(X), NEW e \in X
    PROVE  << e >> \in Seq(X) /\ s \o << e >> \in Seq(X) /\ Len(s \o << e >>) = Len(s) + 1
  <1>1. << e >> \in Seq(X) /\ Len(<< e >>) = 1
    OBVIOUS
  <1> QED BY <1>1, ConcatProperties

\* So does that of a parameter,
LEMMA ParamAnswers ==
    ASSUME NEW t, NEW key, NEW m, NEW path, NEW X, NEW below, NEW c, NEW at,
           Tried(t, key, m, path, X, below, c, at), t[c].kind = "param"
    PROVE  Answers(t, key, m, path, X, key[at], c,
                   SearchChild(t, below, m, c, Left(key[at], path), Len(Caps(key[at], path))))
  <1> DEFINE rest == Left(key[at], path)
             taken == Len(Caps(key[at], path))
             n == Before(rest, {"/"})
             s == t[c].name
             p == <<s, SubSeq(rest, 1, n)>>
             r == SearchChild(t, below, m, c, rest, taken)
             deep == below[c][Drop(rest, n + 1)][taken + 1]
  <1>1. /\ Keyed(t, key) /\ path \in Seq(X) /\ "/" \in X
        /\ c \in 1 .. Len(t)
        /\ key[c] \in Seq(STRING) /\ key[at] \in Seq(STRING) /\ Joined(key[c], key[at], Label(t[c]))
        /\ Labelled(t[c]) /\ rest \in Seq(X) /\ Caps(key[at], path) \in Seq(Pairs(X))
        /\ taken \in 0 .. MaxParams
    BY TriedTypes
  <1>2. s \in ParamSyms /\ s \in STRING /\ Joined(key[c], key[at], << s >>)
    BY <1>1, RouterAssumption DEF Labelled, Label
  <1>3. TakesPart(key[at], s, key[c], rest, n, path)
    <2>1. Clean(rest) /\ rest # << >>
      BY DEF Tried
    <2> QED BY <1>1, <1>2, <2>1, ParamWalk
  <1>4. /\ n \in 1 .. Len(rest) /\ Left(key[c], path) = Drop(rest, n + 1)
        /\ Clean(Drop(rest, n + 1)) /\ Len(Drop(rest, n + 1)) < Len(rest)
        /\ Caps(key[c], path) = Caps(key[at], path) \o << p >>
    BY <1>3 DEF TakesPart
  <1>5. r = IF n > 0 /\ taken < MaxParams THEN [deep EXCEPT !.params = << p >> \o @] ELSE None
    BY DEF SearchChild, SearchParam
  <1>6. n > 0 /\ n \in Nat
    BY <1>1, <1>4
  <1>7. p \in Pairs(X)
    <2>1. SubSeq(rest, 1, n) \in Seq(X)
      BY <1>1, <1>4, <1>6
    <2> QED BY <1>2, <2>1 DEF Pairs
  <1> HIDE DEF p, n, rest, r, deep
  <1>8. Len(Caps(key[c], path)) = taken + 1 /\ << p >> \in Seq(Pairs(X))
    BY <1>1, <1>4, <1>7, OneBehind
  <1> DEFINE base == Caps(key[at], path)
  <1> HIDE DEF taken
  <1>9. CASE taken < MaxParams
    <2>1. r = [deep EXCEPT !.params = << p >> \o @]
      BY <1>5, <1>6, <1>9
    <2>2. deep = below[c][Left(key[c], path)][Len(Caps(key[c], path))]
      BY <1>4, <1>8 DEF deep
    <2>3. Answering(t, key, m, path, X, below, Len(rest))
      BY DEF Tried, rest
    <2>4. Len(Caps(key[c], path)) <= MaxParams
      BY <1>1, <1>8, <1>9, RouterAssumption
    <2>5. Answers(t, key, m, path, X, key[c], c, deep)
      BY <1>1, <1>4, <2>2, <2>3, <2>4 DEF Answering
    <2>6. CASE deep.chain = << >>
      <3>1. \A x : EndsAt(t, key, m, path, x) => ~Prefix(key[c], key[x])
        BY <2>5, <2>6 DEF Answers
      <3>2. r.chain = << >>
        BY <2>1, <2>6
      <3>3. Answers(t, key, m, path, X, key[at], c, r)
        BY <3>1, <3>2 DEF Answers
      <3> QED BY <3>3 DEF r, rest, taken
    <2>7. CASE deep.chain # << >>
      <3>1. deep \in Results(X)
        BY <2>5, <2>7 DEF Answers
      <3>2. PICK y : /\ EndsAt(t, key, m, path, y) /\ Prefix(key[c], key[y]) /\ deep.chain = t[y].chain[m]
                     /\ Caps(key[c], path) \o deep.params = Caps(key[y], path)
                     /\ \A x : EndsAt(t, key, m, path, x) /\ Prefix(key[c], key[x]) /\ x # y =>
                           Better(key[y], key[x])
        BY <2>5, <2>7 DEF Answers
      <3>3. r \in Results(X) /\ r.chain = deep.chain /\ r.params = << p >> \o deep.params
        BY <1>7, <2>1, <3>1, InFront
      <3>4. base \o r.params = Caps(key[y], path)
        <4> DEFINE d == deep.params
                   u == << p >>
        <4>1. d \in Seq(Pairs(X)) /\ u \in Seq(Pairs(X)) /\ base \in Seq(Pairs(X))
          BY <1>1, <1>8, <3>1 DEF Results
        <4>2. r.params = u \o d /\ Caps(key[c], path) = base \o u
          BY <1>4, <3>3
        <4> HIDE DEF d, u, base
        <4>3. Associates(base, u, d)
          BY <4>1, Associativity
        <4>4. (base \o u) \o d = base \o (u \o d)
          BY <4>3 DEF Associates
        <4> QED BY <3>2, <4>2, <4>4 DEF d
      <3> HIDE DEF base
      <3>5. Answers(t, key, m, path, X, key[at], c, r)
        BY <2>7, <3>2, <3>3, <3>4 DEF Answers, base
      <3> QED BY <3>5 DEF r, rest, taken
    <2> QED BY <2>6, <2>7
  <1>10. CASE ~(taken < MaxParams)
    <2>1. r = None
      BY <1>5, <1>10
    <2>2. r.chain = << >>
      BY <2>1 DEF None
    <2>3. ASSUME NEW x, EndsAt(t, key, m, path, x) PROVE ~Prefix(key[c], key[x])
      <3> SUFFICES ASSUME Prefix(key[c], key[x]) PROVE FALSE
        OBVIOUS
      <3>1. Len(Caps(key[c], path)) <= MaxParams
        <4>1. Sought(t, key, m, path, X)
          BY DEF Tried
        <4> QED BY <1>1, <2>3, <4>1, RoomLeft
      <3> QED BY <1>1, <1>8, <1>10, <3>1, RouterAssumption
    <2>4. Answers(t, key, m, path, X, key[at], c, r)
      BY <2>2, <2>3 DEF Answers
    <2> QED BY <2>4 DEF r, rest, taken
  <1> QED BY <1>9, <1>10

\* that of a catch-all,
LEMMA CatchAllAnswers ==
    ASSUME NEW t, NEW key, NEW m, NEW path, NEW X, NEW below, NEW c, NEW at,
           Tried(t, key, m, path, X, below, c, at), t[c].kind = "catchAll"
    PROVE  Answers(t, key, m, path, X, key[at], c,
                   SearchChild(t, below, m, c, Left(key[at], path), Len(Caps(key[at], path))))
  <1> DEFINE rest == Left(key[at], path)
             taken == Len(Caps(key[at], path))
             s == t[c].name
             p == <<s, rest>>
             params == IF taken < MaxParams THEN << p >> ELSE << >>
             r == SearchChild(t, below, m, c, rest, taken)
  <1>1. /\ Keyed(t, key) /\ path \in Seq(X) /\ "/" \in X
        /\ c \in 1 .. Len(t)
        /\ key[c] \in Seq(STRING) /\ key[at] \in Seq(STRING) /\ Joined(key[c], key[at], Label(t[c]))
        /\ Labelled(t[c]) /\ rest \in Seq(X) /\ Caps(key[at], path) \in Seq(Pairs(X))
        /\ taken \in 0 .. MaxParams /\ t[c].chain[m] \in Seq(Entries)
    BY TriedTypes
  <1>2. s \in CatchAlls /\ s \in STRING /\ Joined(key[c], key[at], << s >>)
    BY <1>1, RouterAssumption DEF Labelled, Label
  <1>3. Left(key[c], path) = << >> /\ Caps(key[c], path) = Caps(key[at], path) \o << p >>
    <2>1. Clean(rest) /\ rest # << >>
      BY DEF Tried
    <2>2. TakesAll(key[at], s, key[c], rest, path)
      BY <1>1, <1>2, <2>1, CatchAllWalk
    <2> QED BY <2>2 DEF TakesAll
  <1>4. p \in Pairs(X)
    BY <1>1, <1>2 DEF Pairs
  <1>5. r = Found(t[c].chain[m], params)
    BY DEF SearchChild, SearchCatchAll
  <1> HIDE DEF p, rest, r
  <1>6. Len(Caps(key[c], path)) = taken + 1 /\ << p >> \in Seq(Pairs(X))
    BY <1>1, <1>3, <1>4, OneBehind
  <1> HIDE DEF taken
  <1>7. r \in Results(X) /\ r.chain = t[c].chain[m] /\ r.params = params
    <2>1. params \in Seq(Pairs(X))
      <3>1. << >> \in Seq(Pairs(X))
        OBVIOUS
      <3> QED BY <1>6, <3>1
    <2> HIDE DEF params
    <2> QED BY <1>1, <1>5, <2>1 DEF Found, Results
  <1>8. ASSUME NEW x, EndsAt(t, key, m, path, x), Prefix(key[c], key[x]) PROVE x = c
    <2> SUFFICES ASSUME x # c PROVE FALSE
      OBVIOUS
    <2>1. x \in 1 .. Len(t)
      BY <1>8 DEF EndsAt
    <2>2. PICK d \in 2 .. Len(t) : t[d].parent = c
      BY <1>1, <1>8, <2>1 DEF Keyed, Branches
    <2>3. Parented(t, key, d, c)
      BY <1>1, <2>2, Child
    <2> QED BY <2>3 DEF Parented
  <1>9. CASE r.chain = << >>
    <2>1. \A x : EndsAt(t, key, m, path, x) => ~Prefix(key[c], key[x])
      BY <1>7, <1>8, <1>9 DEF EndsAt
    <2>2. Answers(t, key, m, path, X, key[at], c, r)
      BY <1>9, <2>1 DEF Answers
    <2> QED BY <2>2 DEF r, rest, taken
  <1>10. CASE r.chain # << >>
    <2>1. EndsAt(t, key, m, path, c)
      BY <1>1, <1>3, <1>7, <1>10 DEF EndsAt
    <2>2. Prefix(key[c], key[c])
      BY <1>1, PrefixItself
    <2>3. taken < MaxParams
      <3>1. Len(Caps(key[c], path)) <= MaxParams
        <4>1. Sought(t, key, m, path, X)
          BY DEF Tried
        <4> QED BY <1>1, <2>1, <2>2, <4>1, RoomLeft
      <3> QED BY <1>1, <1>6, <3>1, RouterAssumption
    <2>4. Caps(key[at], path) \o r.params = Caps(key[c], path)
      BY <1>3, <1>7, <2>3
    <2>5. \A x : EndsAt(t, key, m, path, x) /\ Prefix(key[c], key[x]) /\ x # c => Better(key[c], key[x])
      BY <1>8
    <2>6. Answers(t, key, m, path, X, key[at], c, r)
      BY <1>7, <1>10, <2>1, <2>2, <2>4, <2>5 DEF Answers
    <2> QED BY <2>6 DEF r, rest, taken
  <1> QED BY <1>9, <1>10

\* and so that of any child.
LEMMA ChildAnswers ==
    ASSUME NEW t, NEW key, NEW m, NEW path, NEW X, NEW below, NEW c, NEW at,
           Tried(t, key, m, path, X, below, c, at)
    PROVE  Answers(t, key, m, path, X, key[at], c,
                   SearchChild(t, below, m, c, Left(key[at], path), Len(Caps(key[at], path))))
  <1>1. t[c] \in NodeRecords
    BY TriedTypes
  <1>2. t[c].kind \in {"static", "param", "catchAll"}
    BY <1>1 DEF NodeRecords
  <1> QED BY <1>2, StaticAnswers, ParamAnswers, CatchAllAnswers

\* Two children of the same kind that both lead to an end are one.
LEMMA OneChild ==
    ASSUME NEW t, NEW key, NEW m, NEW path, NEW X, Sought(t, key, m, path, X),
           NEW c \in 2 .. Len(t), NEW d \in 2 .. Len(t), t[c].parent = t[d].parent, t[c].kind = t[d].kind,
           NEW x, EndsAt(t, key, m, path, x), Prefix(key[c], key[x]),
           NEW y, EndsAt(t, key, m, path, y), Prefix(key[d], key[y])
    PROVE  c = d
  <1>1. Keyed(t, key) /\ Straight(t, key, m, path)
    BY DEF Sought
  <1>2. CASE t[c].kind # "static"
    BY <1>1, <1>2 DEF Keyed, ApartKinds
  <1>3. CASE t[c].kind = "static"
    <2> DEFINE rest == Left(key[t[c].parent], path)
    <2>1. Prefix(t[c].path, rest) /\ Prefix(t[d].path, rest)
      BY <1>1, <1>3 DEF Straight
    <2>2. Parented(t, key, c, t[c].parent) /\ Parented(t, key, d, t[d].parent)
      BY <1>1, Child
    <2>3. Label(t[c]) = t[c].path /\ Label(t[d]) = t[d].path
      BY <1>3 DEF Label
    <2>4. Len(t[c].path) \in Nat /\ Len(t[c].path) >= 1 /\ Len(t[d].path) \in Nat /\ Len(t[d].path) >= 1
      BY <2>2, <2>3 DEF Parented
    <2>5. 1 \in 1 .. Len(t[c].path) /\ 1 \in 1 .. Len(t[d].path)
      BY <2>4
    <2>6. t[c].path[1] = rest[1] /\ t[d].path[1] = rest[1]
      BY <2>1, <2>5 DEF Prefix
    <2> HIDE DEF rest
    <2>7. Label(t[c])[1] = Label(t[d])[1]
      BY <2>3, <2>6
    <2> QED BY <1>1, <2>7 DEF Keyed, ApartHeads
  <1> QED BY <1>2, <1>3

\* A node below a child of an earlier kind is better than one below a later.
LEMMA BetterKinds ==
    ASSUME NEW t, NEW key, Keyed(t, key), NEW c \in 2 .. Len(t), NEW d \in 2 .. Len(t),
           t[c].parent = t[d].parent, KindRank(t[c].kind) < KindRank(t[d].kind),
           NEW y \in 1 .. Len(t), Prefix(key[c], key[y]), NEW x \in 1 .. Len(t), Prefix(key[d], key[x])
    PROVE  Better(key[y], key[x])
  <1> DEFINE at == t[c].parent
             i == Len(key[at]) + 1
             a == key[y]
             b == key[x]
  <1>1. Parented(t, key, c, at) /\ Parented(t, key, d, at)
    BY Child
  <1> HIDE DEF at
  <1>2. /\ Len(key[at]) \in Nat /\ Len(key[c]) \in Nat /\ Len(key[d]) \in Nat
        /\ Len(key[at]) < Len(key[c]) /\ Len(key[at]) < Len(key[d])
        /\ Prefix(key[at], key[c]) /\ Prefix(key[at], key[d])
        /\ key[c][i] = Label(t[c])[1] /\ key[d][i] = Label(t[d])[1]
        /\ t[c] \in NodeRecords /\ Labelled(t[c]) /\ t[d] \in NodeRecords /\ Labelled(t[d])
    BY <1>1 DEF Parented
  <1>3. Len(a) \in Nat /\ Len(b) \in Nat /\ Len(key[c]) <= Len(a) /\ Len(key[d]) <= Len(b)
    BY KeyedTypes DEF Prefix
  <1>4. /\ \A j \in 1 .. Len(key[c]) : key[c][j] = a[j]
        /\ \A j \in 1 .. Len(key[d]) : key[d][j] = b[j]
        /\ \A j \in 1 .. Len(key[at]) : key[at][j] = key[c][j] /\ key[at][j] = key[d][j]
    BY <1>2 DEF Prefix
  <1> HIDE DEF a, b
  <1>5. i \in 1 .. Len(a) /\ i <= Len(b) /\ i \in 1 .. Len(key[c]) /\ i \in 1 .. Len(key[d])
    <2> DEFINE p == Len(key[at])
               k == Len(key[c])
               l == Len(key[d])
               m == Len(a)
               n == Len(b)
    <2>1. p \in Nat /\ k \in Nat /\ l \in Nat /\ p < k /\ p < l
      BY <1>2
    <2>2. m \in Nat /\ n \in Nat /\ k <= m /\ l <= n
      BY <1>3
    <2>3. i = p + 1
      OBVIOUS
    <2> HIDE DEF i, p, k, l, m, n
    <2>4. i \in 1 .. m /\ i <= n /\ i \in 1 .. k /\ i \in 1 .. l
      BY <2>1, <2>2, <2>3
    <2> QED BY <2>4 DEF k, l, m, n
  <1>6. \A j \in 1 .. i - 1 : a[j] = b[j]
    <2> TAKE j \in 1 .. i - 1
    <2>1. j \in 1 .. Len(key[at]) /\ j \in 1 .. Len(key[c]) /\ j \in 1 .. Len(key[d])
      <3>1. /\ Len(key[at]) \in Nat /\ Len(key[c]) \in Nat /\ Len(key[d]) \in Nat
            /\ Len(key[at]) < Len(key[c]) /\ Len(key[at]) < Len(key[d])
        BY <1>2
      <3> QED BY <3>1
    <2>2. key[c][j] = a[j] /\ key[d][j] = b[j] /\ key[at][j] = key[c][j] /\ key[at][j] = key[d][j]
      BY <1>4, <2>1
    <2> QED BY <2>2
  <1>7. a[i] = Label(t[c])[1] /\ b[i] = Label(t[d])[1]
    BY <1>2, <1>4, <1>5
  <1> HIDE DEF i
  <1>8. \/ t[c].kind = "static" /\ t[d].kind # "static"
        \/ t[c].kind = "param" /\ t[d].kind = "catchAll"
    <2>1. t[c].kind \in {"static", "param", "catchAll"} /\ t[d].kind \in {"static", "param", "catchAll"}
      BY <1>2 DEF NodeRecords
    <2> QED BY <2>1 DEF KindRank
  <1>9. CASE t[c].kind = "static" /\ t[d].kind # "static"
    <2>1. a[i] \in Letters /\ b[i] \notin Letters
      BY <1>2, <1>7, <1>9, LabelType
    <2> QED BY <1>5, <1>6, <2>1 DEF Better, a, b
  <1>10. CASE t[c].kind = "param" /\ t[d].kind = "catchAll"
    <2>1. a[i] \in ParamSyms /\ b[i] \in CatchAlls
      BY <1>2, <1>7, <1>10, LabelType
    <2> QED BY <1>5, <1>6, <2>1 DEF Better, a, b
  <1> QED BY <1>8, <1>9, <1>10

\* A call of search answers if the calls it makes do.
LEMMA NodeAnswers ==
    ASSUME NEW t, NEW key, NEW m, NEW path, NEW X, Sought(t, key, m, path, X), NEW below,
           NEW at \in 1 .. Len(t), Clean(Left(key[at], path)), Len(Caps(key[at], path)) <= MaxParams,
           Answering(t, key, m, path, X, below, Len(Left(key[at], path)))
    PROVE  Answers(t, key, m, path, X, key[at], at,
                   Search(t, below, m, at, Left(key[at], path), Len(Caps(key[at], path))))
  <1> DEFINE rest == Left(key[at], path)
             taken == Len(Caps(key[at], path))
             r == Search(t, below, m, at, rest, taken)
             Got(c) == SearchChild(t, below, m, c, rest, taken)
             Ends_(x) == EndsAt(t, key, m, path, x)
  <1>1. Keyed(t, key)
    BY DEF Sought
  <1>2. CASE rest = << >>
    <2>1. r = Found(t[at].chain[m], << >>)
      BY <1>2 DEF Search
    <2> QED BY <1>2, <2>1, EndAnswers
  <1>3. CASE rest # << >>
    <2>1. FirstOf(t, below, m, at, rest, taken, r)
      BY <1>1, <1>3, SearchIs
    <2>2. ASSUME NEW c \in 2 .. Len(t), t[c].parent = at
          PROVE  Answers(t, key, m, path, X, key[at], c, Got(c))
      <3>1. Tried(t, key, m, path, X, below, c, at)
        BY <1>3, <2>2 DEF Tried
      <3> QED BY <3>1, ChildAnswers
    <2>3. ASSUME NEW x, Ends_(x), Prefix(key[at], key[x])
          PROVE  \E c \in 2 .. Len(t) : t[c].parent = at /\ Prefix(key[c], key[x])
      <3>1. x \in 1 .. Len(t) /\ x # at
        BY <1>3, <2>3 DEF EndsAt
      <3> QED BY <1>1, <2>3, <3>1 DEF Keyed, Branches
    <2> HIDE DEF r, Got
    <2>4. CASE r.chain = << >>
      <3>1. \A c \in 2 .. Len(t) : t[c].parent = at => Got(c).chain = << >>
        BY <2>1, <2>4 DEF FirstOf, Got
      <3>2. ASSUME NEW x, Ends_(x), Prefix(key[at], key[x]) PROVE FALSE
        <4>1. PICK c \in 2 .. Len(t) : t[c].parent = at /\ Prefix(key[c], key[x])
          BY <2>3, <3>2
        <4>2. Answers(t, key, m, path, X, key[at], c, Got(c)) /\ Got(c).chain = << >>
          BY <2>2, <3>1, <4>1
        <4> QED BY <3>2, <4>1, <4>2 DEF Answers
      <3>3. Answers(t, key, m, path, X, key[at], at, r)
        BY <2>4, <3>2 DEF Answers
      <3> QED BY <3>3 DEF r
    <2>5. CASE r.chain # << >>
      <3>1. PICK c \in 2 .. Len(t) :
               /\ t[c].parent = at /\ r = Got(c)
               /\ \A d \in 2 .. Len(t) : t[d].parent = at /\ KindRank(t[d].kind) < KindRank(t[c].kind) =>
                     Got(d).chain = << >>
        BY <2>1, <2>5 DEF FirstOf, Got
      <3>2. Answers(t, key, m, path, X, key[at], c, r)
        BY <2>2, <3>1
      <3>3. r \in Results(X)
        BY <2>5, <3>2 DEF Answers
      <3>4. PICK y : /\ Ends_(y) /\ Prefix(key[c], key[y]) /\ r.chain = t[y].chain[m]
                     /\ Caps(key[at], path) \o r.params = Caps(key[y], path)
                     /\ \A x : Ends_(x) /\ Prefix(key[c], key[x]) /\ x # y => Better(key[y], key[x])
        BY <2>5, <3>2 DEF Answers
      <3>5. y \in 1 .. Len(t)
        BY <3>4 DEF EndsAt
      <3>6. Prefix(key[at], key[y])
        <4>1. Parented(t, key, c, at)
          BY <1>1, <3>1, Child
        <4>2. key[c] \in Seq(STRING) /\ key[at] \in Seq(STRING) /\ Prefix(key[at], key[c])
          BY <4>1 DEF Parented
        <4>3. key[y] \in Seq(STRING)
          BY <1>1, <3>5, KeyedTypes
        <4> QED BY <3>4, <4>2, <4>3, PrefixTrans
      <3>7. ASSUME NEW x, Ends_(x), Prefix(key[at], key[x]), x # y PROVE Better(key[y], key[x])
        <4>1. PICK d \in 2 .. Len(t) : t[d].parent = at /\ Prefix(key[d], key[x])
          BY <2>3, <3>7
        <4>2. x \in 1 .. Len(t)
          BY <3>7 DEF EndsAt
        <4>3. CASE KindRank(t[d].kind) < KindRank(t[c].kind)
          <5>1. Answers(t, key, m, path, X, key[at], d, Got(d)) /\ Got(d).chain = << >>
            BY <2>2, <3>1, <4>1, <4>3
          <5> QED BY <3>7, <4>1, <5>1 DEF Answers
        <4>4. CASE KindRank(t[c].kind) < KindRank(t[d].kind)
          BY <1>1, <3>1, <3>4, <3>5, <4>1, <4>2, <4>4, BetterKinds
        <4>5. CASE t[c].kind = t[d].kind
          <5>1. c = d
            BY <3>1, <3>4, <3>7, <4>1, <4>5, OneChild
          <5> QED BY <3>4, <3>7, <4>1, <5>1
        <4>6. \/ KindRank(t[d].kind) < KindRank(t[c].kind) \/ KindRank(t[c].kind) < KindRank(t[d].kind)
              \/ t[c].kind = t[d].kind
          <5>1. t[c] \in NodeRecords /\ t[d] \in NodeRecords
            <6>1. Parented(t, key, c, at) /\ Parented(t, key, d, at)
              BY <1>1, <3>1, <4>1, Child
            <6> QED BY <6>1 DEF Parented
          <5>2. t[c].kind \in {"static", "param", "catchAll"} /\ t[d].kind \in {"static", "param", "catchAll"}
            BY <5>1 DEF NodeRecords
          <5> QED BY <5>2 DEF KindRank
        <4> QED BY <4>3, <4>4, <4>5, <4>6
      <3>8. Answers(t, key, m, path, X, key[at], at, r)
        BY <2>5, <3>3, <3>4, <3>6, <3>7 DEF Answers
      <3> QED BY <3>8 DEF r
    <2> QED BY <2>4, <2>5
  <1> QED BY <1>2, <1>3

\* There is nothing to find, or r is what stands at the best of the ends.
Finds(t, key, m, path, r) ==
    \/ r = None /\ \A x : ~EndsAt(t, key, m, path, x)
    \/ \E y : /\ EndsAt(t, key, m, path, y) /\ r = Found(t[y].chain[m], Caps(key[y], path))
              /\ \A x : EndsAt(t, key, m, path, x) /\ x # y => Better(key[y], key[x])

\* lookup starts such a search at the root.
LEMMA LookupFinds ==
    ASSUME NEW t, NEW key, NEW m, NEW text \in Seq(Symbols), Len(text) >= 1, Head(text) = "/",
           Sought(t, key, m, Tail(text), ToSet(text)), Clean(Tail(text))
    PROVE  Finds(t, key, m, Tail(text), Lookup(t, m, text))
  <1> DEFINE path == Tail(text)
             X == ToSet(text)
             N == Len(text)
  <1>1. /\ Keyed(t, key) /\ path \in Seq(X) /\ "/" \in X
    BY DEF Sought
  <1>2. N \in Nat /\ N >= 1 /\ Len(path) = N - 1
    OBVIOUS
  <1>3. PICK f : Searching(f, t, X, m, N) /\ Lookup(t, m, text) = Outcome(f[N][1][path][0])
    BY <1>2, SearchUnfolds
  <1>4. DOMAIN t = 1 .. Len(t) /\ 1 \in 1 .. Len(t) /\ key[1] = << >>
    BY <1>1, KeyedTypes DEF Keyed, Hangs
  <1>5. ASSUME NEW at \in 1 .. Len(t)
        PROVE  /\ Left(key[at], path) \in Seq(X) /\ Len(Left(key[at], path)) \in Nat
               /\ Len(Caps(key[at], path)) \in Nat
    <2>1. key[at] \in Seq(STRING)
      BY <1>1, KeyedTypes
    <2>2. Left(key[at], path) \in Seq(X) /\ Caps(key[at], path) \in Seq(Pairs(X))
      BY <1>1, <2>1, LeftType, CapsType
    <2> QED BY <2>2
  <1>6. Left(key[1], path) = path /\ Caps(key[1], path) = << >>
    BY <1>1, <1>4, EmptyWalk
  <1> HIDE DEF N, X, path
  <1> DEFINE S == {n \in Nat : n <= N => Answering(t, key, m, path, X, f[n], n)}
  <1>7. 0 \in S
    <2>1. ASSUME NEW at \in 1 .. Len(t) PROVE ~(Len(Left(key[at], path)) < 0)
      BY <1>5
    <2> QED BY <2>1 DEF Answering
  <1>8. ASSUME NEW n \in Nat, n \in S PROVE n + 1 \in S
    <2> SUFFICES ASSUME n + 1 <= N PROVE Answering(t, key, m, path, X, f[n + 1], n + 1)
      OBVIOUS
    <2>1. n <= N /\ n + 1 \in 1 .. N /\ (n + 1) - 1 = n
      BY <1>2
    <2>2. Answering(t, key, m, path, X, f[n], n)
      BY <1>8, <2>1
    <2> HIDE DEF S
    <2>3. ASSUME NEW at \in 1 .. Len(t), Clean(Left(key[at], path)),
                 Len(Left(key[at], path)) < n + 1, Len(Caps(key[at], path)) <= MaxParams
          PROVE  Answers(t, key, m, path, X, key[at], at,
                         f[n + 1][at][Left(key[at], path)][Len(Caps(key[at], path))])
      <3> DEFINE rest == Left(key[at], path)
                 taken == Len(Caps(key[at], path))
      <3>1. rest \in Seq(X) /\ Len(rest) \in Nat /\ taken \in Nat
        BY <1>5
      <3>2. taken \in 0 .. MaxParams
        BY <2>3, <3>1, RouterAssumption
      <3>3. f[n + 1][at][rest][taken] = Search(t, f[n], m, at, rest, taken)
        <4> HIDE DEF rest, taken
        <4> QED BY <1>3, <1>4, <2>1, <3>1, <3>2 DEF Searching
      <3>4. Answering(t, key, m, path, X, f[n], Len(rest))
        <4>1. \A l \in Nat : l < Len(rest) => l < n
          BY <2>3, <3>1
        <4>2. \A b \in 1 .. Len(t) : Len(Left(key[b], path)) \in Nat
          BY <1>5
        <4> QED BY <2>2, <4>1, <4>2 DEF Answering
      <3>5. Sought(t, key, m, path, X)
        BY DEF path, X
      <3> QED BY <2>3, <3>3, <3>4, <3>5, NodeAnswers
    <2> QED BY <2>3 DEF Answering
  <1>9. Answering(t, key, m, path, X, f[N], N)
    <2> HIDE DEF S
    <2>1. N \in S
      BY <1>2, <1>7, <1>8, Induction
    <2>2. N <= N
      BY <1>2
    <2> QED BY <2>1, <2>2 DEF S
  <1> DEFINE found == f[N][1][path][0]
  <1>10. Answers(t, key, m, path, X, key[1], 1, found)
    <2>1. Clean(path) /\ Len(path) < N
      BY <1>2 DEF path
    <2>2. Len(<< >>) = 0 /\ 0 <= MaxParams
      BY RouterAssumption
    <2> QED BY <1>4, <1>6, <1>9, <2>1, <2>2 DEF Answering
  <1>11. Lookup(t, m, text) = Outcome(found)
    BY <1>3
  <1> HIDE DEF found
  <1>12. \A x : EndsAt(t, key, m, path, x) => Prefix(key[1], key[x])
    <2> SUFFICES ASSUME NEW x, EndsAt(t, key, m, path, x) PROVE Prefix(<< >>, key[x])
      BY <1>4
    <2>1. Len(key[x]) \in Nat
      BY <1>1, KeyedTypes DEF EndsAt
    <2> QED BY <2>1 DEF Prefix
  <1>13. CASE found.chain = << >>
    <2>1. Lookup(t, m, text) = None
      BY <1>11, <1>13 DEF Outcome
    <2>2. \A x : ~EndsAt(t, key, m, path, x)
      BY <1>10, <1>12, <1>13 DEF Answers
    <2> QED BY <2>1, <2>2 DEF Finds, path
  <1>14. CASE found.chain # << >>
    <2>1. Lookup(t, m, text) = found
      BY <1>11, <1>14 DEF Outcome
    <2>2. found \in Results(X)
      BY <1>10, <1>14 DEF Answers
    <2>3. PICK y : /\ EndsAt(t, key, m, path, y) /\ found.chain = t[y].chain[m]
                   /\ Caps(key[1], path) \o found.params = Caps(key[y], path)
                   /\ \A x : EndsAt(t, key, m, path, x) /\ Prefix(key[1], key[x]) /\ x # y =>
                         Better(key[y], key[x])
      BY <1>10, <1>14 DEF Answers
    <2>4. found.params = Caps(key[y], path)
      <3>1. found.params \in Seq(Pairs(X))
        BY <2>2 DEF Results
      <3>2. << >> \o found.params = found.params
        BY <3>1, ConcatEmptySeq
      <3> QED BY <1>6, <2>3, <3>2
    <2>5. found = Found(found.chain, found.params)
      BY <2>2 DEF Results, Found
    <2>6. \A x : EndsAt(t, key, m, path, x) /\ x # y => Better(key[y], key[x])
      BY <1>12, <2>3
    <2> QED BY <2>1, <2>3, <2>4, <2>5, <2>6 DEF Finds, path
  <1> QED BY <1>13, <1>14

-----------------------------------------------------------------------------
(* A pattern and a path that fits it                                       *)

\* A segment is a word, a parameter or the catch-all at the end.
AWord(seg)  == /\ seg \in Seq(Letters) /\ seg # << >> /\ Rank(seg) = 1
               /\ ~IsParam(seg) /\ ~IsCatchAll(seg)
AParam(seg) == /\ seg = << seg[1] >> /\ seg[1] \in ParamSyms /\ Rank(seg) = 2
               /\ IsParam(seg) /\ ~IsCatchAll(seg)
ARest(seg)  == /\ seg = << seg[1] >> /\ seg[1] \in CatchAlls /\ Rank(seg) = 3
               /\ ~IsParam(seg) /\ IsCatchAll(seg)

\* The segments of a sound pattern are of these kinds.
LEMMA SegmentKind ==
    ASSUME NEW pat, Sound(pat), NEW i \in 1 .. Len(pat)
    PROVE  /\ pat[i] \in Seq(STRING)
           /\ AWord(pat[i]) \/ AParam(pat[i]) \/ (ARest(pat[i]) /\ i = Len(pat))
  <1> DEFINE s == pat[i]
  <1>1. /\ s \in Seq(STRING)
        /\ \/ s # << >> /\ \A n \in 1 .. Len(s) : s[n] \in Letters
           \/ Len(s) = 1 /\ s[1] \in ParamSyms
           \/ Len(s) = 1 /\ s[1] \in CatchAlls /\ i = Len(pat)
    BY DEF Sound
  <1> HIDE DEF s
  <1>2. ParamSyms \cap CatchAlls = {} /\ Letters \cap ParamSyms = {} /\ Letters \cap CatchAlls = {}
    BY RouterAssumption DEF Letters
  <1>3. ASSUME s # << >>, \A n \in 1 .. Len(s) : s[n] \in Letters PROVE AWord(s)
    <2>1. s \in Seq(Letters)
      BY <1>1, <1>3
    <2>2. Len(s) = 1 => s[1] \in Letters
      BY <1>1, <1>3
    <2>3. ~IsParam(s) /\ ~IsCatchAll(s)
      BY <1>2, <2>2 DEF IsParam, IsCatchAll
    <2> QED BY <1>3, <2>1, <2>3 DEF AWord, Rank
  <1>4. ASSUME Len(s) = 1, s[1] \in ParamSyms PROVE AParam(s)
    <2>1. s = << s[1] >>
      BY <1>1, <1>4, OneSymbol
    <2>2. IsParam(s) /\ ~IsCatchAll(s)
      BY <1>2, <1>4 DEF IsParam, IsCatchAll
    <2> QED BY <1>4, <2>1, <2>2 DEF AParam, Rank
  <1>5. ASSUME Len(s) = 1, s[1] \in CatchAlls PROVE ARest(s)
    <2>1. s = << s[1] >>
      BY <1>1, <1>5, OneSymbol
    <2>2. ~IsParam(s) /\ IsCatchAll(s)
      BY <1>2, <1>5 DEF IsParam, IsCatchAll
    <2> QED BY <1>5, <2>1, <2>2 DEF ARest, Rank
  <1>6. AWord(s) \/ AParam(s) \/ (ARest(s) /\ i = Len(pat))
    BY <1>1, <1>3, <1>4, <1>5
  <1> QED BY <1>1, <1>6 DEF s

\* What the segments of a pattern capture, before it is joined
Parts(pat, path) ==
    [i \in DOMAIN pat |->
        CASE IsCatchAll(pat[i]) -> << <<pat[i][1], Tail(Text(Drop(path, i - 1)))>> >>
          [] IsParam(pat[i])    -> << <<pat[i][1], path[i]>> >>
          [] OTHER              -> << >>]

\* A path that fits reaches as far as the pattern and has its words.
LEMMA FitsIs ==
    ASSUME NEW pat, Sound(pat), NEW path, Segments(path), Fits(pat, path)
    PROVE  /\ Len(pat) \in Nat /\ Len(path) \in Nat /\ Len(pat) <= Len(path)
           /\ (~EndsInCatchAll(pat) => Len(path) = Len(pat))
           /\ \A i \in 1 .. Len(pat) : AWord(pat[i]) => pat[i] = path[i]
           /\ \A i \in 1 .. Len(pat) : ARest(pat[i]) => EndsInCatchAll(pat)
           /\ EndsInCatchAll(pat) => Len(pat) >= 1 /\ ARest(pat[Len(pat)])
  <1>1. pat \in Seq(Seq(STRING)) /\ path \in Seq(Seq(STRING))
    BY DEF Sound, Segments
  <1>2. Len(pat) \in Nat /\ Len(path) \in Nat /\ DOMAIN pat = 1 .. Len(pat) /\ (pat # << >> => Len(pat) >= 1)
    BY <1>1
  <1>3. Len(pat) <= Len(path) /\ (~EndsInCatchAll(pat) => Len(path) = Len(pat))
    <2>1. IF EndsInCatchAll(pat) THEN Len(path) >= Len(pat) ELSE Len(path) = Len(pat)
      BY DEF Fits
    <2> QED BY <1>2, <2>1
  <1>4. \A i \in 1 .. Len(pat) : AWord(pat[i]) => pat[i] = path[i]
    BY <1>2 DEF Fits, AWord
  <1>5. ASSUME NEW i \in 1 .. Len(pat), ARest(pat[i]) PROVE EndsInCatchAll(pat)
    <2>1. i = Len(pat)
      BY <1>5, SegmentKind DEF AWord, AParam, ARest
    <2>2. pat # << >>
      BY <1>1, <1>5
    <2> QED BY <1>5, <2>1, <2>2 DEF EndsInCatchAll, Last, ARest
  <1>6. ASSUME EndsInCatchAll(pat) PROVE Len(pat) >= 1 /\ ARest(pat[Len(pat)])
    <2>1. pat # << >> /\ IsCatchAll(pat[Len(pat)])
      BY <1>6 DEF EndsInCatchAll, Last
    <2>2. Len(pat) \in 1 .. Len(pat)
      BY <1>2, <2>1
    <2> QED BY <1>2, <2>1, <2>2, SegmentKind DEF AWord, AParam, ARest
  <1> QED BY <1>2, <1>3, <1>4, <1>5, <1>6

\* What is left and what was taken after j segments
Passed(pat, path, j) ==
    LET text == Rest(path, << >>, 0)
    IN  /\ Left(Key(pat, j), text) = IF j = Len(pat) /\ EndsInCatchAll(pat) THEN << >> ELSE Rest(path, << >>, j)
        /\ Caps(Key(pat, j), text) = FlattenSeq(SubSeq(Parts(pat, path), 1, j))

\* The types of what is left of a path from a segment on
LEMMA RestType ==
    ASSUME NEW path, Segments(path), NEW j \in 0 .. Len(path)
    PROVE  Rest(path, << >>, j) \in Seq(Symbols) /\ Clean(Rest(path, << >>, j))
  <1>1. Len(path) \in Nat /\ << >> \in Endings
    BY DEF Segments, Endings
  <1>2. CASE j = Len(path)
    <2>1. Rest(path, << >>, j) = << >>
      BY <1>2 DEF Rest
    <2>2. << >> \in Seq(Symbols)
      OBVIOUS
    <2> QED BY <2>1, <2>2, CleanRest
  <1>3. CASE j # Len(path)
    <2>1. j \in 0 .. Len(path) - 1
      BY <1>1, <1>3
    <2>2. Reads(Rest(path, << >>, j), path[j + 1], Rest(path, << >>, j + 1))
      BY <1>1, <2>1, RestReads
    <2> QED BY <2>2, CleanRest DEF Reads
  <1> QED BY <1>2, <1>3

\* The key of one more segment
LEMMA KeyStep ==
    ASSUME NEW pat, Sound(pat), NEW j \in 0 .. Len(pat) - 1
    PROVE  /\ Key(pat, j) \in Seq(STRING) /\ Key(pat, j + 1) \in Seq(STRING)
           /\ Joined(Key(pat, j + 1), Key(pat, j), pat[j + 1])
  <1>1. pat \in Seq(Seq(STRING)) /\ Len(pat) \in Nat
    BY DEF Sound
  <1>2. j \in 0 .. Len(pat) /\ j + 1 \in 0 .. Len(pat) /\ j + 1 \in 1 .. Len(pat)
    BY <1>1
  <1>3. Key(pat, j) \in Seq(STRING) /\ Key(pat, j + 1) \in Seq(STRING) /\ pat[j + 1] \in Seq(STRING)
    BY <1>1, <1>2, KeyIs
  <1>4. Key(pat, j + 1) = Key(pat, j) \o pat[j + 1]
    BY <1>1, KeyIs
  <1>5. Joined(Key(pat, j) \o pat[j + 1], Key(pat, j), pat[j + 1])
    BY <1>3, Join
  <1> QED BY <1>3, <1>4, <1>5

\* What is captured has these types.
LEMMA PartsAre ==
    ASSUME NEW pat, Sound(pat), NEW path, Segments(path), Len(pat) <= Len(path)
    PROVE  /\ Parts(pat, path) \in Seq(Seq(Pairs(Symbols))) /\ Len(Parts(pat, path)) = Len(pat)
           /\ Captured(pat, path) = FlattenSeq(Parts(pat, path))
           /\ \A i \in 1 .. Len(pat) :
                 /\ AWord(pat[i]) => Parts(pat, path)[i] = << >>
                 /\ AParam(pat[i]) => Parts(pat, path)[i] = << <<pat[i][1], path[i]>> >>
                 /\ ARest(pat[i]) => Parts(pat, path)[i] = << <<pat[i][1], Rest(path, << >>, i - 1)>> >>
  <1> DEFINE P == Parts(pat, path)
  <1>1. /\ pat \in Seq(Seq(STRING)) /\ path \in Seq(Seq(STRING)) /\ Len(pat) \in Nat /\ Len(path) \in Nat
        /\ DOMAIN pat = 1 .. Len(pat)
    BY DEF Sound, Segments
  <1>2. ASSUME NEW i \in 1 .. Len(pat)
        PROVE  /\ P[i] \in Seq(Pairs(Symbols))
               /\ AWord(pat[i]) => P[i] = << >>
               /\ AParam(pat[i]) => P[i] = << <<pat[i][1], path[i]>> >>
               /\ ARest(pat[i]) => P[i] = << <<pat[i][1], Rest(path, << >>, i - 1)>> >>
    <2> DEFINE w == << <<pat[i][1], path[i]>> >>
               a == << <<pat[i][1], Tail(Text(Drop(path, i - 1)))>> >>
    <2>1. P[i] = CASE IsCatchAll(pat[i]) -> a [] IsParam(pat[i]) -> w [] OTHER -> << >>
      BY <1>1 DEF Parts
    <2> HIDE DEF P
    <2>2. i - 1 \in 0 .. Len(path) - 1 /\ i - 1 \in 0 .. Len(path) /\ i \in 1 .. Len(path)
      BY <1>1
    <2>3. Tail(Text(Drop(path, i - 1))) = Rest(path, << >>, i - 1)
      BY <2>2, TextDrop
    <2>4. Rest(path, << >>, i - 1) \in Seq(Symbols)
      BY <2>2, RestType
    <2>5. path[i] \in Seq(Symbols)
      <3>1. path[i] \in Seq(STRING)
        BY <1>1, <2>2
      <3>2. STRING \subseteq Symbols
        BY DEF Symbols
      <3> QED BY <3>1, <3>2, SeqMonotonic
    <2>6. ASSUME pat[i][1] \in STRING PROVE w \in Seq(Pairs(Symbols)) /\ a \in Seq(Pairs(Symbols))
      <3>1. <<pat[i][1], path[i]>> \in Pairs(Symbols)
        BY <2>5, <2>6 DEF Pairs
      <3>2. <<pat[i][1], Tail(Text(Drop(path, i - 1)))>> \in Pairs(Symbols)
        BY <2>3, <2>4, <2>6 DEF Pairs
      <3> DEFINE p == <<pat[i][1], path[i]>>
                 q == <<pat[i][1], Tail(Text(Drop(path, i - 1)))>>
      <3> HIDE DEF p, q
      <3>3. << p >> \in Seq(Pairs(Symbols)) /\ << q >> \in Seq(Pairs(Symbols))
        <4>1. p \in Pairs(Symbols) /\ q \in Pairs(Symbols)
          BY <3>1, <3>2 DEF p, q
        <4> QED BY <4>1
      <3> QED BY <3>3 DEF p, q
    <2>7. AWord(pat[i]) \/ AParam(pat[i]) \/ ARest(pat[i])
      BY SegmentKind
    <2>8. << >> \in Seq(Pairs(Symbols))
      OBVIOUS
    <2> HIDE DEF w, a
    <2>9. AWord(pat[i]) => P[i] = << >>
      BY <2>1 DEF AWord
    <2>10. AParam(pat[i]) => P[i] = w /\ pat[i][1] \in STRING
      BY <2>1, RouterAssumption DEF AParam
    <2>11. ARest(pat[i]) => P[i] = a /\ pat[i][1] \in STRING
      BY <2>1, RouterAssumption DEF ARest
    <2>12. P[i] \in Seq(Pairs(Symbols))
      BY <2>6, <2>7, <2>8, <2>9, <2>10, <2>11
    <2>13. a = << <<pat[i][1], Rest(path, << >>, i - 1)>> >>
      BY <2>3 DEF a
    <2> QED BY <2>9, <2>10, <2>11, <2>12, <2>13 DEF w
  <1>3. P \in [1 .. Len(pat) -> Seq(Pairs(Symbols))]
    <2>1. P = [i \in 1 .. Len(pat) |-> P[i]]
      BY <1>1 DEF Parts
    <2> HIDE DEF P
    <2> QED BY <1>2, <2>1
  <1>4. Captured(pat, path) = FlattenSeq(P)
    BY DEF Captured, Parts
  <1> HIDE DEF P
  <1>5. P \in Seq(Seq(Pairs(Symbols))) /\ Len(P) = Len(pat)
    <2>1. Len(pat) \in Nat
      BY <1>1
    <2> DEFINE n == Len(pat)
               Y == Seq(Pairs(Symbols))
    <2>2. n \in Nat /\ P \in [1 .. n -> Y]
      BY <1>3, <2>1
    <2> HIDE DEF n, Y
    <2>3. P \in Seq(Y) /\ Len(P) = n
      BY <2>2
    <2> QED BY <2>3 DEF n, Y
  <1> QED BY <1>2, <1>4, <1>5 DEF P

\* Behind n characters of a word that stands in the path
LEMMA WordWalk ==
    ASSUME NEW path, Segments(path), NEW j \in 0 .. Len(path) - 1, NEW k \in Seq(STRING),
           Left(k, Rest(path, << >>, 0)) = Rest(path, << >>, j), AWord(path[j + 1]),
           NEW n \in 1 .. Len(path[j + 1]), NEW b \in Seq(STRING), Joined(b, k, SubSeq(path[j + 1], 1, n))
    PROVE  /\ Left(b, Rest(path, << >>, 0)) = SkipSlash(Drop(Rest(path, << >>, j), n))
           /\ Caps(b, Rest(path, << >>, 0)) = Caps(k, Rest(path, << >>, 0))
  <1> DEFINE text == Rest(path, << >>, 0)
             rest == Rest(path, << >>, j)
             s == path[j + 1]
             l == SubSeq(s, 1, n)
  <1>1. Len(path) \in Nat /\ 0 \in 0 .. Len(path) /\ j \in 0 .. Len(path) /\ << >> \in Endings
    BY DEF Segments, Endings
  <1>2. text \in Seq(Symbols) /\ rest \in Seq(Symbols) /\ Clean(rest) /\ "/" \in Symbols
    BY <1>1, RestType DEF Symbols
  <1>3. s \in Seq(Letters)
    BY DEF AWord
  <1>4. Laid(rest, s, Rest(path, << >>, j + 1))
    BY <1>1, RestReads, ReadsLaid
  <1>5. Len(rest) \in Nat /\ Len(s) \in Nat /\ Len(rest) >= Len(s) /\ \A i \in 1 .. Len(s) : rest[i] = s[i]
    BY <1>4 DEF Laid
  <1> HIDE DEF s, rest, text
  <1>6. l \in Seq(Letters) /\ Len(l) = n /\ l # << >> /\ \A i \in 1 .. n : l[i] = s[i]
    BY <1>3 DEF s
  <1>7. Prefix(l, rest)
    <2>1. n <= Len(rest) /\ \A i \in 1 .. n : i \in 1 .. Len(s)
      BY <1>5 DEF s
    <2> HIDE DEF l
    <2> QED BY <1>5, <1>6, <2>1 DEF Prefix
  <1>8. Joined(b, k, l) /\ Left(k, text) = rest
    BY DEF s, text, rest
  <1> HIDE DEF l
  <1>9. Walks(k, l, b, Left(k, text), text)
    BY <1>2, <1>6, <1>7, <1>8, LabelWalk
  <1>10. Left(b, text) = SkipSlash(Drop(rest, n)) /\ Caps(b, text) = Caps(k, text)
    BY <1>6, <1>8, <1>9 DEF Walks
  <1> QED BY <1>10 DEF rest, text

\* A path goes through a pattern it fits segment by segment.
LEMMA PassedStep ==
    ASSUME NEW pat, Sound(pat), NEW path, Segments(path), Fits(pat, path),
           NEW j \in 0 .. Len(pat) - 1, Passed(pat, path, j)
    PROVE  Passed(pat, path, j + 1)
  <1> DEFINE text == Rest(path, << >>, 0)
             rest == Rest(path, << >>, j)
             next == Rest(path, << >>, j + 1)
             k == Key(pat, j)
             b == Key(pat, j + 1)
             seg == pat[j + 1]
             P == Parts(pat, path)
             ends == j + 1 = Len(pat) /\ EndsInCatchAll(pat)
  <1>1. Len(pat) \in Nat /\ Len(path) \in Nat /\ Len(pat) <= Len(path)
    BY FitsIs
  <1>2. /\ j \in 0 .. Len(path) - 1 /\ j \in 0 .. Len(path) /\ 0 \in 0 .. Len(path) /\ j # Len(pat)
        /\ j + 1 \in 1 .. Len(pat) /\ << >> \in Endings /\ (j + 1) - 1 = j
    BY <1>1 DEF Endings
  <1>3. Left(k, text) = rest /\ Caps(k, text) = FlattenSeq(SubSeq(P, 1, j))
    BY <1>2 DEF Passed
  <1>4. text \in Seq(Symbols) /\ rest \in Seq(Symbols) /\ Clean(rest) /\ "/" \in Symbols
    BY <1>2, RestType DEF Symbols
  <1>5. k \in Seq(STRING) /\ b \in Seq(STRING) /\ Joined(b, k, seg)
    BY KeyStep
  <1>6. Reads(rest, path[j + 1], next)
    BY <1>2, RestReads
  <1>7. rest # << >>
    <2>1. Laid(rest, path[j + 1], next)
      BY <1>6, ReadsLaid
    <2>2. Len(rest) \in Nat /\ Len(rest) >= 1
      BY <2>1 DEF Laid
    <2> HIDE DEF rest
    <2>3. Len(<< >>) = 0
      OBVIOUS
    <2> QED BY <2>2, <2>3
  <1>8. FlattenSeq(SubSeq(P, 1, j + 1)) = Caps(k, text) \o P[j + 1]
    <2>1. P \in Seq(Seq(Pairs(Symbols))) /\ Len(P) = Len(pat)
      BY <1>1, PartsAre
    <2>2. j \in 0 .. Len(P) - 1
      BY <2>1
    <2> HIDE DEF P
    <2>3. FlattenSeq(SubSeq(P, 1, j + 1)) = FlattenSeq(SubSeq(P, 1, j)) \o P[j + 1]
      BY <2>1, <2>2, FlattenFirst
    <2> QED BY <1>3, <2>3
  <1>9. /\ AWord(seg) => P[j + 1] = << >>
        /\ AParam(seg) => P[j + 1] = << <<seg[1], path[j + 1]>> >>
        /\ ARest(seg) => P[j + 1] = << <<seg[1], rest>> >>
    BY <1>1, <1>2, PartsAre
  <1>10. AWord(seg) \/ AParam(seg) \/ ARest(seg)
    BY <1>2, SegmentKind
  <1>11. ends <=> ARest(seg)
    <2>1. ARest(seg) => j + 1 = Len(pat)
      BY <1>2, SegmentKind DEF AWord, AParam, ARest
    <2> QED BY <1>2, <2>1, FitsIs
  <1>12. Passed(pat, path, j + 1) <=>
            /\ Left(b, text) = IF ends THEN << >> ELSE next
            /\ Caps(b, text) = Caps(k, text) \o P[j + 1]
    BY <1>8 DEF Passed
  <1> HIDE DEF text, rest, next, k, b, seg, P, ends
  <1>13. CASE AWord(seg)
    <2>1. seg = path[j + 1] /\ ~ARest(seg)
      BY <1>2, <1>13, FitsIs DEF seg, AWord, ARest
    <2>2. seg \in Seq(Letters) /\ seg # << >>
      BY <1>13 DEF AWord
    <2>3. Len(seg) \in 1 .. Len(seg) /\ SubSeq(seg, 1, Len(seg)) = seg
      BY <2>2, SubSeqFull
    <2>4. Left(b, text) = SkipSlash(Drop(rest, Len(seg))) /\ Caps(b, text) = Caps(k, text)
      <3>1. /\ k \in Seq(STRING) /\ b \in Seq(STRING) /\ j \in 0 .. Len(path) - 1
            /\ AWord(path[j + 1]) /\ Len(seg) \in 1 .. Len(path[j + 1])
            /\ Joined(b, k, SubSeq(path[j + 1], 1, Len(seg)))
            /\ Left(k, Rest(path, << >>, 0)) = Rest(path, << >>, j)
        BY <1>2, <1>3, <1>5, <1>13, <2>1, <2>3 DEF text, rest
      <3>2. /\ Left(b, Rest(path, << >>, 0)) = SkipSlash(Drop(Rest(path, << >>, j), Len(seg)))
            /\ Caps(b, Rest(path, << >>, 0)) = Caps(k, Rest(path, << >>, 0))
        BY <3>1, WordWalk
      <3> QED BY <3>2 DEF text, rest
    <2>5. SkipSlash(Drop(rest, Len(seg))) = next
      BY <1>6, <2>1, ReadsWhole
    <2>6. Caps(k, text) \o << >> = Caps(k, text)
      <3>1. Caps(k, text) \in Seq(Pairs(Symbols))
        BY <1>4, <1>5, CapsType
      <3> QED BY <3>1, ConcatEmptySeq
    <2> QED BY <1>9, <1>11, <1>12, <1>13, <2>1, <2>4, <2>5, <2>6
  <1>14. CASE AParam(seg)
    <2>1. seg = << seg[1] >> /\ seg[1] \in ParamSyms /\ ~ARest(seg)
      BY <1>14 DEF AParam, ARest
    <2>2. TakesPart(k, seg[1], b, rest, Before(rest, {"/"}), text)
      <3>1. Joined(b, k, << seg[1] >>)
        BY <1>5, <2>1
      <3> QED BY <1>3, <1>4, <1>5, <1>7, <2>1, <3>1, ParamWalk
    <2>3. /\ Before(rest, {"/"}) = Len(path[j + 1]) /\ SubSeq(rest, 1, Len(path[j + 1])) = path[j + 1]
          /\ Drop(rest, Len(path[j + 1]) + 1) = next
      BY <1>6, ReadsWhole
    <2>4. Left(b, text) = next /\ Caps(b, text) = Caps(k, text) \o << <<seg[1], path[j + 1]>> >>
      BY <2>2, <2>3 DEF TakesPart
    <2> QED BY <1>9, <1>11, <1>12, <1>14, <2>1, <2>4
  <1>15. CASE ARest(seg)
    <2>1. seg = << seg[1] >> /\ seg[1] \in CatchAlls
      BY <1>15 DEF ARest
    <2>2. TakesAll(k, seg[1], b, rest, text)
      <3>1. Joined(b, k, << seg[1] >>)
        BY <1>5, <2>1
      <3> QED BY <1>3, <1>4, <1>5, <1>7, <2>1, <3>1, CatchAllWalk
    <2>3. Left(b, text) = << >> /\ Caps(b, text) = Caps(k, text) \o << <<seg[1], rest>> >>
      BY <2>2 DEF TakesAll
    <2> QED BY <1>9, <1>11, <1>12, <1>15, <2>3
  <1> QED BY <1>10, <1>13, <1>14, <1>15

\* It passes all of them.
LEMMA AllPassed ==
    ASSUME NEW pat, Sound(pat), NEW path, Segments(path), Fits(pat, path), NEW j \in 0 .. Len(pat)
    PROVE  Passed(pat, path, j)
  <1> DEFINE S == {n \in Nat : n <= Len(pat) => Passed(pat, path, n)}
  <1>1. Len(pat) \in Nat /\ Len(path) \in Nat /\ Len(pat) <= Len(path) /\ pat \in Seq(Seq(STRING))
    BY FitsIs DEF Sound
  <1>2. Passed(pat, path, 0)
    <2> DEFINE text == Rest(path, << >>, 0)
    <2>1. Key(pat, 0) = << >>
      BY <1>1, KeyIs
    <2>2. text \in Seq(Symbols) /\ "/" \in Symbols
      <3>1. 0 \in 0 .. Len(path)
        BY <1>1
      <3> QED BY <3>1, RestType DEF Symbols
    <2>3. Left(<< >>, text) = text /\ Caps(<< >>, text) = << >>
      BY <2>2, EmptyWalk
    <2>4. FlattenSeq(SubSeq(Parts(pat, path), 1, 0)) = << >>
      <3>1. SubSeq(Parts(pat, path), 1, 0) = << >>
        BY SubSeqEmpty
      <3> QED BY <3>1 DEF FlattenSeq
    <2>5. ~(0 = Len(pat) /\ EndsInCatchAll(pat))
      BY FitsIs
    <2> QED BY <2>1, <2>3, <2>4, <2>5 DEF Passed
  <1>3. 0 \in S
    BY <1>2
  <1>4. ASSUME NEW n \in Nat, n \in S PROVE n + 1 \in S
    <2> SUFFICES ASSUME n + 1 <= Len(pat) PROVE Passed(pat, path, n + 1)
      OBVIOUS
    <2>1. n \in 0 .. Len(pat) - 1 /\ n <= Len(pat)
      BY <1>1
    <2> QED BY <1>4, <2>1, PassedStep
  <1>5. j \in S
    <2>1. j \in Nat
      BY <1>1
    <2> HIDE DEF S
    <2> QED BY <1>3, <1>4, <2>1, Induction
  <1> QED BY <1>1, <1>5

\* A path that fits ends where the pattern does, with what the pattern captures.
LEMMA FitsWalks ==
    ASSUME NEW pat, Sound(pat), NEW path, Segments(path), Fits(pat, path)
    PROVE  /\ Left(FlattenSeq(pat), Rest(path, << >>, 0)) = << >>
           /\ Caps(FlattenSeq(pat), Rest(path, << >>, 0)) = Captured(pat, path)
           /\ Key(pat, Len(pat)) = FlattenSeq(pat)
  <1> DEFINE L == Len(pat)
             P == Parts(pat, path)
  <1>1. L \in Nat /\ L <= Len(path) /\ pat \in Seq(Seq(STRING)) /\ L \in 0 .. L
    <2>1. Len(pat) \in Nat /\ Len(pat) <= Len(path)
      BY FitsIs
    <2> QED BY <2>1 DEF Sound
  <1>2. Passed(pat, path, L)
    BY <1>1, AllPassed
  <1>3. Key(pat, L) = FlattenSeq(pat)
    BY <1>1, KeyIs
  <1>4. SubSeq(P, 1, L) = P /\ Captured(pat, path) = FlattenSeq(P)
    <2>1. P \in Seq(Seq(Pairs(Symbols))) /\ Len(P) = L /\ Captured(pat, path) = FlattenSeq(P)
      BY <1>1, PartsAre
    <2> HIDE DEF P, L
    <2>2. SubSeq(P, 1, Len(P)) = P
      BY <2>1, SubSeqFull
    <2> QED BY <2>1, <2>2
  <1>5. ~EndsInCatchAll(pat) => Rest(path, << >>, L) = << >>
    <2>1. ~EndsInCatchAll(pat) => Len(path) = L
      BY FitsIs
    <2> QED BY <2>1 DEF Rest
  <1> QED BY <1>2, <1>3, <1>4, <1>5 DEF Passed

\* The key of the first segments begins the key of all.
LEMMA KeyPrefix ==
    ASSUME NEW pat, Sound(pat), NEW i \in 0 .. Len(pat)
    PROVE  Prefix(Key(pat, i), Key(pat, Len(pat)))
  <1> DEFINE L == Len(pat)
             S == {n \in Nat : n <= L => Prefix(Key(pat, L - n), Key(pat, L))}
  <1>1. L \in Nat /\ \A j \in 0 .. L : Key(pat, j) \in Seq(STRING)
    <2>1. pat \in Seq(Seq(STRING)) /\ L \in Nat
      BY DEF Sound
    <2> QED BY <2>1, KeyIs
  <1>2. 0 \in S
    <2>1. L - 0 = L /\ L \in 0 .. L
      BY <1>1
    <2> QED BY <1>1, <2>1, PrefixItself
  <1>3. ASSUME NEW n \in Nat, n \in S PROVE n + 1 \in S
    <2> SUFFICES ASSUME n + 1 <= L PROVE Prefix(Key(pat, L - (n + 1)), Key(pat, L))
      OBVIOUS
    <2> DEFINE j == L - (n + 1)
    <2>1. j \in 0 .. L - 1 /\ j \in 0 .. L /\ j + 1 \in 0 .. L /\ j + 1 = L - n /\ n <= L /\ L \in 0 .. L
      BY <1>1
    <2>2. Prefix(Key(pat, j + 1), Key(pat, L))
      BY <1>3, <2>1
    <2>3. Joined(Key(pat, j + 1), Key(pat, j), pat[j + 1]) /\ pat[j + 1] \in Seq(STRING)
      <3>1. j + 1 \in 1 .. Len(pat)
        BY <2>1
      <3> QED BY <2>1, <3>1, KeyStep, SegmentKind
    <2> DEFINE a == Key(pat, j)
               b == Key(pat, j + 1)
               c == Key(pat, L)
    <2>4. a \in Seq(STRING) /\ b \in Seq(STRING) /\ c \in Seq(STRING)
      BY <1>1, <2>1
    <2>5. Len(a) \in Nat /\ Len(pat[j + 1]) \in Nat
      BY <2>3, <2>4
    <2> HIDE DEF j, a, b, c
    <2>6. Prefix(a, b)
      BY <2>3, <2>5 DEF Joined, Prefix, a, b
    <2>7. Prefix(a, c)
      BY <2>2, <2>4, <2>6, PrefixTrans DEF b, c
    <2> QED BY <2>7 DEF a, c, j
  <1>4. L - i \in Nat /\ L - i <= L /\ L - (L - i) = i
    BY <1>1
  <1> HIDE DEF L
  <1>5. L - i \in S
    <2> HIDE DEF S
    <2> QED BY <1>2, <1>3, <1>4, Induction
  <1>6. Prefix(Key(pat, i), Key(pat, L))
    BY <1>4, <1>5
  <1> QED BY <1>6 DEF L

\* An edge ends where a segment of a registered pattern does, or before.
LEMMA WithinSegment ==
    ASSUME NEW t, NEW key, Keyed(t, key), NEW pat, Sound(pat), Bounds(pat, Len(pat), t, key),
           NEW c \in 2 .. Len(t), Prefix(key[c], Key(pat, Len(pat)))
    PROVE  \E j \in 0 .. Len(pat) - 1 : /\ Len(Key(pat, j)) <= Len(key[t[c].parent])
                                        /\ Len(key[c]) <= Len(Key(pat, j + 1))
  <1> DEFINE L == Len(pat)
             kp == key[t[c].parent]
             kc == key[c]
             K(i) == Key(pat, i)
             S == {i \in 1 .. L : Len(K(i)) > Len(kp)}
  <1>1. L \in Nat /\ \A j \in 0 .. L : K(j) \in Seq(STRING) /\ Len(K(j)) \in Nat
    <2>1. pat \in Seq(Seq(STRING)) /\ L \in Nat
      BY DEF Sound
    <2>2. \A j \in 0 .. L : K(j) \in Seq(STRING)
      BY <2>1, KeyIs
    <2> QED BY <2>1, <2>2
  <1>2. Len(K(0)) = 0
    <2>1. K(0) = << >>
      <3>1. pat \in Seq(Seq(STRING))
        BY DEF Sound
      <3> QED BY <3>1, KeyIs
    <2> QED BY <2>1
  <1>3. /\ kc \in Seq(STRING) /\ kp \in Seq(STRING) /\ Len(kc) \in Nat /\ Len(kp) \in Nat
        /\ Len(kp) < Len(kc)
    <2>1. Parented(t, key, c, t[c].parent)
      BY Child
    <2> QED BY <2>1 DEF Parented
  <1>4. Len(kc) <= Len(K(L))
    BY DEF Prefix
  <1>5. \A i \in 0 .. L : Prefix(K(i), K(L))
    BY KeyPrefix
  <1>6. L \in S
    <2>1. L # 0
      BY <1>2, <1>3, <1>4
    <2>2. L \in 1 .. L /\ L \in 0 .. L
      BY <1>1, <2>1
    <2> HIDE DEF L, kc, kp, K
    <2> QED BY <1>1, <1>3, <1>4, <2>2
  <1>7. Min(S) \in S /\ \A i \in S : Min(S) <= i
    <2>1. S # {} /\ S \subseteq Nat
      BY <1>6
    <2> HIDE DEF S
    <2> QED BY <2>1, Least
  <1> DEFINE n == Min(S)
             j == n - 1
  <1> HIDE DEF n
  <1>8. n \in 1 .. L /\ Len(K(n)) > Len(kp) /\ \A i \in S : n <= i
    BY <1>7 DEF n
  <1>9. j \in 0 .. L - 1 /\ j \in 0 .. L /\ n = j + 1 /\ n \in 0 .. L /\ L \in 0 .. L
    BY <1>1, <1>8
  <1>10. Len(K(j)) <= Len(kp)
    <2>1. CASE j = 0
      BY <1>2, <1>3, <2>1
    <2>2. CASE j # 0
      <3>1. j \in 1 .. L /\ ~(n <= j)
        BY <1>9, <2>2
      <3>2. j \notin S
        BY <1>8, <3>1
      <3>3. ~(Len(K(j)) > Len(kp))
        BY <3>1, <3>2
      <3> HIDE DEF K, kp
      <3> QED BY <1>1, <1>3, <1>9, <3>3
    <2> QED BY <2>1, <2>2
  <1>11. Len(kc) <= Len(K(n))
    <2> SUFFICES ASSUME Len(K(n)) < Len(kc) PROVE FALSE
      <3> HIDE DEF K, kc
      <3> QED BY <1>1, <1>3, <1>9
    <2>1. PICK z \in 1 .. Len(t) : key[z] = K(n)
      BY <1>9 DEF Bounds
    <2> HIDE DEF S, j
    <2>2. Prefix(key[z], kc)
      <3>1. Prefix(K(n), K(L)) /\ Prefix(kc, K(L)) /\ Len(K(n)) <= Len(kc)
        <4>1. Prefix(K(n), K(L)) /\ Prefix(kc, K(L))
          BY <1>5, <1>9
        <4> HIDE DEF K, kc
        <4>2. Len(K(n)) <= Len(kc)
          BY <1>1, <1>3, <1>9
        <4> QED BY <4>1, <4>2
      <3>2. K(n) \in Seq(STRING) /\ K(L) \in Seq(STRING)
        BY <1>1, <1>9
      <3> HIDE DEF K, kc
      <3>3. Prefix(K(n), kc)
        BY <1>3, <3>1, <3>2, PrefixOfBoth
      <3> QED BY <2>1, <3>3
    <2>3. z # c
      <3>1. Len(key[z]) < Len(key[c]) /\ Len(key[c]) \in Nat
        BY <1>3, <2>1
      <3> QED BY <3>1
    <2>4. Prefix(key[z], kp)
      BY <2>2, <2>3, Nearest
    <2>5. Len(K(n)) <= Len(kp)
      BY <2>1, <2>4 DEF Prefix
    <2> HIDE DEF K, kp
    <2> QED BY <1>1, <1>3, <1>8, <1>9, <2>5
  <1> QED BY <1>9, <1>10, <1>11

\* A static edge on the way to a pattern that fits stands in the path as it is.
LEMMA OnTheWay ==
    ASSUME NEW t, NEW key, Keyed(t, key), NEW pat, Sound(pat), Bounds(pat, Len(pat), t, key),
           NEW c \in 2 .. Len(t), t[c].kind = "static", Prefix(key[c], Key(pat, Len(pat))),
           NEW path, Segments(path), Fits(pat, path)
    PROVE  Prefix(t[c].path, Left(key[t[c].parent], Rest(path, << >>, 0)))
  <1> DEFINE L == Len(pat)
             p == t[c].parent
             kp == key[p]
             kc == key[c]
             l == t[c].path
             KL == Key(pat, L)
             text == Rest(path, << >>, 0)
  <1>1. PICK j \in 0 .. L - 1 : Len(Key(pat, j)) <= Len(kp) /\ Len(kc) <= Len(Key(pat, j + 1))
    BY WithinSegment
  <1> DEFINE k == Key(pat, j)
             b == Key(pat, j + 1)
             seg == pat[j + 1]
             rest == Rest(path, << >>, j)
             o == Len(kp) - Len(k)
  <1>2. Parented(t, key, c, p)
    BY Child
  <1>3. /\ kc \in Seq(STRING) /\ kp \in Seq(STRING) /\ Len(kc) \in Nat /\ Len(kp) \in Nat
        /\ Prefix(kp, kc) /\ Joined(kc, kp, l) /\ Len(kc) = Len(kp) + Len(l)
        /\ l \in Seq(Letters) /\ Len(l) \in Nat /\ Len(l) >= 1
    <2>1. Label(t[c]) = l /\ l \in Seq(Letters)
      BY <1>2 DEF Parented, Label, Labelled
    <2> QED BY <1>2, <2>1 DEF Parented
  <1>4. /\ L \in Nat /\ L <= Len(path) /\ Len(path) \in Nat /\ j + 1 \in 1 .. L /\ j \in 0 .. Len(path) - 1
        /\ j # L /\ j \in 0 .. L /\ j + 1 \in 0 .. L /\ << >> \in Endings /\ L \in 0 .. L
    <2>1. Len(pat) \in Nat /\ Len(path) \in Nat /\ Len(pat) <= Len(path)
      BY FitsIs
    <2> QED BY <2>1 DEF Endings
  <1>5. /\ k \in Seq(STRING) /\ b \in Seq(STRING) /\ Joined(b, k, seg) /\ seg \in Seq(STRING)
        /\ KL \in Seq(STRING)
    <2>1. pat \in Seq(Seq(STRING))
      BY DEF Sound
    <2>2. KL \in Seq(STRING)
      BY <1>4, <2>1, KeyIs
    <2> QED BY <1>4, <2>2, KeyStep, SegmentKind
  <1>6. Prefix(k, KL) /\ Prefix(b, KL) /\ Prefix(kc, KL)
    BY <1>4, KeyPrefix
  <1>7. Left(k, text) = rest
    <2>1. Passed(pat, path, j)
      BY <1>4, AllPassed
    <2> QED BY <1>4, <2>1 DEF Passed
  <1>8. Laid(rest, path[j + 1], Rest(path, << >>, j + 1))
    BY <1>4, RestReads, ReadsLaid
  <1> HIDE DEF L, p, kp, kc, l, KL, text, k, b, seg, rest
  <1>9. /\ Len(k) \in Nat /\ Len(seg) \in Nat /\ Len(b) = Len(k) + Len(seg) /\ Len(KL) \in Nat
        /\ \A i \in 1 .. Len(k) : b[i] = k[i]
        /\ \A i \in 1 .. Len(seg) : b[Len(k) + i] = seg[i]
    BY <1>5 DEF Joined
  <1>10. Len(k) <= Len(kp) /\ Len(kc) <= Len(b)
    BY <1>1 DEF k, b
  <1>11. /\ o \in Nat /\ Len(kp) = Len(k) + o /\ o + Len(l) <= Len(seg) /\ o + 1 \in 1 .. Len(seg) /\ o < Len(seg)
    BY <1>3, <1>9, <1>10
  <1> HIDE DEF o
  <1>sizes. /\ Len(k) \in Nat /\ Len(kp) \in Nat /\ Len(kc) \in Nat /\ Len(l) \in Nat /\ Len(seg) \in Nat
            /\ Len(kc) = Len(kp) + Len(l) /\ Len(kp) = Len(k) + o /\ o \in Nat /\ o + Len(l) <= Len(seg)
            /\ Len(b) = Len(k) + Len(seg)
    BY <1>3, <1>9, <1>11
  <1>12. \A i \in 1 .. Len(kc) : kc[i] = b[i]
    <2> TAKE i \in 1 .. Len(kc)
    <2>1. i \in 1 .. Len(b)
      BY <1>3, <1>9, <1>10
    <2> QED BY <1>6, <2>1 DEF Prefix
  <1>13. \A i \in 1 .. Len(l) : l[i] = seg[o + i]
    <2> TAKE i \in 1 .. Len(l)
    <2>1. Len(kp) + i \in 1 .. Len(kc) /\ o + i \in 1 .. Len(seg) /\ Len(kp) + i = Len(k) + (o + i)
      BY <1>sizes
    <2>2. kc[Len(kp) + i] = l[i]
      BY <1>3 DEF Joined
    <2>3. kc[Len(kp) + i] = b[Len(k) + (o + i)]
      BY <1>12, <2>1
    <2> QED BY <1>9, <2>1, <2>2, <2>3
  <1>14. AWord(seg) /\ seg = path[j + 1]
    <2>1. l[1] \in Letters /\ l[1] = seg[o + 1]
      <3>1. 1 \in 1 .. Len(l)
        BY <1>3
      <3> QED BY <1>3, <1>13, <3>1
    <2>2. AWord(seg) \/ AParam(seg) \/ ARest(seg)
      BY <1>4, SegmentKind DEF L, seg
    <2>3. AWord(seg)
      <3> SUFFICES ASSUME AParam(seg) \/ ARest(seg) PROVE FALSE
        BY <2>2
      <3>1. seg = << seg[1] >> /\ seg[1] \notin Letters
        BY RouterAssumption DEF AParam, ARest, Letters
      <3>2. Len(seg) = 1
        <4>1. \A e : Len(<< e >>) = 1
          OBVIOUS
        <4> QED BY <3>1, <4>1
      <3>3. o + 1 = 1
        BY <1>11, <3>2
      <3> QED BY <2>1, <3>1, <3>3
    <2> QED BY <1>4, <2>3, FitsIs DEF L, seg
  <1>15. /\ rest \in Seq(Symbols) /\ Clean(rest) /\ Len(rest) \in Nat /\ Len(rest) >= Len(seg)
         /\ \A i \in 1 .. Len(seg) : rest[i] = seg[i] /\ rest[i] # "/"
    <2>1. rest \in Seq(Symbols) /\ Clean(rest)
      <3>1. j \in 0 .. Len(path)
        BY <1>4
      <3> QED BY <3>1, RestType DEF rest
    <2> QED BY <1>8, <1>14, <2>1 DEF Laid
  <1>16. CASE o = 0
    <2>1. kp = k
      <3>1. Len(kp) = Len(k)
        BY <1>9, <1>11, <1>16
      <3>2. \A i \in 1 .. Len(kp) : kp[i] = k[i]
        <4> TAKE i \in 1 .. Len(kp)
        <4>1. i \in 1 .. Len(k) /\ i \in 1 .. Len(kc)
          BY <1>3, <3>1
        <4>2. kp[i] = kc[i] /\ kc[i] = b[i] /\ b[i] = k[i]
          BY <1>3, <1>9, <1>12, <4>1 DEF Prefix
        <4> QED BY <4>2
      <3> QED BY <1>3, <1>5, <3>1, <3>2, SameSequence
    <2>2. Left(kp, text) = rest
      BY <1>7, <2>1
    <2>3. Prefix(l, rest)
      <3>1. Len(l) <= Len(rest)
        BY <1>sizes, <1>15
      <3>2. \A i \in 1 .. Len(l) : l[i] = rest[i]
        <4> TAKE i \in 1 .. Len(l)
        <4>1. o + i = i /\ i \in 1 .. Len(seg)
          BY <1>sizes, <1>16
        <4> QED BY <1>13, <1>15, <4>1
      <3> QED BY <3>1, <3>2 DEF Prefix
    <2> QED BY <2>2, <2>3 DEF l, kp, p, text
  <1>17. CASE o # 0
    <2>1. o \in 1 .. Len(seg) /\ o \in 1 .. Len(rest) /\ o < Len(rest) /\ o + 1 \in 1 .. Len(seg)
      <3>1. Len(rest) \in Nat /\ Len(rest) >= Len(seg)
        BY <1>15
      <3>2. o \in Nat /\ o < Len(seg) /\ Len(seg) \in Nat
        BY <1>sizes, <1>11
      <3> QED BY <1>17, <3>1, <3>2
    <2> DEFINE u == SubSeq(seg, 1, o)
    <2>2. Len(u) = o /\ \A i \in 1 .. o : u[i] = seg[i]
      BY <1>5, <2>1
    <2> HIDE DEF u
    <2>3. Joined(kp, k, u)
      <3>1. \A i \in 1 .. Len(k) : kp[i] = k[i]
        <4> TAKE i \in 1 .. Len(k)
        <4>1. i \in 1 .. Len(kp) /\ i \in 1 .. Len(kc)
          BY <1>sizes
        <4>2. kp[i] = kc[i] /\ kc[i] = b[i] /\ b[i] = k[i]
          BY <1>3, <1>9, <1>12, <4>1 DEF Prefix
        <4> QED BY <4>2
      <3>2. \A i \in 1 .. o : kp[Len(k) + i] = u[i]
        <4> TAKE i \in 1 .. o
        <4>1. Len(k) + i \in 1 .. Len(kp) /\ Len(k) + i \in 1 .. Len(kc) /\ i \in 1 .. Len(seg)
          BY <1>sizes
        <4>2. kp[Len(k) + i] = kc[Len(k) + i] /\ kc[Len(k) + i] = b[Len(k) + i]
          BY <1>3, <1>12, <4>1 DEF Prefix
        <4> QED BY <1>9, <2>2, <4>1, <4>2
      <3> QED BY <1>11, <2>2, <3>1, <3>2 DEF Joined
    <2>4. Left(kp, text) = SkipSlash(Drop(rest, o))
      <3>1. /\ k \in Seq(STRING) /\ kp \in Seq(STRING) /\ j \in 0 .. Len(path) - 1
            /\ o \in 1 .. Len(path[j + 1]) /\ AWord(path[j + 1]) /\ Joined(kp, k, SubSeq(path[j + 1], 1, o))
            /\ Left(k, Rest(path, << >>, 0)) = Rest(path, << >>, j)
        BY <1>3, <1>4, <1>5, <1>7, <1>14, <2>1, <2>3 DEF text, rest, u
      <3>2. Left(kp, Rest(path, << >>, 0)) = SkipSlash(Drop(Rest(path, << >>, j), o))
        BY <3>1, WordWalk
      <3> QED BY <3>2 DEF text, rest
    <2>5. SkipSlash(Drop(rest, o)) = Drop(rest, o)
      BY <1>15, <2>1, CleanDrop
    <2> DEFINE d == Drop(rest, o)
    <2>6. Len(d) = Len(rest) - o /\ \A i \in 1 .. Len(rest) - o : d[i] = rest[o + i]
      <3>1. o \in 0 .. Len(rest)
        BY <2>1
      <3> QED BY <1>15, <3>1, DropIs
    <2> HIDE DEF d
    <2>7. Prefix(l, d)
      <3>1. Len(l) <= Len(d)
        BY <1>sizes, <1>15, <2>6
      <3>2. \A i \in 1 .. Len(l) : l[i] = d[i]
        <4> TAKE i \in 1 .. Len(l)
        <4>1. o + i \in 1 .. Len(seg) /\ i \in 1 .. Len(rest) - o
          <5>1. Len(rest) \in Nat /\ Len(rest) >= Len(seg)
            BY <1>15
          <5> QED BY <1>sizes, <5>1
        <4> QED BY <1>13, <1>15, <2>6, <4>1
      <3> QED BY <3>1, <3>2 DEF Prefix
    <2> QED BY <2>4, <2>5, <2>7 DEF d, l, kp, p, text
  <1> QED BY <1>16, <1>17

\* Patterns that agree in their first segments agree in the key of these.
LEMMA SameKeys ==
    ASSUME NEW p, Sound(p), NEW q, Sound(q), NEW n \in Nat, n <= Len(p), n <= Len(q),
           \A i \in 1 .. n : p[i] = q[i]
    PROVE  Key(p, n) = Key(q, n)
  <1> DEFINE Y == Seq(STRING)
             a == SubSeq(p, 1, n)
             b == SubSeq(q, 1, n)
  <1>1. p \in Seq(Y) /\ q \in Seq(Y) /\ n \in 0 .. Len(p) /\ n \in 0 .. Len(q)
    BY DEF Sound
  <1> HIDE DEF Y
  <1>2. a \in Seq(Y) /\ Len(a) = n /\ \A i \in 1 .. n : a[i] = p[i]
    BY <1>1
  <1>3. b \in Seq(Y) /\ Len(b) = n /\ \A i \in 1 .. n : b[i] = q[i]
    BY <1>1
  <1> HIDE DEF a, b
  <1>4. a = b
    BY <1>2, <1>3, SeqEqual
  <1> QED BY <1>4 DEF Key, a, b

\* Where a segment begins in the key
LEMMA KeyHas ==
    ASSUME NEW p, Sound(p), NEW n \in 0 .. Len(p) - 1
    PROVE  /\ Len(Key(p, n)) \in Nat /\ Len(Key(p, Len(p))) \in Nat
           /\ Len(Key(p, n)) + 1 <= Len(Key(p, Len(p)))
           /\ Key(p, Len(p))[Len(Key(p, n)) + 1] = p[n + 1][1]
           /\ \A i \in 1 .. Len(Key(p, n)) : Key(p, Len(p))[i] = Key(p, n)[i]
  <1> DEFINE L == Len(p)
             k == Key(p, n)
             b == Key(p, n + 1)
             s == p[n + 1]
             KL == Key(p, L)
  <1>1. L \in Nat /\ n + 1 \in 0 .. L /\ n \in 0 .. L /\ L \in 0 .. L /\ n + 1 \in 1 .. L
    BY DEF Sound
  <1>2. k \in Seq(STRING) /\ b \in Seq(STRING) /\ Joined(b, k, s) /\ s \in Seq(STRING)
    BY <1>1, KeyStep, SegmentKind
  <1>3. KL \in Seq(STRING)
    <2>1. p \in Seq(Seq(STRING))
      BY DEF Sound
    <2> QED BY <1>1, <2>1, KeyIs
  <1>4. Prefix(b, KL) /\ Prefix(k, KL)
    BY <1>1, KeyPrefix
  <1>5. Len(s) >= 1
    <2>1. s # << >>
      BY <1>1 DEF Sound
    <2> HIDE DEF s
    <2> QED BY <1>2, <2>1
  <1> HIDE DEF L, k, b, s, KL
  <1>6. Len(k) \in Nat /\ Len(KL) \in Nat /\ Len(s) \in Nat /\ Len(b) = Len(k) + Len(s) /\ Len(b) <= Len(KL)
    BY <1>2, <1>3, <1>4 DEF Joined, Prefix
  <1>7. Len(k) + 1 \in 1 .. Len(b) /\ Len(k) + 1 <= Len(KL) /\ 1 \in 1 .. Len(s)
    BY <1>5, <1>6
  <1>8. KL[Len(k) + 1] = s[1]
    <2>1. b[Len(k) + 1] = s[1]
      BY <1>2, <1>7 DEF Joined
    <2> QED BY <1>4, <1>7, <2>1 DEF Prefix
  <1>9. \A i \in 1 .. Len(k) : KL[i] = k[i]
    BY <1>4 DEF Prefix
  <1> QED BY <1>6, <1>7, <1>8, <1>9 DEF L, k, s, KL

\* Of patterns that fit a path, the one whose key goes on with the earlier kind
\* is the more specific.
LEMMA BetterSegments ==
    ASSUME NEW p, Sound(p), NEW q, Sound(q), NEW path, Segments(path), Fits(p, path), Fits(q, path),
           Better(FlattenSeq(p), FlattenSeq(q))
    PROVE  MoreSpecific(p, q)
  <1> DEFINE P == Len(p)
             Q == Len(q)
             a == Key(p, P)
             b == Key(q, Q)
             D == {i \in 1 .. P : i <= Q /\ p[i] # q[i]}
  <1>1. P \in Nat /\ Q \in Nat /\ DOMAIN p = 1 .. P /\ DOMAIN q = 1 .. Q
    <2>1. p \in Seq(Seq(STRING)) /\ q \in Seq(Seq(STRING))
      BY DEF Sound
    <2> QED BY <2>1
  <1>2. a = FlattenSeq(p) /\ b = FlattenSeq(q) /\ a \in Seq(STRING) /\ b \in Seq(STRING)
    <2>1. p \in Seq(Seq(STRING)) /\ q \in Seq(Seq(STRING))
      BY DEF Sound
    <2>2. P \in 0 .. P /\ Q \in 0 .. Q
      BY <1>1
    <2> QED BY <2>1, <2>2, KeyIs
  <1>3. PICK i0 \in 1 .. Len(a) :
            /\ i0 <= Len(b) /\ \A j \in 1 .. i0 - 1 : a[j] = b[j]
            /\ \/ a[i0] \in Letters /\ b[i0] \notin Letters
               \/ a[i0] \in ParamSyms /\ b[i0] \in CatchAlls
    BY <1>2 DEF Better
  <1>4. ParamSyms \cap CatchAlls = {} /\ Letters \cap ParamSyms = {} /\ Letters \cap CatchAlls = {}
    BY RouterAssumption DEF Letters
  <1>5. a[i0] # b[i0]
    BY <1>3, <1>4
  <1>6. i0 \in Nat /\ i0 \in 1 .. Len(b)
    BY <1>2, <1>3
  <1>7. D # {}
    <2> SUFFICES ASSUME \A i \in 1 .. P : i <= Q => p[i] = q[i] PROVE FALSE
      OBVIOUS
    <2>1. CASE P <= Q
      <3>1. \A i \in 1 .. P : p[i] = q[i]
        BY <1>1, <2>1
      <3>2. a = Key(q, P)
        BY <1>1, <2>1, <3>1, SameKeys
      <3>3. Prefix(a, b)
        <4>1. P \in 0 .. Len(q)
          BY <1>1, <2>1
        <4> QED BY <3>2, <4>1, KeyPrefix
      <3> QED BY <1>3, <1>5, <3>3 DEF Prefix
    <2>2. CASE Q <= P
      <3>1. \A i \in 1 .. Q : p[i] = q[i]
        BY <1>1, <2>2
      <3>2. b = Key(p, Q)
        BY <1>1, <2>2, <3>1, SameKeys
      <3>3. Prefix(b, a)
        <4>1. Q \in 0 .. Len(p)
          BY <1>1, <2>2
        <4> QED BY <3>2, <4>1, KeyPrefix
      <3> QED BY <1>5, <1>6, <3>3 DEF Prefix
    <2> QED BY <1>1, <2>1, <2>2
  <1>8. Min(D) \in D /\ \A i \in D : Min(D) <= i
    <2>1. D \subseteq Nat
      BY <1>1
    <2> HIDE DEF D
    <2> QED BY <1>7, <2>1, Least
  <1> DEFINE i == Min(D)
             n == i - 1
  <1> HIDE DEF i
  <1>9. i \in 1 .. P /\ i \in 1 .. Q /\ i <= Q /\ p[i] # q[i] /\ \A j \in D : i <= j
    BY <1>1, <1>8 DEF i
  <1>10. /\ n \in Nat /\ n <= P /\ n <= Q /\ n \in 0 .. P - 1 /\ n \in 0 .. Q - 1 /\ n + 1 = i
    BY <1>1, <1>9
  <1>11. \A j \in 1 .. n : p[j] = q[j]
    <2> TAKE j \in 1 .. n
    <2>1. j \in 1 .. P /\ j <= Q /\ ~(i <= j)
      BY <1>1, <1>9
    <2>2. j \notin D
      BY <1>9, <2>1
    <2> QED BY <2>1, <2>2
  <1> HIDE DEF D, n
  <1>12. Key(p, n) = Key(q, n)
    BY <1>10, <1>11, SameKeys
  <1> DEFINE k == Key(p, n)
             e == Len(k) + 1
  <1>13. /\ Len(k) \in Nat /\ e <= Len(a) /\ a[e] = p[i][1] /\ \A j \in 1 .. Len(k) : a[j] = k[j]
         /\ Len(a) \in Nat
    BY <1>10, KeyHas
  <1>14. e <= Len(b) /\ b[e] = q[i][1] /\ \A j \in 1 .. Len(k) : b[j] = k[j]
    BY <1>10, <1>12, KeyHas
  <1> HIDE DEF a, b, k
  <1>15. AWord(p[i]) \/ AParam(p[i]) \/ ARest(p[i])
    BY <1>9, SegmentKind
  <1>16. AWord(q[i]) \/ AParam(q[i]) \/ ARest(q[i])
    BY <1>9, SegmentKind
  <1>17. /\ AWord(p[i]) => p[i][1] \in Letters
         /\ AWord(q[i]) => q[i][1] \in Letters
    <2>1. ASSUME NEW s, AWord(s) PROVE s[1] \in Letters
      BY <2>1 DEF AWord
    <2> QED BY <2>1
  <1>18. p[i][1] # q[i][1]
    <2> SUFFICES ASSUME p[i][1] = q[i][1] PROVE FALSE
      OBVIOUS
    <2>1. CASE AWord(p[i])
      <3>1. AWord(q[i])
        BY <1>4, <1>16, <1>17, <2>1 DEF AParam, ARest
      <3>2. p[i] = path[i] /\ q[i] = path[i]
        BY <1>9, <2>1, <3>1, FitsIs
      <3> QED BY <1>9, <3>2
    <2>2. CASE AParam(p[i]) \/ ARest(p[i])
      <3>1. AParam(q[i]) \/ ARest(q[i])
        BY <1>4, <1>16, <1>17, <2>2 DEF AParam, ARest
      <3>2. p[i] = << p[i][1] >> /\ q[i] = << q[i][1] >>
        BY <2>2, <3>1 DEF AParam, ARest
      <3> QED BY <1>9, <3>2
    <2> QED BY <1>15, <2>1, <2>2
  <1>19. i0 = e
    <2>1. ~(e < i0)
      <3> SUFFICES ASSUME e < i0 PROVE FALSE
        OBVIOUS
      <3>1. e \in 1 .. i0 - 1
        BY <1>6, <1>13
      <3> QED BY <1>3, <1>13, <1>14, <1>18, <3>1
    <2>2. ~(i0 < e)
      <3> SUFFICES ASSUME i0 < e PROVE FALSE
        OBVIOUS
      <3>1. i0 \in 1 .. Len(k)
        BY <1>6, <1>13
      <3> QED BY <1>5, <1>13, <1>14, <3>1
    <2> QED BY <1>6, <1>13, <2>1, <2>2
  <1>20. \/ p[i][1] \in Letters /\ q[i][1] \notin Letters
         \/ p[i][1] \in ParamSyms /\ q[i][1] \in CatchAlls
    BY <1>3, <1>13, <1>14, <1>19
  <1>21. Rank(p[i]) < Rank(q[i])
    <2>1. CASE p[i][1] \in Letters /\ q[i][1] \notin Letters
      <3>1. AWord(p[i]) /\ (AParam(q[i]) \/ ARest(q[i]))
        BY <1>4, <1>15, <1>16, <1>17, <2>1 DEF AParam, ARest
      <3>2. Rank(p[i]) = 1 /\ (Rank(q[i]) = 2 \/ Rank(q[i]) = 3)
        BY <3>1 DEF AWord, AParam, ARest
      <3> QED BY <3>2
    <2>2. CASE p[i][1] \in ParamSyms /\ q[i][1] \in CatchAlls
      <3>1. AParam(p[i]) /\ ARest(q[i])
        BY <1>4, <1>15, <1>16, <1>17, <2>2 DEF AParam, ARest
      <3>2. Rank(p[i]) = 2 /\ Rank(q[i]) = 3
        BY <3>1 DEF AParam, ARest
      <3> QED BY <3>2
    <2> QED BY <1>20, <2>1, <2>2
  <1>22. \A j \in 1 .. i - 1 : Rank(p[j]) = Rank(q[j])
    BY <1>11 DEF n
  <1>23. i \in DOMAIN p \cap DOMAIN q
    BY <1>1, <1>9
  <1> QED BY <1>21, <1>22, <1>23 DEF MoreSpecific

-----------------------------------------------------------------------------
(* Lookup finds the best                                                   *)

\* What a lookup should return
BestOf(m, path, found) ==
    IF Fitting(m, path) = {} THEN found = None
    ELSE \E i \in Fitting(m, path) :
            /\ \A j \in Fitting(m, path) \ {i} : MoreSpecific(routes[i].segments, routes[j].segments)
            /\ found = Found(routes[i].chain, Captured(routes[i].segments, path))

\* A route that fits has a node at which the search ends, and a node at which
\* it ends has a route that fits.
Stations(t, key, m, path) ==
    /\ \A i \in Fitting(m, path) :
          \E x : /\ EndsAt(t, key, m, Tail(Text(path)), x) /\ key[x] = FlattenSeq(routes[i].segments)
    /\ \A x : EndsAt(t, key, m, Tail(Text(path)), x) =>
          \E i \in Fitting(m, path) :
             /\ key[x] = FlattenSeq(routes[i].segments) /\ t[x].chain[m] = routes[i].chain
             /\ Caps(key[x], Tail(Text(path))) = Captured(routes[i].segments, path)
             /\ Len(Captured(routes[i].segments, path)) <= MaxParams

\* What the trie that holds the routes says of them.
LEMMA RoutesAre ==
    ASSUME NEW t, NEW key, Holds(t, routes, key)
    PROVE  /\ DOMAIN routes = 1 .. Len(routes) /\ Keyed(t, key)
           /\ \A i \in 1 .. Len(routes) :
                 Sound(routes[i].segments) /\ routes[i].chain # << >> /\ Placed(t, key, routes[i])
           /\ \A m, path : \A i : i \in Fitting(m, path) <=>
                 i \in 1 .. Len(routes) /\ routes[i].method = m /\ Fits(routes[i].segments, path)
  <1>1. routes \in Seq(RouteRecords)
    BY DEF Holds
  <1>2. DOMAIN routes = 1 .. Len(routes)
    BY <1>1
  <1>3. Keyed(t, key) /\ \A i \in 1 .. Len(routes) :
            Sound(routes[i].segments) /\ routes[i].chain # << >> /\ Placed(t, key, routes[i])
    BY DEF Holds, Valid
  <1> QED BY <1>2, <1>3 DEF Fitting

\* That is so of the trie that holds the routes.
LEMMA StationsAre ==
    ASSUME NEW t, NEW key, Holds(t, routes, key), NEW m \in ToSet(Methods), NEW path \in Paths, Plain(m, path)
    PROVE  Stations(t, key, m, path)
  <1> DEFINE tail == Tail(Text(path))
  <1>1. /\ DOMAIN routes = 1 .. Len(routes)
        /\ \A i \in 1 .. Len(routes) :
              Sound(routes[i].segments) /\ routes[i].chain # << >> /\ Placed(t, key, routes[i])
        /\ \A i : i \in Fitting(m, path) <=>
              i \in 1 .. Len(routes) /\ routes[i].method = m /\ Fits(routes[i].segments, path)
    BY RoutesAre
  <1>2. Segments(path) /\ tail = Rest(path, << >>, 0)
    BY PathIs
  <1>3. ASSUME NEW i \in Fitting(m, path)
        PROVE  /\ Left(FlattenSeq(routes[i].segments), tail) = << >>
               /\ Caps(FlattenSeq(routes[i].segments), tail) = Captured(routes[i].segments, path)
    BY <1>1, <1>2, FitsWalks
  <1>4. \A x : EndsAt(t, key, m, tail, x) <=>
            x \in 1 .. Len(t) /\ t[x].chain[m] # << >> /\ Left(key[x], tail) = << >>
    BY DEF EndsAt
  <1> HIDE DEF tail
  <1>5. ASSUME NEW i \in Fitting(m, path)
        PROVE  \E x : EndsAt(t, key, m, tail, x) /\ key[x] = FlattenSeq(routes[i].segments)
    <2>1. Placed(t, key, routes[i]) /\ routes[i].method = m /\ routes[i].chain # << >>
      BY <1>1
    <2>2. PICK x \in 1 .. Len(t) : key[x] = FlattenSeq(routes[i].segments) /\ t[x].chain[m] = routes[i].chain
      BY <2>1 DEF Placed
    <2> QED BY <1>3, <1>4, <2>1, <2>2
  <1>6. ASSUME NEW x, EndsAt(t, key, m, tail, x)
        PROVE  \E i \in Fitting(m, path) :
                  /\ key[x] = FlattenSeq(routes[i].segments) /\ t[x].chain[m] = routes[i].chain
                  /\ Caps(key[x], tail) = Captured(routes[i].segments, path)
                  /\ Len(Captured(routes[i].segments, path)) <= MaxParams
    <2>1. x \in 1 .. Len(t) /\ t[x].chain[m] # << >> /\ Left(key[x], tail) = << >>
      BY <1>4, <1>6
    <2>2. PICK i \in 1 .. Len(routes) :
             routes[i].method = m /\ FlattenSeq(routes[i].segments) = key[x] /\ routes[i].chain = t[x].chain[m]
      BY <2>1 DEF Holds, Known, Ours
    <2>3. Fits(routes[i].segments, path) /\ Len(Captured(routes[i].segments, path)) <= MaxParams
      BY <1>1, <2>1, <2>2 DEF Plain, tail
    <2>4. i \in Fitting(m, path)
      BY <1>1, <2>2, <2>3
    <2> QED BY <1>3, <2>2, <2>3, <2>4
  <1> QED BY <1>5, <1>6 DEF Stations, tail

\* There a search has room for its parameters, and its edges stand in the path.
LEMMA StraightHolds ==
    ASSUME NEW t, NEW key, Holds(t, routes, key), NEW m \in ToSet(Methods), NEW path \in Paths, Plain(m, path)
    PROVE  Straight(t, key, m, Tail(Text(path)))
  <1> DEFINE tail == Tail(Text(path))
  <1>1. Stations(t, key, m, path)
    BY StationsAre
  <1>2. Segments(path) /\ tail = Rest(path, << >>, 0)
    BY PathIs
  <1>3. ASSUME NEW x, EndsAt(t, key, m, tail, x)
        PROVE  /\ Len(Caps(key[x], tail)) <= MaxParams
               /\ \A c \in 2 .. Len(t) : t[c].kind = "static" /\ Prefix(key[c], key[x]) =>
                     Prefix(t[c].path, Left(key[t[c].parent], tail))
    <2>1. PICK i \in Fitting(m, path) :
             /\ key[x] = FlattenSeq(routes[i].segments)
             /\ Caps(key[x], tail) = Captured(routes[i].segments, path)
             /\ Len(Captured(routes[i].segments, path)) <= MaxParams
      BY <1>1, <1>3 DEF Stations
    <2> DEFINE pat == routes[i].segments
    <2>2. Keyed(t, key) /\ Sound(pat) /\ Placed(t, key, routes[i]) /\ Fits(pat, path)
      BY RoutesAre
    <2>3. Bounds(pat, Len(pat), t, key)
      BY <2>2 DEF Placed
    <2>4. key[x] = Key(pat, Len(pat))
      BY <1>2, <2>1, <2>2, FitsWalks
    <2> HIDE DEF pat, tail
    <2>5. ASSUME NEW c \in 2 .. Len(t), t[c].kind = "static", Prefix(key[c], key[x])
          PROVE  Prefix(t[c].path, Left(key[t[c].parent], tail))
      <3>1. Prefix(t[c].path, Left(key[t[c].parent], Rest(path, << >>, 0)))
        BY <1>2, <2>2, <2>3, <2>4, <2>5, OnTheWay
      <3> QED BY <1>2, <3>1
    <2> QED BY <2>1, <2>5 DEF pat
  <1> QED BY <1>3 DEF Straight

\* All that the search needs to know holds of it.
LEMMA SoughtHolds ==
    ASSUME NEW t, NEW key, Holds(t, routes, key), NEW m \in ToSet(Methods), NEW path \in Paths, Plain(m, path)
    PROVE  Sought(t, key, m, Tail(Text(path)), ToSet(Text(path)))
  <1> DEFINE text == Text(path)
             X == ToSet(text)
  <1>1. text \in Seq(Symbols) /\ Len(text) \in Nat /\ Len(text) >= 1 /\ Head(text) = "/"
    BY PathIs
  <1>2. Keyed(t, key)
    BY DEF Holds
  <1>3. Straight(t, key, m, Tail(text))
    BY StraightHolds
  <1> HIDE DEF text
  <1>4. DOMAIN text = 1 .. Len(text) /\ Head(text) = text[1] /\ \A i \in 1 .. Len(text) : text[i] \in Symbols
    BY <1>1
  <1>5. X \subseteq Symbols /\ "/" \in X /\ \A i \in 1 .. Len(text) : text[i] \in X
    <2>1. 1 \in 1 .. Len(text)
      BY <1>1
    <2> QED BY <1>1, <1>4, <2>1 DEF ToSet
  <1>6. Tail(text) \in Seq(X)
    <2>1. text \in Seq(X) /\ text # << >>
      <3>1. Len(<< >>) = 0 /\ Len(text) # 0
        BY <1>1
      <3> HIDE DEF X
      <3>2. text = [i \in 1 .. Len(text) |-> text[i]]
        BY <1>1
      <3>3. text \in [1 .. Len(text) -> X]
        BY <1>5, <3>2
      <3>4. text \in Seq(X)
        BY <1>1, <3>3
      <3> QED BY <3>1, <3>4
    <2> HIDE DEF X
    <2> QED BY <2>1
  <1> QED BY <1>2, <1>3, <1>5, <1>6 DEF Sought, text

\* Whatever trie holds the routes, lookup finds the best of them.
LEMMA BestFound ==
    ASSUME NEW t, NEW key, Holds(t, routes, key), NEW m \in ToSet(Methods), NEW path \in Paths, Plain(m, path)
    PROVE  BestOf(m, path, Lookup(t, m, Text(path)))
  <1> DEFINE tail == Tail(Text(path))
             found == Lookup(t, m, Text(path))
             E(x) == EndsAt(t, key, m, tail, x)
  <1>1. Finds(t, key, m, tail, found)
    <2>1. /\ Text(path) \in Seq(Symbols) /\ Len(Text(path)) >= 1 /\ Head(Text(path)) = "/"
          /\ Clean(Tail(Text(path)))
      BY PathIs
    <2>2. Sought(t, key, m, Tail(Text(path)), ToSet(Text(path)))
      BY SoughtHolds
    <2> QED BY <2>1, <2>2, LookupFinds
  <1>2. Stations(t, key, m, path)
    BY StationsAre
  <1>3. Segments(path)
    BY PathIs
  <1> HIDE DEF tail, found
  <1>4. CASE found = None /\ \A x : ~E(x)
    <2>1. Fitting(m, path) = {}
      BY <1>2, <1>4 DEF Stations, tail
    <2> QED BY <1>4, <2>1 DEF BestOf, found
  <1>5. ASSUME NEW y, E(y), found = Found(t[y].chain[m], Caps(key[y], tail)),
               \A x : E(x) /\ x # y => Better(key[y], key[x])
        PROVE  BestOf(m, path, found)
    <2>1. PICK i \in Fitting(m, path) :
             /\ key[y] = FlattenSeq(routes[i].segments) /\ t[y].chain[m] = routes[i].chain
             /\ Caps(key[y], tail) = Captured(routes[i].segments, path)
      BY <1>2, <1>5 DEF Stations, tail
    <2>2. ASSUME NEW j \in Fitting(m, path), j # i
          PROVE  MoreSpecific(routes[i].segments, routes[j].segments)
      <3>1. PICK x : E(x) /\ key[x] = FlattenSeq(routes[j].segments)
        BY <1>2 DEF Stations, tail
      <3>2. /\ i \in 1 .. Len(routes) /\ j \in 1 .. Len(routes)
            /\ routes[i].method = m /\ routes[j].method = m
            /\ Fits(routes[i].segments, path) /\ Fits(routes[j].segments, path)
            /\ Sound(routes[i].segments) /\ Sound(routes[j].segments)
        BY <2>2, RoutesAre
      <3>3. x # y
        <4> SUFFICES ASSUME x = y PROVE FALSE
          OBVIOUS
        <4>1. FlattenSeq(routes[i].segments) = FlattenSeq(routes[j].segments)
          BY <2>1, <3>1
        <4>2. Alone(routes)
          BY DEF Holds
        <4> QED BY <2>2, <3>2, <4>1, <4>2 DEF Alone
      <3>4. Better(FlattenSeq(routes[i].segments), FlattenSeq(routes[j].segments))
        BY <1>5, <2>1, <3>1, <3>3
      <3> QED BY <1>3, <3>2, <3>4, BetterSegments
    <2>3. found = Found(routes[i].chain, Captured(routes[i].segments, path))
      BY <1>5, <2>1
    <2>4. Fitting(m, path) # {}
      OBVIOUS
    <2> QED BY <2>2, <2>3, <2>4 DEF BestOf
  <1> QED BY <1>1, <1>4, <1>5 DEF Finds, found

\* router::lookup finds exactly the most specific of the routes that fit a plain
\* path, with its own chain and the values of its parameters, and nothing when no
\* route fits, in whatever order routes were registered and edges split.
THEOREM BestRoute == Spec => []LookupIsBest
  <1>1. LInv => LookupIsBest
    <2> SUFFICES ASSUME LInv, NEW m \in ToSet(Methods), NEW path \in Paths, Plain(m, path)
                 PROVE  BestOf(m, path, Lookup(root, m, Text(path)))
      BY DEF LookupIsBest, BestOf
    <2>1. PICK key : Holds(root, routes, key)
      BY DEF LInv
    <2> QED BY <2>1, BestFound
  <1> QED BY <1>1, RoutesKept, PTL

\* Of two patterns at most one is the more specific.
LEMMA OneMoreSpecific ==
    ASSUME NEW p, NEW q, MoreSpecific(p, q), MoreSpecific(q, p), Sound(p), Sound(q) PROVE FALSE
  <1>1. DOMAIN p \cap DOMAIN q \subseteq Nat
    <2>1. p \in Seq(Seq(STRING))
      BY DEF Sound
    <2> QED BY <2>1
  <1>2. PICK i \in DOMAIN p \cap DOMAIN q :
           Rank(p[i]) < Rank(q[i]) /\ \A j \in 1 .. i - 1 : Rank(p[j]) = Rank(q[j])
    BY DEF MoreSpecific
  <1>3. PICK k \in DOMAIN p \cap DOMAIN q :
           Rank(q[k]) < Rank(p[k]) /\ \A j \in 1 .. k - 1 : Rank(q[j]) = Rank(p[j])
    BY DEF MoreSpecific
  <1>4. \A s : Rank(s) \in 1 .. 3
    BY DEF Rank
  <1>5. i \in 1 .. Len(p) /\ k \in 1 .. Len(p)
    <2>1. p \in Seq(Seq(STRING))
      BY DEF Sound
    <2> QED BY <2>1, <1>2, <1>3
  <1>6. CASE i < k
    <2>1. i \in 1 .. k - 1
      BY <1>5, <1>6
    <2> QED BY <1>2, <1>3, <1>4, <2>1
  <1>7. CASE k < i
    <2>1. k \in 1 .. i - 1
      BY <1>5, <1>7
    <2> QED BY <1>2, <1>3, <1>4, <2>1
  <1>8. CASE i = k
    BY <1>2, <1>3, <1>4, <1>8
  <1> QED BY <1>5, <1>6, <1>7, <1>8

\* There is one best.
LEMMA OneBest ==
    ASSUME NEW t, NEW key, Holds(t, routes, key), NEW m, NEW path,
           NEW found, BestOf(m, path, found), NEW other, BestOf(m, path, other)
    PROVE  found = other
  <1>1. CASE Fitting(m, path) = {}
    BY <1>1 DEF BestOf
  <1>2. CASE Fitting(m, path) # {}
    <2>1. PICK i \in Fitting(m, path) :
             /\ \A j \in Fitting(m, path) \ {i} : MoreSpecific(routes[i].segments, routes[j].segments)
             /\ found = Found(routes[i].chain, Captured(routes[i].segments, path))
      BY <1>2 DEF BestOf
    <2>2. PICK k \in Fitting(m, path) :
             /\ \A j \in Fitting(m, path) \ {k} : MoreSpecific(routes[k].segments, routes[j].segments)
             /\ other = Found(routes[k].chain, Captured(routes[k].segments, path))
      BY <1>2 DEF BestOf
    <2>3. i = k
      <3> SUFFICES ASSUME i # k PROVE FALSE
        OBVIOUS
      <3>1. MoreSpecific(routes[i].segments, routes[k].segments) /\ MoreSpecific(routes[k].segments, routes[i].segments)
        BY <2>1, <2>2
      <3>2. Sound(routes[i].segments) /\ Sound(routes[k].segments)
        BY RoutesAre
      <3> QED BY <3>1, <3>2, OneMoreSpecific
    <2> QED BY <2>1, <2>2, <2>3
  <1> QED BY <1>1, <1>2

\* A get() that throws leaves every lookup of a plain path as it was, though
\* insert() may have added nodes and split edges before it threw.
THEOREM RefusalLeavesLookups == Spec => RefusalChangesNothing
  <1> DEFINE A == calls' # calls /\ ~returned' /\ routes' = routes =>
                      \A m \in ToSet(Methods), path \in Paths : Plain(m, path) =>
                          Lookup(root', m, Text(path)) = Lookup(root, m, Text(path))
  <1>1. ASSUME LInv, [Next]_vars PROVE A
    <2> SUFFICES ASSUME routes' = routes, NEW m \in ToSet(Methods), NEW path \in Paths, Plain(m, path)
                 PROVE  Lookup(root', m, Text(path)) = Lookup(root, m, Text(path))
      OBVIOUS
    <2>1. PICK key : Holds(root, routes, key)
      BY <1>1 DEF LInv
    <2>2. PICK key2 : Holds(root', routes, key2)
      <3>1. LInv'
        BY <1>1, LNext
      <3> QED BY <3>1 DEF LInv
    <2>3. BestOf(m, path, Lookup(root, m, Text(path)))
      BY <2>1, BestFound
    <2>4. BestOf(m, path, Lookup(root', m, Text(path)))
      BY <2>2, BestFound
    <2> QED BY <2>1, <2>3, <2>4, OneBest
  <1> QED BY <1>1, RoutesKept, PTL DEF Spec, RefusalChangesNothing
=============================================================================
