---------------------------- MODULE UringLoopProofs ----------------------------
(***************************************************************************)
(* Theorems about UringLoop, for every number of clients and slots, every  *)
(* stream, every size of the buffers and of the submission queue, with and *)
(* without SQPOLL, and for peers that do nothing more after their idle     *)
(* timeout (QuietPeers, which every theorem assumes): each connection has  *)
(* exactly one operation outstanding, no completion is taken for another   *)
(* connection's, no slot is lost, nor, without SQPOLL, the accept or the   *)
(* timer, and each connection follows its protocol unless the thread       *)
(* cannot acquire an entry.                                                *)
(***************************************************************************)
EXTENDS UringLoop, ServerLoopProofs

\* A connection that is idle belongs to a client that is gone: without this the
\* sweep leaves a receive behind that can complete, see the README.
QuietPeers == IdleTimeouts => IdlePeersGone

-----------------------------------------------------------------------------
(* Sequences of operations                                                 *)

\* What an operation is: its kind, the slot its user data names, its socket.
Tag(o) == <<o.op, o.id, o.sock>>

\* How many of a sequence of operations are t
Copies(s, t) == Cardinality({i \in DOMAIN s : Tag(s[i]) = t})

\* A number of copies is a number, zero where there are none.
LEMMA CopiesType ==
    ASSUME NEW S, NEW s \in Seq(S), NEW t
    PROVE  /\ Copies(s, t) \in Nat
           /\ Copies(s, t) = 0 <=> \A e \in ToSet(s) : Tag(e) # t
  <1> DEFINE C == {i \in DOMAIN s : Tag(s[i]) = t}
  <1>1. IsFiniteSet(C)
    <2>1. Len(s) \in Nat /\ DOMAIN s = 1 .. Len(s)
      OBVIOUS
    <2>2. IsFiniteSet(1 .. Len(s)) /\ C \in SUBSET (1 .. Len(s))
      BY <2>1, FS_Interval
    <2> HIDE DEF C
    <2> QED BY <2>2, FS_Subset
  <1>2. Copies(s, t) = Cardinality(C)
    BY DEF Copies
  <1>3. C = {} <=> \A e \in ToSet(s) : Tag(e) # t
    BY DEF ToSet
  <1> HIDE DEF C
  <1> QED BY <1>1, <1>2, <1>3, FS_CardinalityType, FS_EmptySet

\* Two sequences, one behind the other, have the elements of both.
LEMMA ElementsJoin ==
    ASSUME NEW S, NEW s \in Seq(S), NEW u \in Seq(S)
    PROVE  s \o u \in Seq(S) /\ ToSet(s \o u) = ToSet(s) \cup ToSet(u)
  <1> DEFINE m == Len(s)
             n == Len(u)
             both == s \o u
  <1>1. m \in Nat /\ n \in Nat /\ DOMAIN s = 1 .. m /\ DOMAIN u = 1 .. n
    OBVIOUS
  <1>2. /\ both \in Seq(S) /\ DOMAIN both = 1 .. m + n
        /\ \A i \in 1 .. m : both[i] = s[i]
        /\ \A i \in 1 .. n : both[m + i] = u[i]
    BY Joined
  <1> HIDE DEF m, n, both
  <1>4. /\ \A i \in 1 .. m + n : i \in 1 .. m \/ (i - m \in 1 .. n /\ i = m + (i - m))
        /\ \A i \in 1 .. m : i \in 1 .. m + n
        /\ \A i \in 1 .. n : m + i \in 1 .. m + n
    BY <1>1
  <1>5. ToSet(both) = ToSet(s) \cup ToSet(u)
    <2>1. ASSUME NEW i \in 1 .. m + n PROVE both[i] \in ToSet(s) \cup ToSet(u)
      <3>1. CASE i \in 1 .. m
        BY <1>1, <1>2, <3>1 DEF ToSet
      <3>2. CASE i - m \in 1 .. n /\ i = m + (i - m)
        <4>1. both[i] = u[i - m]
          BY <1>2, <3>2
        <4> QED BY <1>1, <3>2, <4>1 DEF ToSet
      <3> QED BY <1>4, <3>1, <3>2
    <2>2. \A i \in 1 .. m : s[i] \in ToSet(both)
      BY <1>2, <1>4 DEF ToSet
    <2>3. \A i \in 1 .. n : u[i] \in ToSet(both)
      BY <1>2, <1>4 DEF ToSet
    <2>4. ToSet(both) \subseteq ToSet(s) \cup ToSet(u)
      BY <1>2, <2>1 DEF ToSet
    <2>5. ToSet(s) \subseteq ToSet(both) /\ ToSet(u) \subseteq ToSet(both)
      BY <1>1, <2>2, <2>3 DEF ToSet
    <2> QED BY <2>4, <2>5
  <1> QED BY <1>2, <1>5 DEF both

\* ... and their copies add up.
LEMMA CopiesJoin ==
    ASSUME NEW S, NEW s \in Seq(S), NEW u \in Seq(S), NEW t
    PROVE  Copies(s \o u, t) = Copies(s, t) + Copies(u, t)
  <1> DEFINE m == Len(s)
             n == Len(u)
             both == s \o u
             A == {i \in 1 .. m : Tag(s[i]) = t}
             B == {i \in 1 .. n : Tag(u[i]) = t}
             C == {i \in 1 .. m + n : Tag(both[i]) = t}
             D == {m + i : i \in B}
  <1>1. m \in Nat /\ n \in Nat /\ DOMAIN s = 1 .. m /\ DOMAIN u = 1 .. n
    OBVIOUS
  <1>2. /\ both \in Seq(S) /\ DOMAIN both = 1 .. m + n
        /\ \A i \in 1 .. m : both[i] = s[i]
        /\ \A i \in 1 .. n : both[m + i] = u[i]
    BY Joined
  <1>3. Copies(s, t) = Cardinality(A) /\ Copies(u, t) = Cardinality(B) /\ Copies(both, t) = Cardinality(C)
    BY <1>1, <1>2 DEF Copies
  <1> HIDE DEF m, n, both
  <1>4. /\ \A i \in 1 .. m + n : i \in 1 .. m \/ (i - m \in 1 .. n /\ i = m + (i - m))
        /\ \A i \in 1 .. m : i \in 1 .. m + n
        /\ \A i \in 1 .. n : m + i \in 1 .. m + n /\ m + i \notin 1 .. m
        /\ \A i, j \in 1 .. n : m + i = m + j => i = j
    BY <1>1
  <1>6. C = A \cup D /\ A \cap D = {}
    <2>1. ASSUME NEW i \in C PROVE i \in A \cup D
      <3>1. CASE i \in 1 .. m
        BY <1>2, <2>1, <3>1
      <3>2. CASE i - m \in 1 .. n /\ i = m + (i - m)
        <4>1. both[i] = u[i - m]
          BY <1>2, <3>2
        <4>2. i - m \in B
          BY <2>1, <3>2, <4>1
        <4> QED BY <3>2, <4>2
      <3> QED BY <1>4, <3>1, <3>2
    <2>2. \A i \in A : i \in C
      BY <1>2, <1>4
    <2>3. \A i \in B : m + i \in C /\ m + i \notin A
      BY <1>2, <1>4
    <2> QED BY <2>1, <2>2, <2>3
  <1>7. IsFiniteSet(A) /\ IsFiniteSet(B)
    <2>1. IsFiniteSet(1 .. m) /\ IsFiniteSet(1 .. n) /\ A \in SUBSET (1 .. m) /\ B \in SUBSET (1 .. n)
      BY <1>1, FS_Interval
    <2> HIDE DEF A, B
    <2> QED BY <2>1, FS_Subset
  <1>8. IsFiniteSet(D) /\ Cardinality(D) = Cardinality(B)
    <2> DEFINE shift == [i \in B |-> m + i]
    <2>1. shift \in Bijection(B, D)
      <3>1. shift \in [B -> D] /\ \A i \in B : shift[i] = m + i
        OBVIOUS
      <3>2. \A i, j \in B : shift[i] = shift[j] => i = j
        BY <1>4, <3>1
      <3>3. \A d \in D : \E i \in B : shift[i] = d
        BY <3>1
      <3> HIDE DEF shift, B, D
      <3> QED BY <3>1, <3>2, <3>3 DEF Bijection, Injection, Surjection, IsInjective
    <2>2. ExistsBijection(B, D)
      BY <2>1 DEF ExistsBijection
    <2> HIDE DEF shift, B, D
    <2> QED BY <1>7, <2>2, FS_Bijection
  <1> HIDE DEF A, B, C, D
  <1>9. Cardinality(C) = Cardinality(A) + Cardinality(D) - Cardinality({})
    BY <1>6, <1>7, <1>8, FS_Union
  <1>10. Cardinality(A) \in Nat /\ Cardinality(B) \in Nat /\ Cardinality({}) = 0
    BY <1>7, FS_CardinalityType, FS_EmptySet
  <1> QED BY <1>3, <1>8, <1>9, <1>10 DEF both

\* One operation.
LEMMA CopiesOne ==
    ASSUME NEW S, NEW e \in S, NEW t
    PROVE  /\ <<e>> \in Seq(S) /\ ToSet(<<e>>) = {e}
           /\ Copies(<<e>>, t) = IF Tag(e) = t THEN 1 ELSE 0
           /\ Copies(<< >>, t) = 0 /\ ToSet(<< >>) = {}
  <1> DEFINE one == <<e>>
  <1>1. one \in Seq(S) /\ DOMAIN one = {1} /\ one[1] = e
    OBVIOUS
  <1> HIDE DEF one
  <1>2. ToSet(one) = {e}
    BY <1>1 DEF ToSet
  <1>3. {i \in DOMAIN one : Tag(one[i]) = t} = IF Tag(e) = t THEN {1} ELSE {}
    BY <1>1
  <1>4. Copies(one, t) = IF Tag(e) = t THEN 1 ELSE 0
    BY <1>3, FS_Singleton, FS_EmptySet DEF Copies
  <1>5. << >> \in Seq(S) /\ ToSet(<< >>) = {}
    BY DEF ToSet
  <1>6. Copies(<< >>, t) = 0
    BY <1>5, CopiesType
  <1> QED BY <1>1, <1>2, <1>4, <1>5, <1>6 DEF one

\* What is taken out of a sequence, and what is left.
LEMMA CopiesRemove ==
    ASSUME NEW S, NEW s \in Seq(S), NEW i \in 1 .. Len(s), NEW t
    PROVE  /\ RemoveAt(s, i) \in Seq(S) /\ s[i] \in S /\ s[i] \in ToSet(s)
           /\ ToSet(s) = ToSet(RemoveAt(s, i)) \cup {s[i]}
           /\ Copies(s, t) = Copies(RemoveAt(s, i), t) + IF Tag(s[i]) = t THEN 1 ELSE 0
  <1> DEFINE a == SubSeq(s, 1, i - 1)
             b == SubSeq(s, i + 1, Len(s))
             o == <<s[i]>>
  <1>0. i \in Nat /\ Len(s) \in Nat /\ i <= Len(s) /\ 1 <= i
    OBVIOUS
  <1>1. a \in Seq(S) /\ b \in Seq(S) /\ s[i] \in S
    OBVIOUS
  <1>2. s = (a \o o) \o b
    <2> DEFINE r == (a \o o) \o b
    <2>1. /\ Len(a) = i - 1 /\ Len(o) = 1 /\ Len(b) = Len(s) - i
          /\ \A j \in 1 .. i - 1 : a[j] = s[j]
          /\ \A j \in 1 .. Len(s) - i : b[j] = s[i + j]
          /\ o[1] = s[i]
      BY <1>0
    <2>2. o \in Seq(S)
      BY <1>1
    <2> HIDE DEF a, b, o
    <2> DEFINE ao == a \o o
    <2>3. /\ ao \in Seq(S) /\ Len(ao) = i
          /\ \A j \in 1 .. i - 1 : ao[j] = s[j]
          /\ ao[i] = s[i]
      <3>1. ao \in Seq(S) /\ Len(ao) = Len(a) + Len(o)
        BY <1>1, <2>2, Joined
      <3>2. /\ \A j \in 1 .. Len(a) : ao[j] = a[j]
            /\ \A j \in 1 .. Len(o) : ao[Len(a) + j] = o[j]
        BY <1>1, <2>2, Joined
      <3> HIDE DEF ao
      <3>3. 1 \in 1 .. Len(o) /\ Len(a) + 1 = i /\ Len(a) + Len(o) = i
        BY <1>0, <2>1
      <3> QED BY <2>1, <3>1, <3>2, <3>3
    <2> HIDE DEF ao
    <2>4. r \in Seq(S) /\ Len(r) = Len(s)
      <3>1. r \in Seq(S) /\ Len(r) = Len(ao) + Len(b)
        BY <1>1, <2>3, Joined DEF ao
      <3> QED BY <1>0, <2>1, <2>3, <3>1
    <2>5. /\ \A j \in 1 .. Len(ao) : r[j] = ao[j]
          /\ \A j \in 1 .. Len(b) : r[Len(ao) + j] = b[j]
      BY <1>1, <2>3, Joined, SMTT(30) DEF ao
    <2> HIDE DEF r
    <2>6. \A j \in 1 .. Len(s) : \/ j \in 1 .. i - 1 /\ j \in 1 .. i
                                 \/ j = i /\ j \in 1 .. i
                                 \/ j - i \in 1 .. Len(s) - i /\ i + (j - i) = j
      BY <1>0
    <2>7. \A j \in 1 .. Len(s) : r[j] = s[j]
      <3> TAKE j \in 1 .. Len(s)
      <3>1. CASE j \in 1 .. i
        BY <2>3, <2>5, <2>6, <3>1
      <3>2. CASE j - i \in 1 .. Len(s) - i /\ i + (j - i) = j
        <4>1. r[Len(ao) + (j - i)] = b[j - i] /\ b[j - i] = s[i + (j - i)]
          BY <2>1, <2>5, <3>2
        <4> QED BY <2>3, <3>2, <4>1
      <3> QED BY <2>6, <3>1, <3>2
    <2>8. s \in [1 .. Len(s) -> S] /\ r \in [1 .. Len(s) -> S]
      BY <2>4
    <2>9. r = s
      BY <2>7, <2>8
    <2> QED BY <2>9 DEF r
  <1> HIDE DEF a, b
  <1>3. /\ o \in Seq(S) /\ ToSet(o) = {s[i]} /\ Copies(o, t) = IF Tag(s[i]) = t THEN 1 ELSE 0
    BY <1>1, CopiesOne
  <1> HIDE DEF o
  <1>4. a \o o \in Seq(S) /\ ToSet(a \o o) = ToSet(a) \cup ToSet(o)
    BY <1>1, <1>3, ElementsJoin, ZenonT(60)
  <1>5. ToSet(s) = ToSet(a) \cup ToSet(o) \cup ToSet(b) /\ Copies(s, t) = Copies(a, t) + Copies(o, t) + Copies(b, t)
    <2> DEFINE ao == a \o o
    <2>1. Copies(ao, t) = Copies(a, t) + Copies(o, t)
      BY <1>1, <1>3, CopiesJoin
    <2>4. ao \in Seq(S)
      BY <1>4
    <2> HIDE DEF ao
    <2>2. ToSet(ao \o b) = ToSet(ao) \cup ToSet(b)
      BY <1>1, <2>4, ElementsJoin, ZenonT(60)
    <2>3. Copies(ao \o b, t) = Copies(ao, t) + Copies(b, t)
      BY <1>1, <2>4, CopiesJoin
    <2> QED BY <1>2, <1>4, <2>1, <2>2, <2>3 DEF ao
  <1>6. RemoveAt(s, i) = a \o b
    BY DEF RemoveAt, a, b
  <1>7. a \o b \in Seq(S) /\ ToSet(a \o b) = ToSet(a) \cup ToSet(b)
    BY <1>1, ElementsJoin, ZenonT(60)
  <1>11. Copies(a \o b, t) = Copies(a, t) + Copies(b, t)
    BY <1>1, CopiesJoin
  <1>8. Copies(a, t) \in Nat /\ Copies(b, t) \in Nat
    BY <1>1, CopiesType
  <1>9. ToSet(s) = ToSet(RemoveAt(s, i)) \cup {s[i]} /\ s[i] \in ToSet(s)
    BY <1>3, <1>5, <1>6, <1>7
  <1>10. Copies(s, t) = Copies(RemoveAt(s, i), t) + IF Tag(s[i]) = t THEN 1 ELSE 0
    BY <1>3, <1>5, <1>6, <1>8, <1>11
  <1> QED BY <1>1, <1>6, <1>7, <1>9, <1>10

\* The same for the first.
LEMMA CopiesTail ==
    ASSUME NEW S, NEW s \in Seq(S), s # << >>, NEW t
    PROVE  /\ Tail(s) \in Seq(S) /\ Head(s) \in S /\ Head(s) \in ToSet(s)
           /\ ToSet(s) = ToSet(Tail(s)) \cup {Head(s)}
           /\ Copies(s, t) = Copies(Tail(s), t) + IF Tag(Head(s)) = t THEN 1 ELSE 0
  <1>1. 1 \in 1 .. Len(s)
    OBVIOUS
  <1>2. RemoveAt(s, 1) = Tail(s) /\ s[1] = Head(s)
    <2>1. SubSeq(s, 1, 0) = << >>
      OBVIOUS
    <2>2. SubSeq(s, 2, Len(s)) = Tail(s)
      OBVIOUS
    <2>3. << >> \o Tail(s) = Tail(s)
      OBVIOUS
    <2>4. 1 - 1 = 0 /\ 1 + 1 = 2
      OBVIOUS
    <2>5. s[1] = Head(s)
      OBVIOUS
    <2> QED BY <2>1, <2>2, <2>3, <2>4, <2>5 DEF RemoveAt
  <1>3. /\ RemoveAt(s, 1) \in Seq(S) /\ s[1] \in S /\ s[1] \in ToSet(s)
        /\ ToSet(s) = ToSet(RemoveAt(s, 1)) \cup {s[1]}
    BY <1>1, CopiesRemove
  <1>4. Copies(s, t) = Copies(RemoveAt(s, 1), t) + IF Tag(s[1]) = t THEN 1 ELSE 0
    BY <1>1, CopiesRemove
  <1> QED BY <1>2, <1>3, <1>4

\* The same for one more at the end.
LEMMA CopiesAppend ==
    ASSUME NEW S, NEW s \in Seq(S), NEW e \in S, NEW t
    PROVE  /\ Append(s, e) \in Seq(S) /\ ToSet(Append(s, e)) = ToSet(s) \cup {e}
           /\ Copies(Append(s, e), t) = Copies(s, t) + IF Tag(e) = t THEN 1 ELSE 0
  <1>1. Append(s, e) = s \o <<e>>
    OBVIOUS
  <1>2. <<e>> \in Seq(S) /\ ToSet(<<e>>) = {e} /\ Copies(<<e>>, t) = IF Tag(e) = t THEN 1 ELSE 0
    BY CopiesOne
  <1> DEFINE one == <<e>>
  <1> HIDE DEF one
  <1>3. s \o one \in Seq(S) /\ ToSet(s \o one) = ToSet(s) \cup ToSet(one)
    BY <1>2, ElementsJoin, ZenonT(60) DEF one
  <1>4. Copies(s \o one, t) = Copies(s, t) + Copies(one, t)
    BY <1>2, CopiesJoin DEF one
  <1> QED BY <1>1, <1>2, <1>3, <1>4 DEF one

-----------------------------------------------------------------------------
(* The inductive invariant                                                 *)

Peer(id) == conns[id].sock

\* What the kernel has yet to do, and how many of all operations are t
Waiting == ToSet(sq) \cup ToSet(inflight)
AllCopies(t) == Copies(sq, t) + Copies(inflight, t) + Copies(cq, t)

AcceptTag(cl) == <<"accept", 0, cl>>
TimerTag == <<"timeout", 0, "none">>

\* The operation that is outstanding for the connection in slot id
Mine(id) == <<eventStore[id], id, Peer(id)>>

\* Every open socket has one live slot, and every live slot a socket of its own.
SocketsHaveSlots ==
    /\ \A id \in Slots : conns[id].live =>
          /\ Peer(id) \in Clients /\ eventStore[id] \in {"recv", "send", "close"}
          /\ srv[Peer(id)] = IF eventStore[id] = "close" THEN "closed" ELSE "open"
    /\ \A i, j \in Slots : conns[i].live /\ conns[j].live /\ Peer(i) = Peer(j) => i = j
    /\ \A cl \in Clients : srv[cl] = "open" => \E id \in Slots : conns[id].live /\ Peer(id) = cl

\* Only who is gone is idle, and of him nothing is left to receive.
IdleOnesGone == \A id \in Slots : conns[id].live /\ conns[id].idle => Gone(Peer(id))

BytesMove ==
    \A cl \in Clients :
        /\ read[cl] <= taken[cl] /\ taken[cl] <= sent[cl]
        /\ Gone(cl) => read[cl] = sent[cl]
        /\ srv[cl] # "open" => read[cl] = taken[cl]

\* An operation a live connection waits for
Current(o) == o.id \in Slots /\ conns[o.id].live /\ Tag(o) = Mine(o.id)

\* A receive whose connection the sweep has closed: it never completes
LeftBehind(o) == o.id \in Slots /\ o.op = "recv" /\ Gone(o.sock) /\ srv[o.sock] = "closed"

\* An operation still does what its connection started it for.
Fits(o) ==
    LET c == conns[o.id]
    IN  /\ taken[o.sock] = read[o.sock]
        /\ o.op = "recv" => /\ c.state = "reading" /\ o.off = Len(c.buf)
                            /\ o.len = RecvCap - Len(c.buf) /\ o.len > 0
        /\ o.op = "send" => /\ c.state = "writing"
                            /\ o.len = c.sendLen - c.sendOff /\ o.len > 0

WaitingSound ==
    \A o \in Waiting :
        \/ Tag(o) \in {AcceptTag("none"), TimerTag}
        \/ Current(o) /\ Fits(o)
        \/ LeftBehind(o)

\* What a completion reports is true of its connection, until it is handled.
Reports(e) ==
    LET c == conns[e.id]
    IN  /\ taken[e.sock] = read[e.sock] + IF e.op = "recv" THEN e.res ELSE 0
        /\ e.op = "recv" =>
              /\ c.state = "reading" /\ e.off = Len(c.buf) /\ e.res <= RecvCap - Len(c.buf)
              /\ e.res = 0 => \/ ended[e.sock] = "rst"
                              \/ ended[e.sock] = "fin" /\ read[e.sock] = sent[e.sock]
        /\ e.op = "send" =>
              /\ c.state = "writing" /\ e.res <= c.sendLen - c.sendOff
              /\ e.res = 0 => ended[e.sock] = "rst"

CompletedSound ==
    \A e \in ToSet(cq) :
        \/ Tag(e) = TimerTag
        \/ Tag(e) = AcceptTag("none") /\ e.res = 0
        \/ \E cl \in Clients : Tag(e) = AcceptTag(cl) /\ e.res = 1 /\ srv[cl] = "backlog"
        \/ Current(e) /\ Reports(e)

\* One operation of each connection, one timer, one accepted socket of a client
Counts ==
    /\ \A id \in Slots : conns[id].live => AllCopies(Mine(id)) = 1
    /\ AllCopies(TimerTag) <= 1
    /\ \A cl \in Clients : Copies(cq, AcceptTag(cl)) <= 1

\* Without SQPOLL nothing is dropped.
Listening ==
    ~sqPoll =>
        /\ sq = << >> /\ AllCopies(TimerTag) = 1
        /\ \/ \E o \in ToSet(inflight) : o.op = "accept"
           \/ \E e \in ToSet(cq) : e.op = "accept" /\ ~e.more

\* No close is under way when the timer that could repeat it is handled.
ClosesBeforeTimer ==
    \A j \in DOMAIN cq : Tag(cq[j]) = TimerTag =>
        \A id \in Slots : Sweepable(conns[id]) /\ eventStore[id] = "close" =>
            \E k \in 1 .. j - 1 : Tag(cq[k]) = Mine(id)

Proper == \A id \in Slots : Sound(conns[id])

UInv == /\ TypeOK /\ Proper /\ SlotsConserved /\ SocketsHaveSlots /\ IdleOnesGone /\ BytesMove
        /\ WaitingSound /\ CompletedSound /\ Counts /\ Listening /\ ClosesBeforeTimer

-----------------------------------------------------------------------------
(* Views of the invariant                                                  *)

\* The types, one by one.
LEMMA Types ==
    ASSUME UInv
    PROVE  /\ conns \in [Slots -> ConnRecord] /\ freeList \in Seq(Slots)
           /\ sent \in [Clients -> Nat] /\ read \in [Clients -> Nat] /\ taken \in [Clients -> Nat]
           /\ ended \in [Clients -> {"no", "fin", "rst", "gone"}]
           /\ got \in [Clients -> [req : Nat, unit : 1 .. RespLen]]
           /\ srv \in [Clients -> {"none", "backlog", "open", "closed"}]
           /\ sqPoll \in SqPolls /\ eventStore \in [Slots -> {"recv", "send", "close", "accept"}]
           /\ sq \in Seq(OpType) /\ inflight \in Seq(OpType) /\ cq \in Seq(CompletionType)
           /\ 0 \notin Slots /\ \A id \in Slots : Sound(conns[id])
  BY LoopAssumption DEF UInv, TypeOK, LoopTypeOK, Proper, Slots

\* Sound objects are what the type invariant asks of them.
LEMMA SoundIsTyped ==
    ASSUME conns \in [Slots -> ConnRecord], Proper
    PROVE  \A id \in Slots : Len(conns[id].buf) <= RecvCap /\ conns[id].sendOff <= conns[id].sendLen
  BY DEF Proper, Sound

\* The fields of what is waiting and of what has completed.
LEMMA Elements ==
    ASSUME UInv
    PROVE  /\ \A o \in Waiting : o \in OpType
           /\ \A e \in ToSet(cq) : e \in CompletionType
  BY Types DEF Waiting, ToSet

\* How many there are of an operation is a number, in each place and in all.
LEMMA Numbers ==
    ASSUME UInv, NEW t
    PROVE  /\ Copies(sq, t) \in Nat /\ Copies(inflight, t) \in Nat /\ Copies(cq, t) \in Nat
           /\ AllCopies(t) \in Nat
  <1>1. Copies(sq, t) \in Nat /\ Copies(inflight, t) \in Nat /\ Copies(cq, t) \in Nat
    BY Types, CopiesType
  <1> QED BY <1>1 DEF AllCopies

\* What the thread submits joins what is waiting.
LEMMA Submitted ==
    ASSUME UInv, NEW ops \in Seq(OpType), Submit(ops), UNCHANGED sqPoll
    PROVE  /\ sq' \in Seq(OpType) /\ inflight' \in Seq(OpType)
           /\ Waiting' = Waiting \cup ToSet(ops)
           /\ \A t : Copies(sq', t) + Copies(inflight', t)
                      = Copies(sq, t) + Copies(inflight, t) + Copies(ops, t)
           /\ ~sqPoll => UNCHANGED sq /\ ToSet(inflight') = ToSet(inflight) \cup ToSet(ops)
  <1>1. sq \in Seq(OpType) /\ inflight \in Seq(OpType)
    BY Types
  <1>2. CASE sqPoll
    <2>1. sq' = sq \o ops /\ inflight' = inflight
      BY <1>2 DEF Submit
    <2>2. sq \o ops \in Seq(OpType) /\ ToSet(sq \o ops) = ToSet(sq) \cup ToSet(ops)
      BY <1>1, ElementsJoin, ZenonT(60)
    <2>3. ASSUME NEW t
          PROVE  Copies(sq', t) + Copies(inflight', t)
                   = Copies(sq, t) + Copies(inflight, t) + Copies(ops, t)
      <3>1. Copies(sq \o ops, t) = Copies(sq, t) + Copies(ops, t)
        BY <1>1, CopiesJoin
      <3>2. Copies(sq, t) \in Nat /\ Copies(inflight, t) \in Nat /\ Copies(ops, t) \in Nat
        BY <1>1, CopiesType
      <3> QED BY <2>1, <3>1, <3>2
    <2> QED BY <1>1, <1>2, <2>1, <2>2, <2>3 DEF Waiting
  <1>3. CASE ~sqPoll
    <2>1. inflight' = inflight \o ops /\ sq' = sq
      BY <1>3 DEF Submit
    <2>2. inflight \o ops \in Seq(OpType) /\ ToSet(inflight \o ops) = ToSet(inflight) \cup ToSet(ops)
      BY <1>1, ElementsJoin, ZenonT(60)
    <2>3. ASSUME NEW t
          PROVE  Copies(sq', t) + Copies(inflight', t)
                   = Copies(sq, t) + Copies(inflight, t) + Copies(ops, t)
      <3>1. Copies(inflight \o ops, t) = Copies(inflight, t) + Copies(ops, t)
        BY <1>1, CopiesJoin
      <3>2. Copies(sq, t) \in Nat /\ Copies(inflight, t) \in Nat /\ Copies(ops, t) \in Nat
        BY <1>1, CopiesType
      <3> QED BY <2>1, <3>1, <3>2
    <2> QED BY <1>1, <1>3, <2>1, <2>2, <2>3 DEF Waiting
  <1> QED BY <1>2, <1>3

\* What the thread takes from the completion queue, and what is left there.
LEMMA TakenOff ==
    ASSUME UInv, cq # << >>, cq' = Tail(cq)
    PROVE  /\ cq' \in Seq(CompletionType) /\ Head(cq) \in CompletionType /\ Head(cq) \in ToSet(cq)
           /\ ToSet(cq) = ToSet(cq') \cup {Head(cq)}
           /\ \A t : Copies(cq, t) = Copies(cq', t) + IF Tag(Head(cq)) = t THEN 1 ELSE 0
           /\ \A t : Copies(cq', t) \in Nat
           /\ \A j \in DOMAIN cq' : j + 1 \in DOMAIN cq /\ cq'[j] = cq[j + 1]
           /\ \A k \in DOMAIN cq : k # 1 => k - 1 \in DOMAIN cq' /\ cq'[k - 1] = cq[k]
           /\ cq[1] = Head(cq)
  <1>1. cq \in Seq(CompletionType)
    BY Types
  <1>2. /\ Tail(cq) \in Seq(CompletionType) /\ Head(cq) \in CompletionType
        /\ Head(cq) \in ToSet(cq) /\ ToSet(cq) = ToSet(Tail(cq)) \cup {Head(cq)}
    BY <1>1, CopiesTail
  <1>3. \A t : Copies(cq, t) = Copies(Tail(cq), t) + IF Tag(Head(cq)) = t THEN 1 ELSE 0
    BY <1>1, CopiesTail
  <1>4. \A t : Copies(Tail(cq), t) \in Nat
    BY <1>2, CopiesType
  <1>5. Len(cq) \in Nat \ {0} /\ DOMAIN cq = 1 .. Len(cq) /\ DOMAIN Tail(cq) = 1 .. Len(cq) - 1
    BY <1>1
  <1>6. \A j \in 1 .. Len(cq) - 1 : Tail(cq)[j] = cq[j + 1]
    BY <1>1
  <1>7. cq[1] = Head(cq)
    BY <1>1
  <1>8. \A k \in 1 .. Len(cq) : k # 1 => k - 1 \in 1 .. Len(cq) - 1 /\ (k - 1) + 1 = k
    BY <1>5
  <1>9. \A j \in 1 .. Len(cq) - 1 : j + 1 \in 1 .. Len(cq)
    BY <1>5
  <1>10. \A j \in DOMAIN Tail(cq) : j + 1 \in DOMAIN cq /\ Tail(cq)[j] = cq[j + 1]
    BY <1>5, <1>6, <1>9
  <1>11. \A k \in DOMAIN cq : k # 1 => k - 1 \in DOMAIN Tail(cq) /\ Tail(cq)[k - 1] = cq[k]
    BY <1>5, <1>6, <1>8
  <1> QED BY <1>2, <1>3, <1>4, <1>7, <1>10, <1>11

-----------------------------------------------------------------------------
(* What a handler of the thread may do                                     *)

\* The handler of the next completion submits ops.
Takes(ops) ==
    /\ cq # << >> /\ cq' = Tail(cq) /\ ops \in Seq(OpType) /\ Submit(ops)
    /\ UNCHANGED <<sqPoll, sent, ended, taken>>

\* It touches no slot but those in T, of which the completion's is one.
Rest(T) ==
    /\ Head(cq).id \in T \cup {0}
    /\ \A i \in Slots \ T :
          /\ conns'[i] = conns[i] /\ eventStore'[i] = eventStore[i]
          /\ conns[i].live => srv'[Peer(i)] = srv[Peer(i)] /\ read'[Peer(i)] = read[Peer(i)]

\* Sockets are closed for good, and opened with a slot.
SocketsMove(T) ==
    /\ \A cl \in Clients : srv[cl] = "closed" => srv'[cl] = "closed"
    /\ \A cl \in Clients : srv[cl] = "backlog" /\ Tag(Head(cq)) # AcceptTag(cl) => srv'[cl] = "backlog"
    /\ \A cl \in Clients : srv'[cl] = "open" =>
          srv[cl] = "open" \/ \E i \in T : conns'[i].live /\ conns'[i].sock = cl
    /\ \A i \in T : conns[i].live =>
          (conns'[i].live /\ conns'[i].sock = conns[i].sock) \/ srv'[conns[i].sock] # "open"

\* What was outstanding for the slots in T is over, or left behind.
Over(T) ==
    /\ \A o \in Waiting : o.id \in T => LeftBehind(o)'
    /\ \A e \in ToSet(cq') : e.id \notin T

\* Those that live on go on with one operation.
GoesOn(T, ops) ==
    \A i \in T : conns'[i].live =>
        /\ conns'[i].sock \in Clients /\ eventStore'[i] \in {"recv", "send", "close"}
        /\ srv'[conns'[i].sock] = IF eventStore'[i] = "close" THEN "closed" ELSE "open"
        /\ \/ conns[i].live /\ conns'[i].sock = conns[i].sock
           \/ T = {i} /\ srv[conns'[i].sock] = "backlog"
        /\ conns'[i].idle => Gone(conns'[i].sock)
        /\ Copies(ops, <<eventStore'[i], i, conns'[i].sock>>) = 1
        /\ eventStore'[i] = "close" /\ Tag(Head(cq)) # TimerTag => ~Sweepable(conns'[i])

\* All that is submitted is such an operation, the accept or the timer, and
\* without SQPOLL neither of these is lost.
Submits(T, ops) ==
    /\ \A o \in ToSet(ops) : \/ Tag(o) \in {AcceptTag("none"), TimerTag}
                             \/ o.id \in T /\ Current(o)' /\ Fits(o)'
    /\ Copies(ops, TimerTag) <= IF Tag(Head(cq)) = TimerTag THEN 1 ELSE 0
    /\ ~sqPoll => /\ Copies(ops, TimerTag) = IF Tag(Head(cq)) = TimerTag THEN 1 ELSE 0
                  /\ Head(cq).op = "accept" /\ ~Head(cq).more => \E o \in ToSet(ops) : o.op = "accept"

\* Such a handler keeps the invariant.
LEMMA HandledKeeps ==
    ASSUME UInv, NEW T \in SUBSET Slots, NEW ops, Takes(ops), Rest(T), SocketsMove(T), Over(T),
           GoesOn(T, ops), Submits(T, ops), TypeOK', Proper', SlotsConserved', BytesMove'
    PROVE  UInv'
  <1> DEFINE e == Head(cq)
  <1>1. /\ ops \in Seq(OpType) /\ Submit(ops) /\ UNCHANGED <<sqPoll, sent, ended, taken>>
        /\ cq # << >> /\ cq' = Tail(cq)
    BY DEF Takes
  <1>2. /\ Waiting' = Waiting \cup ToSet(ops)
        /\ \A t : Copies(sq', t) + Copies(inflight', t)
                   = Copies(sq, t) + Copies(inflight, t) + Copies(ops, t)
        /\ ~sqPoll => UNCHANGED sq /\ ToSet(inflight') = ToSet(inflight) \cup ToSet(ops)
    BY <1>1, Submitted
  <1>3. /\ e \in CompletionType /\ e \in ToSet(cq) /\ ToSet(cq) = ToSet(cq') \cup {e}
        /\ \A t : Copies(cq, t) = Copies(cq', t) + IF Tag(e) = t THEN 1 ELSE 0
        /\ \A t : Copies(cq', t) \in Nat
    BY <1>1, TakenOff
  <1>4. /\ \A j \in DOMAIN cq' : j + 1 \in DOMAIN cq /\ cq'[j] = cq[j + 1]
        /\ \A k \in DOMAIN cq : k # 1 => k - 1 \in DOMAIN cq' /\ cq'[k - 1] = cq[k]
        /\ cq[1] = e
    BY <1>1, TakenOff
  <1>5. /\ \A i \in Slots \ T : /\ conns'[i] = conns[i] /\ eventStore'[i] = eventStore[i]
                                /\ conns[i].live => /\ srv'[Peer(i)] = srv[Peer(i)]
                                                    /\ read'[Peer(i)] = read[Peer(i)]
        /\ e.id \in T \cup {0}
    BY DEF Rest
  <1>6. /\ \A i \in Slots \ T : Peer(i)' = Peer(i) /\ Mine(i)' = Mine(i)
        /\ \A o : o.id \in Slots \ T => (Current(o)' <=> Current(o))
    BY <1>5 DEF Peer, Mine, Current
  <1>7. 0 \notin Slots /\ 0 \notin T
    BY Types
  <1>8. \A t : AllCopies(t)' = AllCopies(t) + Copies(ops, t) - IF Tag(e) = t THEN 1 ELSE 0
    <2> TAKE t
    <2>1. Copies(sq', t) + Copies(inflight', t) = Copies(sq, t) + Copies(inflight, t) + Copies(ops, t)
      BY <1>2
    <2>2. Copies(cq, t) = Copies(cq', t) + IF Tag(e) = t THEN 1 ELSE 0
      BY <1>3
    <2>3. AllCopies(t)' = Copies(sq', t) + Copies(inflight', t) + Copies(cq', t)
      BY DEF AllCopies
    <2>4. /\ Copies(sq, t) \in Nat /\ Copies(inflight, t) \in Nat /\ Copies(cq', t) \in Nat
          /\ Copies(ops, t) \in Nat
      BY <1>1, <1>3, Numbers, CopiesType
    <2>5. Copies(sq', t) \in Nat /\ Copies(inflight', t) \in Nat
      <3>1. sq' \in Seq(OpType) /\ inflight' \in Seq(OpType)
        BY <1>1, Submitted
      <3> QED BY <3>1, CopiesType
    <2> HIDE DEF e
    <2> QED BY <2>1, <2>2, <2>3, <2>4, <2>5 DEF AllCopies
  <1> HIDE DEF e
  <1>9. SocketsHaveSlots'
    <2>1. ASSUME NEW i \in Slots, conns'[i].live
          PROVE  /\ conns'[i].sock \in Clients /\ eventStore'[i] \in {"recv", "send", "close"}
                 /\ srv'[conns'[i].sock] = IF eventStore'[i] = "close" THEN "closed" ELSE "open"
      <3>1. CASE i \in T
        BY <2>1, <3>1 DEF GoesOn
      <3>2. CASE i \notin T
        BY <1>5, <2>1, <3>2 DEF UInv, SocketsHaveSlots, Peer
      <3> QED BY <3>1, <3>2
    <2>2. ASSUME NEW i \in Slots, NEW j \in Slots, conns'[i].live, conns'[j].live,
                 conns'[i].sock = conns'[j].sock
          PROVE  i = j
      <3>1. ASSUME NEW k \in Slots, conns'[k].live
            PROVE  \/ conns[k].live /\ conns'[k].sock = conns[k].sock
                   \/ T = {k} /\ srv[conns'[k].sock] = "backlog"
        BY <1>5, <3>1 DEF GoesOn
      <3>2. ASSUME NEW k \in Slots, conns[k].live
            PROVE  srv[conns[k].sock] # "backlog"
        BY <3>2 DEF UInv, SocketsHaveSlots, Peer
      <3> QED BY <2>2, <3>1, <3>2 DEF UInv, SocketsHaveSlots, Peer
    <2>3. ASSUME NEW cl \in Clients, srv'[cl] = "open"
          PROVE  \E i \in Slots : conns'[i].live /\ conns'[i].sock = cl
      <3>1. CASE srv[cl] = "open"
        <4>1. PICK i \in Slots : conns[i].live /\ conns[i].sock = cl
          BY <3>1 DEF UInv, SocketsHaveSlots, Peer
        <4> QED BY <1>5, <2>3, <4>1 DEF SocketsMove
      <3> QED BY <2>3, <3>1 DEF SocketsMove
    <2> QED BY <2>1, <2>2, <2>3 DEF SocketsHaveSlots, Peer
  <1>10. IdleOnesGone'
    <2>1. ASSUME NEW i \in Slots, conns'[i].live, conns'[i].idle
          PROVE  conns'[i].sock \in Clients /\ ended'[conns'[i].sock] = "gone"
      <3>1. Gone(conns'[i].sock)
        BY <1>5, <2>1 DEF GoesOn, UInv, IdleOnesGone, Peer
      <3> QED BY <1>1, <3>1 DEF Gone
    <2> QED BY <2>1 DEF IdleOnesGone, Gone, Peer
  <1>11. WaitingSound'
    <2> SUFFICES ASSUME NEW o \in Waiting'
                 PROVE  \/ Tag(o) \in {AcceptTag("none"), TimerTag}
                        \/ Current(o)' /\ Fits(o)'
                        \/ LeftBehind(o)'
      BY DEF WaitingSound, Tag, AcceptTag, TimerTag
    <2>1. CASE o \in ToSet(ops)
      BY <2>1 DEF Submits
    <2>2. CASE o \in Waiting /\ o.id \in T
      BY <2>2 DEF Over
    <2>3. CASE o \in Waiting /\ o.id \notin T
      <3>1. CASE Current(o) /\ Fits(o)
        <4>1. o.id \in Slots \ T /\ o.sock = Peer(o.id) /\ conns[o.id].live
          BY <2>3, <3>1 DEF Current, Mine, Tag
        <4>2. conns'[o.id] = conns[o.id] /\ read'[o.sock] = read[o.sock] /\ taken' = taken
          BY <1>1, <1>5, <4>1
        <4> QED BY <1>6, <3>1, <4>1, <4>2 DEF Fits
      <3>2. CASE LeftBehind(o)
        <4>1. o.sock \in Clients /\ srv'[o.sock] = "closed"
          BY <3>2 DEF LeftBehind, Gone, SocketsMove
        <4> QED BY <1>1, <3>2, <4>1 DEF LeftBehind, Gone
      <3> QED BY <2>3, <3>1, <3>2 DEF UInv, WaitingSound
    <2> QED BY <1>2, <2>1, <2>2, <2>3
  <1>12. CompletedSound'
    <2> SUFFICES ASSUME NEW x \in ToSet(cq')
                 PROVE  \/ Tag(x) = TimerTag
                        \/ Tag(x) = AcceptTag("none") /\ x.res = 0
                        \/ \E cl \in Clients : Tag(x) = AcceptTag(cl) /\ x.res = 1 /\ srv'[cl] = "backlog"
                        \/ Current(x)' /\ Reports(x)'
      BY DEF CompletedSound, Tag, AcceptTag, TimerTag
    <2>0. x \in ToSet(cq) /\ x.id \notin T
      BY <1>3 DEF Over
    <2>1. ASSUME NEW cl \in Clients, Tag(x) = AcceptTag(cl), srv[cl] = "backlog"
          PROVE  srv'[cl] = "backlog"
      <3>1. Copies(cq', AcceptTag(cl)) # 0
        <4>1. cq' \in Seq(CompletionType)
          BY <1>1, TakenOff
        <4> QED BY <2>1, <4>1, CopiesType
      <3>2. Copies(cq, AcceptTag(cl)) <= 1
        BY DEF UInv, Counts
      <3>3. Tag(e) # AcceptTag(cl)
        BY <1>3, <3>1, <3>2
      <3> QED BY <2>1, <3>3 DEF SocketsMove, e
    <2>2. CASE Current(x) /\ Reports(x)
      <3>1. x.id \in Slots \ T /\ x.sock = Peer(x.id) /\ conns[x.id].live
        BY <2>0, <2>2 DEF Current, Mine, Tag
      <3>2. /\ conns'[x.id] = conns[x.id] /\ read'[x.sock] = read[x.sock]
            /\ taken' = taken /\ ended' = ended /\ sent' = sent
        BY <1>1, <1>5, <3>1
      <3> QED BY <1>6, <2>2, <3>1, <3>2 DEF Reports
    <2> QED BY <2>0, <2>1, <2>2 DEF UInv, CompletedSound
  <1>13. Counts'
    <2>1. ASSUME NEW i \in Slots, conns'[i].live PROVE AllCopies(Mine(i))' = 1
      <3>0. PICK t : t = <<eventStore'[i], i, conns'[i].sock>>
        OBVIOUS
      <3>1. Mine(i)' = t
        BY <3>0 DEF Mine, Peer
      <3>counted. AllCopies(t)' = AllCopies(t) + Copies(ops, t) - IF Tag(e) = t THEN 1 ELSE 0
        BY <1>8
      <3>same. AllCopies(t)' = 1 => AllCopies(Mine(i))' = 1
        BY <3>1 DEF AllCopies
      <3>2. CASE i \notin T
        <4>1. t = Mine(i) /\ conns[i].live
          BY <1>5, <2>1, <3>0, <3>2 DEF Mine, Peer
        <4>2. Tag(e) # t
          BY <1>5, <1>7, <3>0, <3>2 DEF Tag
        <4>3. \A o \in ToSet(ops) : Tag(o) # t
          BY <1>7, <3>0, <3>2 DEF Submits, Tag, AcceptTag, TimerTag
        <4>4. Copies(ops, t) = 0
          BY <1>1, <4>3, CopiesType
        <4>5. AllCopies(t) = 1
          BY <4>1 DEF UInv, Counts
        <4> QED BY <3>counted, <3>same, <4>2, <4>4, <4>5
      <3>3. CASE i \in T
        <4>1. Copies(ops, t) = 1
          BY <2>1, <3>0, <3>3 DEF GoesOn
        <4>2. \A o \in Waiting : Tag(o) # t
          <5> SUFFICES ASSUME NEW o \in Waiting, Tag(o) = t PROVE FALSE
            OBVIOUS
          <5>1. o.op = eventStore'[i] /\ o.id = i /\ o.sock = conns'[i].sock
            BY <3>0 DEF Tag
          <5>2. LeftBehind(o)'
            BY <3>3, <5>1 DEF Over
          <5>3. o.op = "recv" /\ srv'[o.sock] = "closed"
            BY <5>2 DEF LeftBehind
          <5> QED BY <2>1, <3>3, <5>1, <5>3 DEF GoesOn
        <4>3. \A x \in ToSet(cq') : Tag(x) # t
          BY <3>0, <3>3 DEF Over, Tag
        <4>4. Copies(sq, t) = 0 /\ Copies(inflight, t) = 0
          BY <4>2, Types, CopiesType DEF Waiting
        <4>5. Copies(cq', t) = 0
          <5>1. cq' \in Seq(CompletionType)
            BY <1>1, TakenOff
          <5> QED BY <4>3, <5>1, CopiesType
        <4>6. Copies(cq, t) = IF Tag(e) = t THEN 1 ELSE 0
          BY <1>3, <4>5
        <4>7. AllCopies(t) = IF Tag(e) = t THEN 1 ELSE 0
          BY <4>4, <4>6 DEF AllCopies
        <4> QED BY <3>counted, <3>same, <4>1, <4>7
      <3> QED BY <3>2, <3>3
    <2>2. AllCopies(TimerTag)' <= 1
      <3>1. AllCopies(TimerTag)' = AllCopies(TimerTag) + Copies(ops, TimerTag)
                                   - IF Tag(e) = TimerTag THEN 1 ELSE 0
        BY <1>8 DEF AllCopies, TimerTag
      <3>2. Copies(ops, TimerTag) <= IF Tag(e) = TimerTag THEN 1 ELSE 0
        BY DEF Submits, e
      <3>3. AllCopies(TimerTag) <= 1 /\ AllCopies(TimerTag) \in Nat /\ Copies(ops, TimerTag) \in Nat
        BY <1>1, Numbers, CopiesType DEF UInv, Counts
      <3> QED BY <3>1, <3>2, <3>3
    <2>3. ASSUME NEW cl \in Clients PROVE Copies(cq', AcceptTag(cl)) <= 1
      <3>1. Copies(cq, AcceptTag(cl)) <= 1
        BY DEF UInv, Counts
      <3> QED BY <1>3, <3>1
    <2>4. \A cl \in Clients : Copies(cq, AcceptTag(cl))' <= 1
      BY <2>3 DEF AcceptTag
    <2> QED BY <2>1, <2>2, <2>4 DEF Counts
  <1>14. Listening'
    <2> SUFFICES ASSUME ~sqPoll
                 PROVE  /\ sq' = << >> /\ AllCopies(TimerTag)' = 1
                        /\ \/ \E o \in ToSet(inflight') : o.op = "accept"
                           \/ \E x \in ToSet(cq') : x.op = "accept" /\ ~x.more
      BY <1>1 DEF Listening
    <2>1. sq' = << >>
      BY <1>2 DEF UInv, Listening
    <2>2. AllCopies(TimerTag)' = 1
      <3>1. AllCopies(TimerTag)' = AllCopies(TimerTag) + Copies(ops, TimerTag)
                                   - IF Tag(e) = TimerTag THEN 1 ELSE 0
        BY <1>8 DEF AllCopies, TimerTag
      <3>2. Copies(ops, TimerTag) = IF Tag(e) = TimerTag THEN 1 ELSE 0
        BY DEF Submits, e
      <3>3. AllCopies(TimerTag) = 1
        BY DEF UInv, Listening
      <3> QED BY <3>1, <3>2, <3>3
    <2>3. \/ \E o \in ToSet(inflight) : o.op = "accept"
          \/ \E x \in ToSet(cq) : x.op = "accept" /\ ~x.more
      BY DEF UInv, Listening
    <2>4. e.op = "accept" /\ ~e.more => \E o \in ToSet(ops) : o.op = "accept"
      BY DEF Submits, e
    <2> QED BY <1>2, <1>3, <2>1, <2>2, <2>3, <2>4
  <1>15. ClosesBeforeTimer'
    <2> SUFFICES ASSUME NEW j \in DOMAIN cq', Tag(cq'[j]) = TimerTag, NEW i \in Slots,
                        Sweepable(conns'[i]), eventStore'[i] = "close"
                 PROVE  \E k \in 1 .. j - 1 : Tag(cq'[k]) = Mine(i)'
      BY DEF ClosesBeforeTimer, Tag, TimerTag, Sweepable
    <2>0. cq' \in Seq(CompletionType) /\ cq \in Seq(CompletionType)
      BY <1>1, TakenOff
    <2>1. Tag(e) # TimerTag
      <3>1. cq'[j] \in ToSet(cq')
        BY DEF ToSet
      <3>2. Copies(cq', TimerTag) # 0
        BY <2>0, <3>1, CopiesType
      <3>3. Copies(cq, TimerTag) <= 1
        BY Numbers DEF UInv, Counts, AllCopies
      <3> QED BY <1>3, <3>2, <3>3
    <2>2. conns'[i].live
      BY DEF Sweepable
    <2>3. i \notin T
      BY <2>1, <2>2 DEF GoesOn, e
    <2>4. conns'[i] = conns[i] /\ eventStore'[i] = eventStore[i] /\ Mine(i)' = Mine(i)
      BY <1>5, <1>6, <2>3
    <2>5. j + 1 \in DOMAIN cq /\ Tag(cq[j + 1]) = TimerTag
      BY <1>4
    <2>6. PICK k \in 1 .. (j + 1) - 1 : Tag(cq[k]) = Mine(i)
      BY <2>4, <2>5 DEF UInv, ClosesBeforeTimer
    <2>7. k # 1
      <3>1. SUFFICES ASSUME k = 1 PROVE FALSE
        OBVIOUS
      <3>2. e.id = i
        BY <1>4, <2>6, <3>1 DEF Tag, Mine
      <3> QED BY <1>5, <1>7, <2>3, <3>2
    <2>8. j \in Nat /\ Len(cq) \in Nat /\ DOMAIN cq = 1 .. Len(cq) /\ k \in Nat /\ k - 1 \in 1 .. j - 1 /\ k \in DOMAIN cq
      BY <2>0, <2>5, <2>6, <2>7
    <2>9. Tag(cq'[k - 1]) = Mine(i)'
      BY <1>4, <2>4, <2>6, <2>7, <2>8
    <2> QED BY <2>8, <2>9
  <1> QED BY <1>9, <1>10, <1>11, <1>12, <1>13, <1>14, <1>15 DEF UInv

-----------------------------------------------------------------------------
(* The kernel                                                              *)

\* A live connection's operation is outstanding once.
LEMMA OnlyOne ==
    ASSUME UInv, NEW id \in Slots, conns[id].live
    PROVE  /\ AllCopies(Mine(id)) = 1
           /\ Copies(cq, Mine(id)) + Copies(sq, Mine(id)) + Copies(inflight, Mine(id)) = 1
  <1>1. AllCopies(Mine(id)) = 1
    BY DEF UInv, Counts
  <1>2. /\ Copies(sq, Mine(id)) \in Nat /\ Copies(inflight, Mine(id)) \in Nat
        /\ Copies(cq, Mine(id)) \in Nat
    BY Numbers
  <1> QED BY <1>1, <1>2 DEF AllCopies

\* Two operations that are waited for on one socket are the same.
LEMMA SameSocket ==
    ASSUME UInv, NEW x, NEW y, Current(x), Current(y), x.sock = y.sock
    PROVE  Tag(x) = Tag(y) /\ x.id = y.id
  <1>1. /\ x.id \in Slots /\ conns[x.id].live /\ x.sock = Peer(x.id) /\ Tag(x) = Mine(x.id)
        /\ y.id \in Slots /\ conns[y.id].live /\ y.sock = Peer(y.id) /\ Tag(y) = Mine(y.id)
    BY DEF Current, Tag, Mine
  <1>2. \A i, j \in Slots : conns[i].live /\ conns[j].live /\ Peer(i) = Peer(j) => i = j
    BY DEF UInv, SocketsHaveSlots
  <1>3. Peer(x.id) = Peer(y.id)
    BY <1>1
  <1> QED BY <1>1, <1>2, <1>3, Zenon

\* One more completion, of something that was waiting or of the accept.
LEMMA KernelKeeps ==
    ASSUME UInv, TypeOK', BytesMove', UNCHANGED <<loopVars, sqPoll, eventStore, sq>>,
           NEW e \in CompletionType, cq' = Append(cq, e), Waiting' \subseteq Waiting,
           \A id \in Slots : \A what, sock :
               AllCopies(<<what, id, sock>>)' = AllCopies(<<what, id, sock>>),
           AllCopies(TimerTag)' = AllCopies(TimerTag),
           \A cl \in Clients : Copies(cq, AcceptTag(cl))' <= 1,
           \/ \A o \in ToSet(inflight) : o.op = "accept" => o \in ToSet(inflight')
           \/ e.op = "accept" /\ ~e.more,
           \A x \in Waiting' \cup ToSet(cq) : Current(x) => taken'[x.sock] = taken[x.sock],
           \/ Tag(e) = TimerTag /\ \A o \in Waiting : o.op # "close"
           \/ Tag(e) = AcceptTag("none") /\ e.res = 0
           \/ \E cl \in Clients : Tag(e) = AcceptTag(cl) /\ e.res = 1 /\ srv[cl] = "backlog"
           \/ Current(e) /\ Reports(e)'
    PROVE  UInv'
  <1>1. /\ UNCHANGED <<conns, freeList, sent, read, ended, got, srv, sqPoll, eventStore, sq>>
    BY DEF loopVars
  <1>2. /\ \A id \in Slots : Peer(id)' = Peer(id) /\ Mine(id)' = Mine(id)
        /\ \A o : Current(o)' <=> Current(o)
        /\ \A o : LeftBehind(o)' <=> LeftBehind(o)
    BY <1>1 DEF Peer, Mine, Current, LeftBehind, Gone
  <1>3. /\ ToSet(cq') = ToSet(cq) \cup {e} /\ cq \in Seq(CompletionType)
    <2>1. cq \in Seq(CompletionType)
      BY Types
    <2>2. ToSet(Append(cq, e)) = ToSet(cq) \cup {e}
      BY <2>1, CopiesAppend, Zenon
    <2> QED BY <2>1, <2>2
  <1>4. Proper' /\ SlotsConserved' /\ SocketsHaveSlots' /\ IdleOnesGone'
    BY <1>1 DEF UInv, Proper, SlotsConserved, SocketsHaveSlots, IdleOnesGone, Peer, Gone
  <1>5. WaitingSound'
    <2> SUFFICES ASSUME NEW o \in Waiting'
                 PROVE  \/ Tag(o) \in {AcceptTag("none"), TimerTag}
                        \/ Current(o)' /\ Fits(o)'
                        \/ LeftBehind(o)'
      BY DEF WaitingSound, Tag, AcceptTag, TimerTag
    <2>1. CASE Current(o) /\ Fits(o)
      <3>1. taken'[o.sock] = taken[o.sock]
        BY <2>1
      <3> QED BY <1>1, <1>2, <2>1, <3>1 DEF Fits
    <2> QED BY <1>2, <2>1 DEF UInv, WaitingSound
  <1>6. CompletedSound'
    <2> SUFFICES ASSUME NEW x \in ToSet(cq')
                 PROVE  \/ Tag(x) = TimerTag
                        \/ Tag(x) = AcceptTag("none") /\ x.res = 0
                        \/ \E cl \in Clients : Tag(x) = AcceptTag(cl) /\ x.res = 1 /\ srv'[cl] = "backlog"
                        \/ Current(x)' /\ Reports(x)'
      BY DEF CompletedSound, Tag, AcceptTag, TimerTag
    <2>1. CASE x = e
      BY <1>1, <1>2, <2>1
    <2>2. CASE x \in ToSet(cq) /\ Current(x) /\ Reports(x)
      <3>1. taken'[x.sock] = taken[x.sock]
        BY <2>2
      <3> QED BY <1>1, <1>2, <2>2, <3>1 DEF Reports
    <2> QED BY <1>1, <1>3, <2>1, <2>2 DEF UInv, CompletedSound
  <1>7. Counts'
    <2>1. ASSUME NEW id \in Slots, conns'[id].live PROVE AllCopies(Mine(id))' = 1
      <3>1. AllCopies(Mine(id)) = 1
        BY <1>1, <2>1 DEF UInv, Counts
      <3>2. PICK what, sock : Mine(id) = <<what, id, sock>>
        BY DEF Mine
      <3>3. AllCopies(<<what, id, sock>>)' = 1
        BY <3>1, <3>2
      <3>4. Mine(id)' = <<what, id, sock>>
        BY <1>2, <3>2
      <3> QED BY <3>3, <3>4 DEF AllCopies
    <2>2. AllCopies(TimerTag)' <= 1
      BY DEF UInv, Counts
    <2> QED BY <2>1, <2>2 DEF Counts
  <1>8. Listening'
    <2> SUFFICES ASSUME ~sqPoll
                 PROVE  \/ \E o \in ToSet(inflight') : o.op = "accept"
                        \/ \E x \in ToSet(cq') : x.op = "accept" /\ ~x.more
      BY <1>1 DEF Listening, UInv
    <2> QED BY <1>3 DEF UInv, Listening
  <1>9. ClosesBeforeTimer'
    <2> SUFFICES ASSUME NEW j \in DOMAIN cq', Tag(cq'[j]) = TimerTag, NEW i \in Slots,
                        Sweepable(conns'[i]), eventStore'[i] = "close"
                 PROVE  \E k \in 1 .. j - 1 : Tag(cq'[k]) = Mine(i)'
      BY DEF ClosesBeforeTimer, Tag, TimerTag, Sweepable
    <2>0. Sweepable(conns[i]) /\ eventStore[i] = "close" /\ Mine(i)' = Mine(i)
      BY <1>1, <1>2
    <2>1. /\ Len(cq) \in Nat /\ DOMAIN cq = 1 .. Len(cq) /\ DOMAIN cq' = 1 .. Len(cq) + 1
          /\ \A k \in 1 .. Len(cq) : cq'[k] = cq[k]
          /\ cq'[Len(cq) + 1] = e
      BY <1>3
    <2>2. CASE j \in 1 .. Len(cq)
      <3>1. PICK k \in 1 .. j - 1 : Tag(cq[k]) = Mine(i)
        BY <2>0, <2>1, <2>2 DEF UInv, ClosesBeforeTimer
      <3>2. k \in 1 .. Len(cq)
        BY <2>1, <2>2
      <3> QED BY <2>0, <2>1, <3>1, <3>2
    <2>3. CASE j = Len(cq) + 1
      <3>1. Tag(e) = TimerTag
        BY <2>1, <2>3
      <3>2. \A o \in Waiting : o.op # "close"
        <4>1. \A cl : AcceptTag(cl) # TimerTag
          BY DEF AcceptTag, TimerTag
        <4>2. ~Current(e)
          BY <3>1, Types DEF Current, Tag, TimerTag
        <4> QED BY <3>1, <4>1, <4>2
      <3>3. \A o \in Waiting : Tag(o) # Mine(i)
        BY <3>2 DEF Tag, Mine
      <3>4. Copies(sq, Mine(i)) = 0 /\ Copies(inflight, Mine(i)) = 0
        BY <3>3, Types, CopiesType DEF Waiting
      <3>5. Copies(cq, Mine(i)) # 0
        <4>1. conns[i].live
          BY <2>0 DEF Sweepable
        <4> QED BY <3>4, <4>1, OnlyOne
      <3>6. PICK x \in ToSet(cq) : Tag(x) = Mine(i)
        BY <1>3, <3>5, CopiesType
      <3>7. PICK k \in 1 .. Len(cq) : cq[k] = x
        BY <2>1 DEF ToSet
      <3>8. k \in 1 .. j - 1
        BY <2>1, <2>3
      <3> QED BY <2>0, <2>1, <3>6, <3>7, <3>8
    <2> QED BY <2>1, <2>2, <2>3
  <1> QED BY <1>4, <1>5, <1>6, <1>7, <1>8, <1>9 DEF UInv

\* An operation that completes moves from the kernel to the completion queue.
LEMMA Completes ==
    ASSUME UInv, NEW i \in DOMAIN inflight, NEW res \in Nat, Complete(i, res), UNCHANGED sq,
           NEW o, o = inflight[i], NEW e, e = Completion(o, res)
    PROVE  /\ o \in OpType /\ o \in Waiting /\ e \in CompletionType /\ Tag(e) = Tag(o)
           /\ e.op = o.op /\ e.id = o.id /\ e.sock = o.sock /\ e.off = o.off /\ e.res = res /\ ~e.more
           /\ inflight' \in Seq(OpType) /\ cq' = Append(cq, e) /\ cq' \in Seq(CompletionType)
           /\ Waiting' \subseteq Waiting
           /\ ToSet(inflight) = ToSet(inflight') \cup {o}
           /\ \A t : AllCopies(t)' = AllCopies(t)
           /\ \A t : Copies(cq', t) = Copies(cq, t) + IF Tag(o) = t THEN 1 ELSE 0
           /\ Copies(inflight, Tag(o)) # 0
           /\ \A x \in Waiting' : Tag(x) = Tag(o) => AllCopies(Tag(o)) > 1
  <1>1. /\ inflight \in Seq(OpType) /\ i \in 1 .. Len(inflight) /\ cq \in Seq(CompletionType)
        /\ sq \in Seq(OpType)
    BY Types
  <1>2. inflight' = RemoveAt(inflight, i) /\ cq' = Append(cq, e) /\ sq' = sq
    BY DEF Complete
  <1>3. /\ inflight' \in Seq(OpType) /\ o \in OpType /\ o \in ToSet(inflight)
        /\ ToSet(inflight) = ToSet(inflight') \cup {o}
    BY <1>1, <1>2, CopiesRemove
  <1>4. \A t : Copies(inflight, t) = Copies(inflight', t) + IF Tag(o) = t THEN 1 ELSE 0
    BY <1>1, <1>2, CopiesRemove
  <1>5. /\ e \in CompletionType /\ Tag(e) = Tag(o) /\ e.op = o.op /\ e.id = o.id /\ e.sock = o.sock
        /\ e.off = o.off /\ e.res = res /\ ~e.more
    BY <1>3 DEF Completion, CompletionType, OpType, Tag
  <1>6. cq' \in Seq(CompletionType)
    <2>1. Append(cq, e) \in Seq(CompletionType)
      BY <1>1, <1>5, CopiesAppend
    <2> QED BY <1>2, <2>1
  <1>7. \A t : Copies(cq', t) = Copies(cq, t) + IF Tag(o) = t THEN 1 ELSE 0
    <2> TAKE t
    <2>1. Copies(Append(cq, e), t) = Copies(cq, t) + IF Tag(e) = t THEN 1 ELSE 0
      BY <1>1, <1>5, CopiesAppend
    <2> QED BY <1>2, <1>5, <2>1
  <1>8. \A t : /\ Copies(inflight', t) \in Nat /\ Copies(cq', t) \in Nat
               /\ Copies(sq, t) \in Nat /\ Copies(cq, t) \in Nat /\ Copies(inflight, t) \in Nat
    BY <1>1, <1>3, <1>6, CopiesType
  <1>9. \A t : AllCopies(t)' = AllCopies(t)
    <2> TAKE t
    <2>1. AllCopies(t)' = Copies(sq, t) + Copies(inflight', t) + Copies(cq', t)
      BY <1>2 DEF AllCopies
    <2>2. AllCopies(t) = Copies(sq, t) + Copies(inflight, t) + Copies(cq, t)
      BY DEF AllCopies
    <2>3. Copies(inflight, t) = Copies(inflight', t) + IF Tag(o) = t THEN 1 ELSE 0
      BY <1>4
    <2>4. Copies(cq', t) = Copies(cq, t) + IF Tag(o) = t THEN 1 ELSE 0
      BY <1>7
    <2>5. /\ Copies(inflight', t) \in Nat /\ Copies(cq, t) \in Nat /\ Copies(sq, t) \in Nat
      BY <1>8
    <2> QED BY <2>1, <2>2, <2>3, <2>4, <2>5
  <1>10. Waiting' = ToSet(sq) \cup ToSet(inflight')
    BY <1>2 DEF Waiting
  <1>11. Copies(inflight, Tag(o)) # 0
    BY <1>4, <1>8
  <1>12. ASSUME NEW x \in Waiting', Tag(x) = Tag(o) PROVE AllCopies(Tag(o)) > 1
    <2>1. Copies(sq, Tag(o)) # 0 \/ Copies(inflight', Tag(o)) # 0
      BY <1>1, <1>3, <1>10, <1>12, CopiesType
    <2>2. Copies(inflight, Tag(o)) = Copies(inflight', Tag(o)) + 1
      BY <1>4
    <2>3. /\ Copies(inflight', Tag(o)) \in Nat /\ Copies(cq, Tag(o)) \in Nat
          /\ Copies(sq, Tag(o)) \in Nat
      BY <1>8
    <2> QED BY <2>1, <2>2, <2>3 DEF AllCopies
  <1> QED BY <1>2, <1>3, <1>5, <1>6, <1>7, <1>9, <1>10, <1>11, <1>12 DEF Waiting

\* Nothing else that is waited for concerns the socket of what completes.
LEMMA Alone ==
    ASSUME UInv, NEW i \in DOMAIN inflight, NEW res \in Nat, Complete(i, res), UNCHANGED sq,
           NEW o, o = inflight[i], Current(o),
           NEW x \in Waiting' \cup ToSet(cq), Current(x), x.sock = o.sock
    PROVE  FALSE
  <1>0. PICK e : e = Completion(o, res)
    OBVIOUS
  <1>1. /\ Copies(inflight, Tag(o)) # 0
        /\ \A y \in Waiting' : Tag(y) = Tag(o) => AllCopies(Tag(o)) > 1
    BY <1>0, Completes
  <1>2. Tag(x) = Tag(o)
    BY SameSocket
  <1>3. o.id \in Slots /\ conns[o.id].live /\ Tag(o) = Mine(o.id)
    BY DEF Current
  <1>4. AllCopies(Tag(o)) = 1
    BY <1>3, OnlyOne
  <1>5. CASE x \in Waiting'
    BY <1>1, <1>2, <1>4, <1>5
  <1>6. CASE x \in ToSet(cq)
    <2>1. Copies(cq, Tag(o)) # 0
      BY <1>2, <1>6, Types, CopiesType
    <2>2. /\ Copies(sq, Tag(o)) \in Nat /\ Copies(inflight, Tag(o)) \in Nat
          /\ Copies(cq, Tag(o)) \in Nat
      BY Numbers
    <2> QED BY <1>1, <1>4, <2>1, <2>2 DEF AllCopies
  <1> QED BY <1>5, <1>6

\* What the accept and the timer are not: the operation of a connection.
LEMMA TagsDiffer ==
    ASSUME UInv
    PROVE  /\ \A id \in Slots : \A what, sock :
                 <<what, id, sock>> # TimerTag /\ \A cl : <<what, id, sock>> # AcceptTag(cl)
           /\ \A cl : AcceptTag(cl) # TimerTag
           /\ \A cl \in Clients : AcceptTag(cl) # AcceptTag("none")
           /\ \A o : Current(o) => Tag(o) # TimerTag /\ \A cl : Tag(o) # AcceptTag(cl)
           /\ \A o : Current(o) => o.sock = Peer(o.id) /\ o.sock \in Clients /\ o.op = eventStore[o.id]
                                   /\ o.op \in {"recv", "send", "close"}
  <1>1. 0 \notin Slots
    BY Types
  <1>2. \A id \in Slots : \A what, sock :
           <<what, id, sock>> # TimerTag /\ \A cl : <<what, id, sock>> # AcceptTag(cl)
    BY <1>1 DEF TimerTag, AcceptTag
  <1>3. \A cl : AcceptTag(cl) # TimerTag
    BY DEF TimerTag, AcceptTag
  <1>4. \A cl \in Clients : AcceptTag(cl) # AcceptTag("none")
    BY SocketAssumption DEF AcceptTag
  <1>5. ASSUME NEW o, Current(o)
        PROVE  /\ Tag(o) # TimerTag /\ \A cl : Tag(o) # AcceptTag(cl)
               /\ o.sock = Peer(o.id) /\ o.sock \in Clients /\ o.op = eventStore[o.id]
               /\ o.op \in {"recv", "send", "close"}
    <2>1. /\ o.id \in Slots /\ conns[o.id].live
          /\ o.op = eventStore[o.id] /\ o.sock = Peer(o.id)
      BY <1>5 DEF Current, Tag, Mine
    <2>2. o.sock \in Clients /\ o.op \in {"recv", "send", "close"}
      BY <2>1 DEF UInv, SocketsHaveSlots
    <2>3. Tag(o) # TimerTag /\ \A cl : Tag(o) # AcceptTag(cl)
      BY <1>2, <2>1 DEF Tag
    <2> QED BY <2>1, <2>2, <2>3
  <1> QED BY <1>2, <1>3, <1>4, <1>5

\* The kernel completes the operation of a connection.
LEMMA CurrentCompletes ==
    ASSUME UInv, NEW i \in DOMAIN inflight, NEW res \in Nat, Complete(i, res),
           UNCHANGED <<loopVars, sqPoll, eventStore, sq>>, NEW o, o = inflight[i], Current(o),
           taken' \in [Clients -> Nat], \A cl \in Clients : cl # o.sock => taken'[cl] = taken[cl],
           BytesMove', NEW e, e = Completion(o, res), Reports(e)'
    PROVE  UInv'
  <1>1. /\ e \in CompletionType /\ Tag(e) = Tag(o) /\ e.op = o.op /\ e.id = o.id
        /\ e.sock = o.sock /\ ~e.more
        /\ inflight' \in Seq(OpType) /\ cq' = Append(cq, e) /\ cq' \in Seq(CompletionType)
        /\ Waiting' \subseteq Waiting /\ ToSet(inflight) = ToSet(inflight') \cup {o}
    BY Completes
  <1>2. \A t : AllCopies(t)' = AllCopies(t)
    BY Completes
  <1>3. \A t : Copies(cq', t) = Copies(cq, t) + IF Tag(o) = t THEN 1 ELSE 0
    BY Completes
  <1>4. TypeOK'
    BY <1>1 DEF UInv, TypeOK, LoopTypeOK, loopVars
  <1>5. \A id \in Slots : \A what, sock : AllCopies(<<what, id, sock>>)' = AllCopies(<<what, id, sock>>)
    BY <1>2
  <1>6. AllCopies(TimerTag)' = AllCopies(TimerTag)
    BY <1>2 DEF TimerTag
  <1>7. \A cl \in Clients : Copies(cq, AcceptTag(cl))' <= 1
    <2> SUFFICES ASSUME NEW cl \in Clients PROVE Copies(cq', AcceptTag(cl)) <= 1
      BY DEF AcceptTag
    <2>1. Copies(cq, AcceptTag(cl)) <= 1 /\ Copies(cq, AcceptTag(cl)) \in Nat
      BY Numbers DEF UInv, Counts
    <2>2. Tag(o) # AcceptTag(cl)
      BY TagsDiffer
    <2> QED BY <1>3, <2>1, <2>2
  <1>8. o.op # "accept"
    BY TagsDiffer
  <1>9. \A x \in ToSet(inflight) : x.op = "accept" => x \in ToSet(inflight')
    BY <1>1, <1>8
  <1>10. \A x \in Waiting' \cup ToSet(cq) : Current(x) => taken'[x.sock] = taken[x.sock]
    <2> SUFFICES ASSUME NEW x \in Waiting' \cup ToSet(cq), Current(x)
                 PROVE  taken'[x.sock] = taken[x.sock]
      OBVIOUS
    <2>1. x.sock # o.sock
      BY Alone
    <2>2. x.sock \in Clients
      BY TagsDiffer
    <2> QED BY <2>1, <2>2
  <1>11. Current(e) /\ Reports(e)'
    BY <1>1 DEF Current
  <1> QED BY <1>1, <1>4, <1>5, <1>6, <1>7, <1>9, <1>10, <1>11, KernelKeeps

\* KernelReceives keeps the invariant: what it moves to the buffer belongs
\* there, and a receive that is left behind has nothing to move.
LEMMA ReceivesKeeps == ASSUME UInv, NEW cl \in Clients, KernelReceives(cl) PROVE UInv'
  <1>found. PICK i \in DOMAIN inflight :
               LET n == MinOf(sent[cl] - taken[cl], inflight[i].len)
               IN  /\ inflight[i].op = "recv" /\ inflight[i].sock = cl
                   /\ n > 0 \/ ended[cl] \in {"fin", "rst"}
                   /\ Complete(i, n) /\ taken' = [taken EXCEPT ![cl] = @ + n]
    BY DEF KernelReceives
  <1>op. PICK o : o = inflight[i]
    OBVIOUS
  <1>moved. PICK n : n = MinOf(sent[cl] - taken[cl], o.len)
    OBVIOUS
  <1>done. PICK e : e = Completion(o, n)
    OBVIOUS
  <1>1. /\ i \in DOMAIN inflight /\ o = inflight[i] /\ o.op = "recv" /\ o.sock = cl
        /\ n = MinOf(sent[cl] - taken[cl], o.len)
        /\ n > 0 \/ ended[cl] \in {"fin", "rst"}
        /\ Complete(i, n) /\ taken' = [taken EXCEPT ![cl] = @ + n] /\ e = Completion(o, n)
    BY <1>found, <1>op, <1>moved, <1>done
  <1>2. UNCHANGED <<loopVars, sqPoll, eventStore, sq>>
    BY DEF KernelReceives
  <1>3. o \in Waiting /\ o \in OpType
    <2>1. o \in ToSet(inflight)
      BY <1>1 DEF ToSet
    <2> QED BY <2>1, Elements DEF Waiting
  <1>4. o.len \in Nat /\ sent[cl] \in Nat /\ taken[cl] \in Nat /\ read[cl] \in Nat
        /\ read[cl] <= taken[cl] /\ taken[cl] <= sent[cl]
    BY <1>3, Types DEF OpType, UInv, BytesMove
  <1>5. n \in Nat /\ n <= sent[cl] - taken[cl] /\ n <= o.len
        /\ (n = 0 => sent[cl] = taken[cl] \/ o.len = 0)
    BY <1>1, <1>4 DEF MinOf
  <1>6. ~LeftBehind(o)
    <2> SUFFICES ASSUME Gone(cl), srv[cl] = "closed" PROVE FALSE
      BY <1>1 DEF LeftBehind
    <2>1. read[cl] = sent[cl] /\ ended[cl] = "gone"
      BY DEF UInv, BytesMove, Gone
    <2> QED BY <1>1, <1>4, <1>5, <2>1
  <1>7. Current(o) /\ Fits(o)
    <2>1. Tag(o) \notin {AcceptTag("none"), TimerTag}
      BY <1>1 DEF Tag, AcceptTag, TimerTag
    <2> QED BY <1>3, <1>6, <2>1 DEF UInv, WaitingSound
  <1>8. srv[cl] = "open"
    <2>1. o.id \in Slots /\ conns[o.id].live /\ eventStore[o.id] = "recv" /\ Peer(o.id) = cl
      BY <1>1, <1>7, TagsDiffer DEF Current
    <2> QED BY <2>1 DEF UInv, SocketsHaveSlots
  <1>9. /\ taken' \in [Clients -> Nat] /\ taken'[cl] = taken[cl] + n
        /\ \A me \in Clients : me # cl => taken'[me] = taken[me]
    BY <1>1, <1>4, <1>5, Types
  <1>10. BytesMove'
    <2> SUFFICES ASSUME NEW me \in Clients
                 PROVE  /\ read[me] <= taken'[me] /\ taken'[me] <= sent[me]
                        /\ Gone(me) => read[me] = sent[me]
                        /\ srv[me] # "open" => read[me] = taken'[me]
      BY <1>2 DEF BytesMove, loopVars, Gone
    <2>1. CASE me = cl
      BY <1>4, <1>5, <1>8, <1>9, <2>1 DEF UInv, BytesMove
    <2>2. CASE me # cl
      BY <1>9, <2>2 DEF UInv, BytesMove
    <2> QED BY <2>1, <2>2
  <1>11. e.op = "recv" /\ e.id = o.id /\ e.sock = cl /\ e.off = o.off /\ e.res = n
    BY <1>1 DEF Completion
  <1>12. Reports(e)'
    <2>1. /\ taken[cl] = read[cl] /\ conns[o.id].state = "reading" /\ o.off = Len(conns[o.id].buf)
          /\ o.len = RecvCap - Len(conns[o.id].buf) /\ o.len > 0
      BY <1>1, <1>7 DEF Fits
    <2>2. n = 0 => ended[cl] \in {"fin", "rst"} /\ read[cl] = sent[cl]
      BY <1>1, <1>5, <2>1
    <2>3. taken'[cl] = read[cl] + n
      BY <1>9, <2>1
    <2> QED BY <1>2, <1>5, <1>11, <2>1, <2>2, <2>3 DEF Reports, loopVars
  <1> QED BY <1>1, <1>2, <1>5, <1>7, <1>9, <1>10, <1>12, CurrentCompletes

\* KernelSends and KernelCloses keep the invariant.
LEMMA SendsKeeps == ASSUME UInv, NEW cl \in Clients, KernelSends(cl) \/ KernelCloses(cl) PROVE UInv'
  <1>some. \E i \in DOMAIN inflight : \E n \in Nat :
           /\ inflight[i].op \in {"send", "close"} /\ inflight[i].sock = cl
           /\ inflight[i].op = "send" => n <= inflight[i].len /\ (n = 0 => ended[cl] = "rst")
           /\ Complete(i, n)
    <2>1. CASE KernelSends(cl)
      <3>1. PICK i \in DOMAIN inflight :
               /\ inflight[i].op = "send" /\ inflight[i].sock = cl
               /\ \E n \in 0 .. inflight[i].len : /\ n = 0 <=> ended[cl] = "rst"
                                                  /\ Complete(i, n)
        BY <2>1 DEF KernelSends
      <3>2. PICK n \in 0 .. inflight[i].len : (n = 0 <=> ended[cl] = "rst") /\ Complete(i, n)
        BY <3>1
      <3>3. inflight[i].len \in Nat
        <4>1. inflight[i] \in OpType
          BY Types
        <4> QED BY <4>1 DEF OpType
      <3>4. n \in Nat /\ n <= inflight[i].len
        BY <3>3
      <3> WITNESS i \in DOMAIN inflight
      <3> WITNESS n \in Nat
      <3> QED BY <3>1, <3>2, <3>4
    <2>2. CASE KernelCloses(cl)
      <3>1. PICK i \in DOMAIN inflight :
               inflight[i].op = "close" /\ inflight[i].sock = cl /\ Complete(i, 0)
        BY <2>2 DEF KernelCloses
      <3> WITNESS i \in DOMAIN inflight
      <3> WITNESS 0 \in Nat
      <3> QED BY <3>1
    <2> QED BY <2>1, <2>2
  <1>found. PICK i \in DOMAIN inflight, n \in Nat :
           /\ inflight[i].op \in {"send", "close"} /\ inflight[i].sock = cl
           /\ inflight[i].op = "send" => n <= inflight[i].len /\ (n = 0 => ended[cl] = "rst")
           /\ Complete(i, n)
    BY <1>some
  <1>op. PICK o : o = inflight[i]
    OBVIOUS
  <1>done. PICK e : e = Completion(o, n)
    OBVIOUS
  <1>1. /\ o = inflight[i] /\ o.op \in {"send", "close"} /\ o.sock = cl
        /\ o.op = "send" => n <= o.len /\ (n = 0 => ended[cl] = "rst")
        /\ Complete(i, n) /\ e = Completion(o, n)
    BY <1>found, <1>op, <1>done
  <1>2. UNCHANGED <<loopVars, sqPoll, eventStore, sq, taken>>
    BY DEF KernelSends, KernelCloses
  <1>3. o \in Waiting /\ o \in OpType
    <2>1. o \in ToSet(inflight)
      BY <1>1 DEF ToSet
    <2> QED BY <2>1, Elements DEF Waiting
  <1>4. Current(o) /\ Fits(o)
    <2>1. Tag(o) \notin {AcceptTag("none"), TimerTag}
      BY <1>1 DEF Tag, AcceptTag, TimerTag
    <2>2. ~LeftBehind(o)
      BY <1>1 DEF LeftBehind
    <2> QED BY <1>3, <2>1, <2>2 DEF UInv, WaitingSound
  <1>5. BytesMove'
    BY <1>2 DEF UInv, BytesMove, loopVars, Gone
  <1>6. e.op = o.op /\ e.id = o.id /\ e.sock = cl /\ e.off = o.off /\ e.res = n
    BY <1>1 DEF Completion
  <1>7. Reports(e)'
    <2>1. taken[cl] = read[cl]
      BY <1>1, <1>4 DEF Fits
    <2>2. taken[cl] = read[cl] + IF o.op = "recv" THEN n ELSE 0
      BY <1>1, <2>1, Types
    <2>3. o.op = "send" => /\ conns[o.id].state = "writing" /\ n <= conns[o.id].sendLen - conns[o.id].sendOff
                           /\ n = 0 => ended[cl] = "rst"
      BY <1>1, <1>4 DEF Fits
    <2> QED BY <1>1, <1>2, <1>6, <2>2, <2>3 DEF Reports, loopVars
  <1> QED BY <1>1, <1>2, <1>4, <1>5, <1>7, Types, CurrentCompletes

\* AcceptFails and TimerExpires keep the invariant: what the timer finds closing
\* has been closed before.
LEMMA OthersKeep == ASSUME UInv, AcceptFails \/ TimerExpires PROVE UInv'
  <1>some. \E i \in DOMAIN inflight :
           /\ inflight[i].op \in {"accept", "timeout"} /\ Complete(i, 0)
           /\ inflight[i].op = "timeout" => \A x \in ToSet(sq \o inflight) : x.op # "close"
    BY DEF AcceptFails, TimerExpires
  <1>found. PICK i \in DOMAIN inflight :
           /\ inflight[i].op \in {"accept", "timeout"} /\ Complete(i, 0)
           /\ inflight[i].op = "timeout" => \A x \in ToSet(sq \o inflight) : x.op # "close"
    BY <1>some
  <1>op. PICK o : o = inflight[i]
    OBVIOUS
  <1>done. PICK e : e = Completion(o, 0)
    OBVIOUS
  <1>1. UNCHANGED <<loopVars, sqPoll, eventStore, sq, taken>> /\ 0 \in Nat
    BY DEF AcceptFails, TimerExpires
  <1>2. /\ o \in Waiting /\ e \in CompletionType /\ Tag(e) = Tag(o) /\ e.op = o.op
        /\ e.res = 0 /\ ~e.more
        /\ inflight' \in Seq(OpType) /\ cq' = Append(cq, e) /\ cq' \in Seq(CompletionType)
        /\ Waiting' \subseteq Waiting /\ ToSet(inflight) = ToSet(inflight') \cup {o}
    BY <1>found, <1>op, <1>done, <1>1, Completes
  <1>3. \A t : AllCopies(t)' = AllCopies(t)
    BY <1>found, <1>op, <1>done, <1>1, Completes
  <1>4. \A t : Copies(cq', t) = Copies(cq, t) + IF Tag(o) = t THEN 1 ELSE 0
    BY <1>found, <1>op, <1>done, <1>1, Completes
  <1>5. Tag(o) = IF o.op = "accept" THEN AcceptTag("none") ELSE TimerTag
    <2>1. ~LeftBehind(o) /\ ~Current(o)
      BY <1>found, <1>op, TagsDiffer DEF LeftBehind
    <2>2. Tag(o) \in {AcceptTag("none"), TimerTag}
      BY <1>2, <2>1 DEF UInv, WaitingSound
    <2> QED BY <1>found, <1>op, <2>2 DEF Tag, AcceptTag, TimerTag
  <1>6. TypeOK' /\ BytesMove'
    BY <1>1, <1>2 DEF UInv, TypeOK, LoopTypeOK, BytesMove, loopVars, Gone
  <1>7. \A id \in Slots : \A what, sock : AllCopies(<<what, id, sock>>)' = AllCopies(<<what, id, sock>>)
    BY <1>3
  <1>8. AllCopies(TimerTag)' = AllCopies(TimerTag)
    BY <1>3 DEF TimerTag
  <1>9. \A cl \in Clients : Copies(cq, AcceptTag(cl))' <= 1
    <2> SUFFICES ASSUME NEW cl \in Clients PROVE Copies(cq', AcceptTag(cl)) <= 1
      BY DEF AcceptTag
    <2>1. Copies(cq, AcceptTag(cl)) <= 1 /\ Copies(cq, AcceptTag(cl)) \in Nat
      BY Numbers DEF UInv, Counts
    <2>2. Tag(o) # AcceptTag(cl)
      BY <1>5, TagsDiffer
    <2> QED BY <1>4, <2>1, <2>2
  <1>10. \/ \A x \in ToSet(inflight) : x.op = "accept" => x \in ToSet(inflight')
         \/ e.op = "accept" /\ ~e.more
    BY <1>found, <1>op, <1>2
  <1>11. \/ Tag(e) = TimerTag /\ \A x \in Waiting : x.op # "close"
         \/ Tag(e) = AcceptTag("none") /\ e.res = 0
    <2>1. CASE o.op = "timeout"
      <3>1. sq \in Seq(OpType) /\ inflight \in Seq(OpType)
        BY Types
      <3>2. ToSet(sq \o inflight) = Waiting
        BY <3>1, ElementsJoin, ZenonT(60) DEF Waiting
      <3> QED BY <1>found, <1>op, <1>2, <1>5, <2>1, <3>2
    <2>2. CASE o.op = "accept"
      BY <1>2, <1>5, <2>2
    <2> QED BY <1>found, <1>op, <2>1, <2>2
  <1> QED BY <1>1, <1>2, <1>6, <1>7, <1>8, <1>9, <1>10, <1>11, KernelKeeps

\* KernelAccepts keeps the invariant: a client is accepted once.
LEMMA AcceptsKeeps == ASSUME UInv, NEW cl \in Clients, KernelAccepts(cl) PROVE UInv'
  <1>1. PICK i \in DOMAIN inflight, more \in BOOLEAN :
           /\ inflight[i].op = "accept"
           /\ cq' = Append(cq, [Completion(AcceptOp, 1) EXCEPT !.sock = cl, !.more = more])
           /\ inflight' = IF more THEN inflight ELSE RemoveAt(inflight, i)
    BY DEF KernelAccepts
  <1>2. /\ UNCHANGED <<loopVars, sqPoll, eventStore, sq, taken>> /\ srv[cl] = "backlog"
        /\ \A j \in DOMAIN cq : ~(cq[j].op = "accept" /\ cq[j].sock = cl)
    BY DEF KernelAccepts
  <1>3. PICK e : e = [Completion(AcceptOp, 1) EXCEPT !.sock = cl, !.more = more]
    OBVIOUS
  <1>4. /\ e.op = "accept" /\ e.id = 0 /\ e.sock = cl /\ e.res = 1 /\ e.more = more
        /\ e \in CompletionType /\ Tag(e) = AcceptTag(cl)
    BY <1>3 DEF Completion, AcceptOp, Op, CompletionType, Tag, AcceptTag
  <1>5. inflight \in Seq(OpType) /\ cq \in Seq(CompletionType) /\ i \in 1 .. Len(inflight)
    BY Types
  <1>6. /\ inflight' \in Seq(OpType) /\ ToSet(inflight') \subseteq ToSet(inflight)
        /\ more => inflight' = inflight
    <2>1. RemoveAt(inflight, i) \in Seq(OpType) /\ ToSet(RemoveAt(inflight, i)) \subseteq ToSet(inflight)
      BY <1>5, CopiesRemove
    <2> QED BY <1>1, <1>5, <2>1
  <1>7. Tag(inflight[i]) = AcceptTag("none")
    <2>1. inflight[i] \in Waiting
      BY <1>5 DEF Waiting, ToSet
    <2>2. ~LeftBehind(inflight[i]) /\ ~Current(inflight[i])
      BY <1>1, TagsDiffer DEF LeftBehind
    <2>3. Tag(inflight[i]) \in {AcceptTag("none"), TimerTag}
      BY <2>1, <2>2 DEF UInv, WaitingSound
    <2> QED BY <1>1, <2>3 DEF Tag, TimerTag
  <1>8. cq' \in Seq(CompletionType) /\ cq' = Append(cq, e)
    <2>1. Append(cq, e) \in Seq(CompletionType)
      BY <1>4, <1>5, CopiesAppend
    <2> QED BY <1>1, <1>3, <2>1
  <1>9. ASSUME NEW t, t # AcceptTag("none"), t # AcceptTag(cl)
        PROVE  AllCopies(t)' = AllCopies(t) /\ Copies(cq', t) = Copies(cq, t)
    <2>1. Copies(Append(cq, e), t) = Copies(cq, t) + IF Tag(e) = t THEN 1 ELSE 0
      BY <1>4, <1>5, CopiesAppend
    <2>2. Copies(inflight, t) = Copies(RemoveAt(inflight, i), t) + IF Tag(inflight[i]) = t THEN 1 ELSE 0
      BY <1>5, CopiesRemove
    <2>3. Copies(inflight, t) \in Nat /\ Copies(cq, t) \in Nat /\ Copies(RemoveAt(inflight, i), t) \in Nat
      <3>1. RemoveAt(inflight, i) \in Seq(OpType)
        BY <1>5, CopiesRemove
      <3> QED BY <1>5, <3>1, CopiesType
    <2>4. Copies(cq', t) = Copies(cq, t)
      BY <1>4, <1>8, <1>9, <2>1, <2>3
    <2>5. Copies(inflight', t) = Copies(inflight, t)
      BY <1>1, <1>7, <1>9, <2>2, <2>3
    <2>6. AllCopies(t)' = Copies(sq', t) + Copies(inflight', t) + Copies(cq', t)
      BY DEF AllCopies
    <2> QED BY <1>2, <2>4, <2>5, <2>6 DEF AllCopies
  <1>10. Copies(cq', AcceptTag(cl)) <= 1
    <2>1. Copies(Append(cq, e), AcceptTag(cl)) = Copies(cq, AcceptTag(cl))
                 + IF Tag(e) = AcceptTag(cl) THEN 1 ELSE 0
      BY <1>4, <1>5, CopiesAppend
    <2>2. \A x \in ToSet(cq) : Tag(x) # AcceptTag(cl)
      BY <1>2 DEF ToSet, Tag, AcceptTag
    <2>3. Copies(cq, AcceptTag(cl)) = 0
      BY <1>5, <2>2, CopiesType
    <2> QED BY <1>4, <1>8, <2>1, <2>3
  <1>11. \A me \in Clients : Copies(cq, AcceptTag(me))' <= 1
    <2> SUFFICES ASSUME NEW me \in Clients PROVE Copies(cq', AcceptTag(me)) <= 1
      BY DEF AcceptTag
    <2>1. CASE me = cl
      BY <1>10, <2>1
    <2>2. CASE me # cl
      <3>1. AcceptTag(me) # AcceptTag(cl) /\ AcceptTag(me) # AcceptTag("none")
        BY <2>2, TagsDiffer DEF AcceptTag
      <3>2. Copies(cq', AcceptTag(me)) = Copies(cq, AcceptTag(me))
        BY <1>9, <3>1
      <3> QED BY <3>2 DEF UInv, Counts
    <2> QED BY <2>1, <2>2
  <1>12. \A id \in Slots : \A what, sock : AllCopies(<<what, id, sock>>)' = AllCopies(<<what, id, sock>>)
    <2> TAKE id \in Slots
    <2> TAKE what, sock
    <2>1. PICK t : t = <<what, id, sock>>
      OBVIOUS
    <2>2. t # AcceptTag("none") /\ t # AcceptTag(cl)
      BY <2>1, TagsDiffer
    <2> QED BY <1>9, <2>1, <2>2
  <1>13. AllCopies(TimerTag)' = AllCopies(TimerTag)
    <2>1. PICK t : t = TimerTag
      OBVIOUS
    <2>2. t # AcceptTag("none") /\ t # AcceptTag(cl)
      BY <2>1, TagsDiffer
    <2>3. AllCopies(t)' = AllCopies(t)
      BY <1>9, <2>2
    <2> QED BY <2>1, <2>3 DEF TimerTag
  <1>14. TypeOK' /\ BytesMove'
    BY <1>2, <1>6, <1>8 DEF UInv, TypeOK, LoopTypeOK, BytesMove, loopVars, Gone
  <1>15. Waiting' \subseteq Waiting
    BY <1>2, <1>6 DEF Waiting
  <1>16. \/ \A x \in ToSet(inflight) : x.op = "accept" => x \in ToSet(inflight')
         \/ e.op = "accept" /\ ~e.more
    BY <1>4, <1>6
  <1> QED BY <1>2, <1>4, <1>8, <1>11, <1>12, <1>13, <1>14, <1>15, <1>16, KernelKeeps

\* SqThread keeps the invariant: an entry only changes hands.
LEMMA SqThreadKeeps == ASSUME UInv, SqThread PROVE UInv'
  <1>1. /\ sq # << >> /\ inflight' = Append(inflight, Head(sq)) /\ sq' = Tail(sq)
        /\ UNCHANGED <<conns, freeList, sent, read, ended, got, srv, sqPoll, eventStore, cq, taken>>
    BY DEF SqThread, loopVars
  <1>2. sq \in Seq(OpType) /\ inflight \in Seq(OpType) /\ cq \in Seq(CompletionType)
    BY Types
  <1>3. /\ sq' \in Seq(OpType) /\ Head(sq) \in OpType /\ ToSet(sq) = ToSet(sq') \cup {Head(sq)}
    BY <1>1, <1>2, CopiesTail
  <1>4. inflight' \in Seq(OpType) /\ ToSet(inflight') = ToSet(inflight) \cup {Head(sq)}
    <2>0. PICK h : h = Head(sq)
      OBVIOUS
    <2>1. Append(inflight, h) \in Seq(OpType)
      BY <1>2, <1>3, <2>0, CopiesAppend
    <2>2. ToSet(Append(inflight, h)) = ToSet(inflight) \cup {h}
      <3>1. inflight \in Seq(OpType) /\ h \in OpType
        BY <1>2, <1>3, <2>0
      <3> QED BY <3>1, CopiesAppend, Zenon
    <2> QED BY <1>1, <2>0, <2>1, <2>2
  <1>5. Waiting' = Waiting
    BY <1>3, <1>4 DEF Waiting
  <1>6. \A t : AllCopies(t)' = AllCopies(t)
    <2> TAKE t
    <2>1. Copies(sq, t) = Copies(sq', t) + IF Tag(Head(sq)) = t THEN 1 ELSE 0
      BY <1>1, <1>2, CopiesTail
    <2>2. Copies(Append(inflight, Head(sq)), t) = Copies(inflight, t) + IF Tag(Head(sq)) = t THEN 1 ELSE 0
      BY <1>2, <1>3, CopiesAppend
    <2>3. Copies(sq', t) \in Nat /\ Copies(inflight, t) \in Nat /\ Copies(cq, t) \in Nat
      BY <1>2, <1>3, CopiesType
    <2>4. AllCopies(t)' = Copies(sq', t) + Copies(inflight', t) + Copies(cq, t)
      BY <1>1 DEF AllCopies
    <2> QED BY <1>1, <2>1, <2>2, <2>3, <2>4 DEF AllCopies
  <1>7. TypeOK'
    BY <1>1, <1>3, <1>4 DEF UInv, TypeOK, LoopTypeOK
  <1>8. /\ \A id \in Slots : Peer(id)' = Peer(id) /\ Mine(id)' = Mine(id)
        /\ \A o : Current(o)' <=> Current(o)
    BY <1>1 DEF Peer, Mine, Current
  <1>9. /\ Proper' /\ SlotsConserved' /\ SocketsHaveSlots' /\ IdleOnesGone' /\ BytesMove'
    BY <1>1 DEF UInv, Proper, SlotsConserved, SocketsHaveSlots, IdleOnesGone, BytesMove, Peer, Gone
  <1>10. WaitingSound'
    BY <1>1, <1>5, <1>8 DEF UInv, WaitingSound, LeftBehind, Fits, Gone, Tag, AcceptTag, TimerTag
  <1>11. CompletedSound'
    BY <1>1, <1>8 DEF UInv, CompletedSound, Reports, Tag, AcceptTag, TimerTag
  <1>12. Counts'
    <2>1. ASSUME NEW id \in Slots, conns'[id].live PROVE AllCopies(Mine(id))' = 1
      <3>1. AllCopies(Mine(id)) = 1
        BY <1>1, <2>1 DEF UInv, Counts
      <3>2. PICK t : t = Mine(id)
        OBVIOUS
      <3>3. AllCopies(t)' = 1
        BY <1>6, <3>1, <3>2
      <3>4. Mine(id)' = t
        BY <1>8, <3>2
      <3> QED BY <3>3, <3>4 DEF AllCopies
    <2>2. AllCopies(TimerTag)' <= 1
      <3>1. AllCopies(TimerTag)' = AllCopies(TimerTag)
        BY <1>6 DEF TimerTag
      <3> QED BY <3>1 DEF UInv, Counts
    <2>3. \A cl \in Clients : Copies(cq, AcceptTag(cl))' <= 1
      BY <1>1 DEF UInv, Counts, AcceptTag
    <2> QED BY <2>1, <2>2, <2>3 DEF Counts
  <1>13. Listening'
    BY <1>1 DEF UInv, Listening
  <1>14. ClosesBeforeTimer'
    <2> SUFFICES ASSUME NEW j \in DOMAIN cq, Tag(cq[j]) = TimerTag, NEW i \in Slots,
                        Sweepable(conns[i]), eventStore[i] = "close"
                 PROVE  \E k \in 1 .. j - 1 : Tag(cq[k]) = Mine(i)
      BY <1>1, <1>8 DEF ClosesBeforeTimer, Tag, TimerTag, Sweepable
    <2> QED BY DEF UInv, ClosesBeforeTimer
  <1> QED BY <1>7, <1>9, <1>10, <1>11, <1>12, <1>13, <1>14 DEF UInv

-----------------------------------------------------------------------------
(* Clients and time                                                        *)

\* A client alone moves: what was reported of it stays true.
LEMMA ClientKeeps ==
    ASSUME UInv, TypeOK', UNCHANGED <<conns, freeList, read, got, ringVars>>,
           \A cl \in Clients : srv'[cl] = srv[cl] \/ (srv[cl] = "none" /\ srv'[cl] = "backlog"),
           \A cl \in Clients : sent'[cl] = sent[cl] \/ (ended[cl] = "no" /\ sent[cl] <= sent'[cl]),
           \A cl \in Clients : ended'[cl] = "gone" <=> ended[cl] = "gone",
           \A cl \in Clients : ended[cl] = "rst" => ended'[cl] = "rst",
           \A cl \in Clients : ended[cl] = "fin" => ended'[cl] \in {"fin", "rst"}
    PROVE  UInv'
  <1>1. UNCHANGED <<conns, freeList, read, got, sqPoll, eventStore, sq, inflight, cq, taken>>
    BY DEF ringVars
  <1>2. /\ \A id \in Slots : Peer(id)' = Peer(id) /\ Mine(id)' = Mine(id)
        /\ \A o : Current(o)' <=> Current(o)
        /\ \A t : AllCopies(t)' = AllCopies(t)
        /\ \A sock : Gone(sock)' <=> Gone(sock)
    BY <1>1 DEF Peer, Mine, Current, AllCopies, Gone
  <1>3. Waiting' = Waiting /\ \A o : LeftBehind(o) => LeftBehind(o)'
    <2>1. ASSUME NEW o, LeftBehind(o) PROVE LeftBehind(o)'
      <3>1. o.sock \in Clients /\ srv[o.sock] = "closed"
        BY <2>1 DEF LeftBehind, Gone
      <3>2. srv'[o.sock] = "closed"
        BY <3>1
      <3> QED BY <1>2, <2>1, <3>2 DEF LeftBehind
    <2> QED BY <1>1, <2>1 DEF Waiting
  <1>4. /\ Proper' /\ SlotsConserved'
    BY <1>1 DEF UInv, Proper, SlotsConserved
  <1>5. SocketsHaveSlots'
    <2>1. \A id \in Slots : conns[id].live => srv'[Peer(id)] = srv[Peer(id)]
      BY DEF UInv, SocketsHaveSlots
    <2>2. \A cl \in Clients : srv'[cl] = "open" => srv[cl] = "open"
      OBVIOUS
    <2> QED BY <1>1, <2>1, <2>2 DEF UInv, SocketsHaveSlots, Peer
  <1>6. IdleOnesGone'
    BY <1>1, <1>2 DEF UInv, IdleOnesGone
  <1>7. BytesMove'
    <2> SUFFICES ASSUME NEW cl \in Clients
                 PROVE  /\ read[cl] <= taken[cl] /\ taken[cl] <= sent'[cl]
                        /\ Gone(cl) => read[cl] = sent'[cl]
                        /\ srv'[cl] # "open" => read[cl] = taken[cl]
      BY <1>1, <1>2 DEF BytesMove
    <2>1. /\ read[cl] <= taken[cl] /\ taken[cl] <= sent[cl]
          /\ Gone(cl) => read[cl] = sent[cl]
          /\ srv[cl] # "open" => read[cl] = taken[cl]
      BY DEF UInv, BytesMove
    <2>2. taken[cl] \in Nat /\ sent[cl] \in Nat /\ sent'[cl] \in Nat
      BY Types DEF TypeOK, LoopTypeOK
    <2>3. Gone(cl) => sent'[cl] = sent[cl]
      BY DEF Gone
    <2>4. sent[cl] <= sent'[cl]
      BY <2>2
    <2> QED BY <2>1, <2>2, <2>3, <2>4
  <1>8. WaitingSound'
    <2> SUFFICES ASSUME NEW o \in Waiting
                 PROVE  \/ Tag(o) \in {AcceptTag("none"), TimerTag}
                        \/ Current(o)' /\ Fits(o)'
                        \/ LeftBehind(o)'
      BY <1>3 DEF WaitingSound, Tag, AcceptTag, TimerTag
    <2>1. Fits(o)' <=> Fits(o)
      BY <1>1 DEF Fits
    <2> QED BY <1>2, <1>3, <2>1 DEF UInv, WaitingSound
  <1>9. CompletedSound'
    <2> SUFFICES ASSUME NEW x \in ToSet(cq)
                 PROVE  \/ Tag(x) = TimerTag
                        \/ Tag(x) = AcceptTag("none") /\ x.res = 0
                        \/ \E cl \in Clients : Tag(x) = AcceptTag(cl) /\ x.res = 1 /\ srv'[cl] = "backlog"
                        \/ Current(x)' /\ Reports(x)'
      BY <1>1 DEF CompletedSound, Tag, AcceptTag, TimerTag
    <2>1. ASSUME Current(x), Reports(x) PROVE Reports(x)'
      <3>1. x.sock \in Clients
        BY <2>1, TagsDiffer
      <3>2. ended[x.sock] = "rst" => ended'[x.sock] = "rst"
        BY <3>1
      <3>3. ended[x.sock] = "fin" => ended'[x.sock] \in {"fin", "rst"} /\ sent'[x.sock] = sent[x.sock]
        BY <3>1
      <3> QED BY <1>1, <2>1, <3>2, <3>3 DEF Reports
    <2>2. \A cl \in Clients : srv[cl] = "backlog" => srv'[cl] = "backlog"
      OBVIOUS
    <2> QED BY <1>2, <2>1, <2>2 DEF UInv, CompletedSound
  <1>10. Counts'
    <2>1. \A id \in Slots : conns'[id].live => AllCopies(Mine(id))' = 1
      BY <1>1 DEF UInv, Counts, AllCopies, Mine, Peer
    <2>2. AllCopies(TimerTag)' <= 1 /\ \A cl \in Clients : Copies(cq, AcceptTag(cl))' <= 1
      BY <1>1 DEF UInv, Counts, AllCopies, TimerTag, AcceptTag
    <2> QED BY <2>1, <2>2 DEF Counts
  <1>11. Listening'
    BY <1>1 DEF UInv, Listening, AllCopies, TimerTag
  <1>12. ClosesBeforeTimer'
    BY <1>1 DEF UInv, ClosesBeforeTimer, Tag, TimerTag, Mine, Peer
  <1> QED BY <1>4, <1>5, <1>6, <1>7, <1>8, <1>9, <1>10, <1>11, <1>12 DEF UInv

\* What connects, writes, finishes or resets keeps the invariant.
LEMMA ActsKeep ==
    ASSUME UInv, NEW me \in Clients, Connect(me) \/ Write(me) \/ Finish(me) \/ Reset(me),
           UNCHANGED ringVars
    PROVE  UInv'
  <1>1. UNCHANGED <<conns, freeList, read, got, ringVars>>
    BY DEF Connect, Write, Finish, Reset
  <1>2. CASE Connect(me)
    <2>1. /\ srv[me] = "none" /\ srv' = [srv EXCEPT ![me] = "backlog"] /\ UNCHANGED <<sent, ended>>
      BY <1>2 DEF Connect
    <2>2. TypeOK'
      BY <1>1, <2>1 DEF UInv, TypeOK, LoopTypeOK, ringVars
    <2>3. \A cl \in Clients : srv'[cl] = srv[cl] \/ (srv[cl] = "none" /\ srv'[cl] = "backlog")
      BY <2>1, Types
    <2> QED BY <1>1, <2>1, <2>2, <2>3, ClientKeeps
  <1>3. CASE Write(me)
    <2>1. ended[me] = "no" /\ sent' = [sent EXCEPT ![me] = @ + 1] /\ UNCHANGED <<srv, ended>>
      BY <1>3 DEF Write
    <2>2. sent' \in [Clients -> Nat]
      BY <2>1, Types
    <2>3. TypeOK'
      BY <1>1, <2>1, <2>2 DEF UInv, TypeOK, LoopTypeOK, ringVars
    <2>4. \A cl \in Clients : sent'[cl] = sent[cl] \/ (ended[cl] = "no" /\ sent[cl] <= sent'[cl])
      BY <2>1, Types
    <2> QED BY <1>1, <2>1, <2>3, <2>4, ClientKeeps
  <1>4. CASE Finish(me) \/ Reset(me)
    <2>1. /\ UNCHANGED <<sent, srv>>
          /\ \/ ended[me] = "no" /\ ended' = [ended EXCEPT ![me] = "fin"]
             \/ ended[me] \in {"no", "fin"} /\ ended' = [ended EXCEPT ![me] = "rst"]
      BY <1>4 DEF Finish, Reset
    <2>2. TypeOK'
      BY <1>1, <2>1 DEF UInv, TypeOK, LoopTypeOK, ringVars
    <2>3. /\ \A cl \in Clients : ended'[cl] = "gone" <=> ended[cl] = "gone"
          /\ \A cl \in Clients : ended[cl] = "rst" => ended'[cl] = "rst"
          /\ \A cl \in Clients : ended[cl] = "fin" => ended'[cl] \in {"fin", "rst"}
      BY <2>1, Types
    <2> QED BY <1>1, <2>1, <2>2, <2>3, ClientKeeps
  <1> QED BY <1>2, <1>3, <1>4

\* The idle timeout elapses: of who is gone nothing was left to receive.
LEMMA IdleKeeps ==
    ASSUME UInv, QuietPeers, NEW me \in Clients, IdleElapses(me), UNCHANGED ringVars
    PROVE  UInv'
  <1>1. PICK id \in SlotOf(me) : ~conns[id].idle /\ conns' = [conns EXCEPT ![id].idle = TRUE]
    BY DEF IdleElapses
  <1>2. /\ UNCHANGED <<freeList, sent, read, got, srv, sqPoll, eventStore, sq, inflight, cq, taken>>
        /\ srv[me] = "open" /\ ended[me] \in {"no", "gone"} /\ read[me] = sent[me]
        /\ ended' = [ended EXCEPT ![me] = "gone"]
    BY DEF IdleElapses, QuietPeers, ringVars
  <1>3. id \in Slots /\ conns[id].live /\ Peer(id) = me /\ conns[id] \in ConnRecord
    BY Types DEF SlotOf, Peer
  <1>4. PICK c : c = [conns[id] EXCEPT !.idle = TRUE]
    OBVIOUS
  <1>5. /\ c \in ConnRecord /\ Sound(c) /\ c.live /\ c.sock = me /\ c.state = conns[id].state
        /\ c.buf = conns[id].buf /\ c.sendOff = conns[id].sendOff /\ c.sendLen = conns[id].sendLen
    <2>1. Sound(conns[id]) /\ conns[id].sock = me
      BY <1>3, Types DEF Peer
    <2>2. /\ c \in ConnRecord /\ c.live = conns[id].live /\ c.sock = conns[id].sock /\ c.state = conns[id].state
          /\ c.buf = conns[id].buf /\ c.sendOff = conns[id].sendOff /\ c.sendLen = conns[id].sendLen
      BY <1>3, <1>4 DEF ConnRecord
    <2> QED BY <1>3, <2>1, <2>2 DEF Sound
  <1>6. conns' \in [Slots -> ConnRecord] /\ conns'[id] = c /\ \A i \in Slots : i # id => conns'[i] = conns[i]
    BY <1>1, <1>3, <1>4, <1>5, Types
  <1>7. \A i \in Slots : /\ conns'[i].live = conns[i].live /\ conns'[i].sock = conns[i].sock
                         /\ conns'[i].state = conns[i].state /\ conns'[i].buf = conns[i].buf
                         /\ conns'[i].sendOff = conns[i].sendOff /\ conns'[i].sendLen = conns[i].sendLen
    <2> TAKE i \in Slots
    <2>1. CASE i = id
      BY <1>3, <1>5, <1>6, <2>1 DEF Peer
    <2>2. CASE i # id
      BY <1>6, <2>2
    <2> QED BY <2>1, <2>2
  <1>8. /\ \A i \in Slots : Peer(i)' = Peer(i) /\ Mine(i)' = Mine(i)
        /\ \A o : Current(o)' <=> Current(o)
        /\ \A t : AllCopies(t)' = AllCopies(t)
        /\ Waiting' = Waiting
    BY <1>2, <1>7 DEF Peer, Mine, Current, AllCopies, Waiting
  <1>9. /\ \A cl \in Clients : cl # me => ended'[cl] = ended[cl]
        /\ ended'[me] = "gone" /\ ended' \in [Clients -> {"no", "fin", "rst", "gone"}]
        /\ \A cl : Gone(cl) => Gone(cl)'
    BY <1>2, Types DEF Gone
  <1>10. Proper'
    BY <1>5, <1>6 DEF UInv, Proper
  <1>11. TypeOK'
    <2>1. \A i \in Slots : Len(conns'[i].buf) <= RecvCap /\ conns'[i].sendOff <= conns'[i].sendLen
      BY <1>10 DEF Proper, Sound
    <2> QED BY <1>2, <1>6, <1>9, <2>1 DEF UInv, TypeOK, LoopTypeOK
  <1>12. SlotsConserved' /\ SocketsHaveSlots'
    BY <1>2, <1>7 DEF UInv, SlotsConserved, SocketsHaveSlots, Peer
  <1>13. IdleOnesGone'
    <2>1. ASSUME NEW i \in Slots, conns'[i].live, conns'[i].idle PROVE Gone(Peer(i))'
      <3>1. CASE i = id
        BY <1>3, <1>8, <1>9, <3>1 DEF Gone
      <3>2. CASE i # id
        <4>1. Gone(Peer(i))
          BY <1>6, <2>1, <3>2 DEF UInv, IdleOnesGone
        <4> QED BY <1>8, <1>9, <4>1 DEF Gone
      <3> QED BY <3>1, <3>2
    <2> QED BY <2>1 DEF IdleOnesGone
  <1>14. BytesMove'
    <2> SUFFICES ASSUME NEW cl \in Clients
                 PROVE  /\ read[cl] <= taken[cl] /\ taken[cl] <= sent[cl]
                        /\ ended'[cl] = "gone" => read[cl] = sent[cl]
                        /\ srv[cl] # "open" => read[cl] = taken[cl]
      BY <1>2 DEF BytesMove, Gone
    <2> QED BY <1>2, <1>9 DEF UInv, BytesMove, Gone
  <1>15. WaitingSound'
    <2> SUFFICES ASSUME NEW o \in Waiting
                 PROVE  \/ Tag(o) \in {AcceptTag("none"), TimerTag}
                        \/ Current(o)' /\ Fits(o)'
                        \/ LeftBehind(o)'
      BY <1>8 DEF WaitingSound, Tag, AcceptTag, TimerTag
    <2>1. Current(o) /\ Fits(o) => Fits(o)'
      BY <1>2, <1>7 DEF Fits, Current
    <2>2. LeftBehind(o) => LeftBehind(o)'
      BY <1>2, <1>9 DEF LeftBehind, Gone
    <2> QED BY <1>8, <2>1, <2>2 DEF UInv, WaitingSound
  <1>16. CompletedSound'
    <2> SUFFICES ASSUME NEW x \in ToSet(cq)
                 PROVE  \/ Tag(x) = TimerTag
                        \/ Tag(x) = AcceptTag("none") /\ x.res = 0
                        \/ \E cl \in Clients : Tag(x) = AcceptTag(cl) /\ x.res = 1 /\ srv[cl] = "backlog"
                        \/ Current(x)' /\ Reports(x)'
      BY <1>2 DEF CompletedSound, Tag, AcceptTag, TimerTag
    <2>1. ASSUME Current(x), Reports(x) PROVE Reports(x)'
      <3>1. x.sock \in Clients /\ x.id \in Slots
        BY <2>1, TagsDiffer DEF Current
      <3>2. CASE x.sock = me
        <4>1. ended[x.sock] \notin {"fin", "rst"}
          BY <1>2, <3>2
        <4> QED BY <1>2, <1>7, <2>1, <3>1, <4>1 DEF Reports
      <3>3. CASE x.sock # me
        <4>1. ended'[x.sock] = ended[x.sock]
          BY <1>9, <3>1, <3>3
        <4> QED BY <1>2, <1>7, <2>1, <3>1, <4>1 DEF Reports
      <3> QED BY <3>2, <3>3
    <2> QED BY <1>8, <2>1 DEF UInv, CompletedSound
  <1>17. Counts'
    <2>1. \A i \in Slots : conns'[i].live => AllCopies(Mine(i))' = 1
      BY <1>2, <1>7 DEF UInv, Counts, AllCopies, Mine, Peer
    <2>2. AllCopies(TimerTag)' <= 1 /\ \A cl \in Clients : Copies(cq, AcceptTag(cl))' <= 1
      BY <1>2 DEF UInv, Counts, AllCopies, TimerTag, AcceptTag
    <2> QED BY <2>1, <2>2 DEF Counts
  <1>18. Listening'
    BY <1>2 DEF UInv, Listening, AllCopies, TimerTag
  <1>19. ClosesBeforeTimer'
    <2> SUFFICES ASSUME NEW j \in DOMAIN cq, Tag(cq[j]) = TimerTag, NEW i \in Slots,
                        Sweepable(conns'[i]), eventStore[i] = "close"
                 PROVE  \E k \in 1 .. j - 1 : Tag(cq[k]) = Mine(i)
      BY <1>2, <1>8 DEF ClosesBeforeTimer, Tag, TimerTag, Sweepable
    <2>1. i # id
      <3>1. conns[i].live
        BY <1>7 DEF Sweepable
      <3>2. srv[Peer(i)] = "closed"
        BY <3>1 DEF UInv, SocketsHaveSlots
      <3> QED BY <1>2, <1>3, <3>2
    <2> QED BY <1>6, <2>1 DEF UInv, ClosesBeforeTimer
  <1> QED BY <1>10, <1>11, <1>12, <1>13, <1>14, <1>15, <1>16, <1>17, <1>18, <1>19 DEF UInv

-----------------------------------------------------------------------------
(* The thread                                                              *)

\* The next completion is the one its connection waits for, and nothing else is
\* outstanding for that slot but a receive that is left behind.
LEMMA NextIsCurrent ==
    ASSUME UInv, NEW type \in {"recv", "send", "close"}, Next_cqe(type), NEW e, e = Head(cq)
    PROVE  /\ cq # << >> /\ cq' = Tail(cq) /\ sqPoll' = sqPoll
           /\ Current(e) /\ Reports(e) /\ e.op = type /\ e.res \in Nat
           /\ e.id \in Slots /\ conns[e.id].live /\ e.sock = Peer(e.id) /\ e.sock \in Clients
           /\ eventStore[e.id] = type
           /\ \A o \in Waiting : o.id = e.id => LeftBehind(o)
           /\ \A x \in ToSet(cq') : x.id # e.id
  <1>1. /\ cq # << >> /\ cq' = Tail(cq) /\ sqPoll' = sqPoll
        /\ type = IF e.id = 0 THEN e.op ELSE eventStore[e.id]
    BY DEF Next_cqe
  <1>2. /\ e \in CompletionType /\ e \in ToSet(cq) /\ ToSet(cq) = ToSet(cq') \cup {e}
    BY <1>1, TakenOff
  <1>3. \A t : Copies(cq, t) = Copies(cq', t) + IF Tag(e) = t THEN 1 ELSE 0
    BY <1>1, TakenOff
  <1>4. \A t : Copies(cq', t) \in Nat
    BY <1>1, TakenOff
  <1>5. Current(e) /\ Reports(e)
    <2>1. Tag(e) # TimerTag /\ \A cl : Tag(e) # AcceptTag(cl)
      <3>1. e.op \in {"accept", "timeout"} => e.id # 0
        BY <1>1
      <3> QED BY <3>1 DEF Tag, TimerTag, AcceptTag
    <2> QED BY <1>2, <2>1 DEF UInv, CompletedSound
  <1>6. /\ e.id \in Slots /\ conns[e.id].live /\ e.sock = Peer(e.id) /\ e.sock \in Clients
        /\ e.op = eventStore[e.id] /\ Tag(e) = Mine(e.id)
    BY <1>5, TagsDiffer DEF Current
  <1>7. e.op = type /\ eventStore[e.id] = type
    <2>1. e.id # 0
      BY <1>6, Types
    <2> QED BY <1>1, <1>6, <2>1
  <1>8. Copies(cq, Mine(e.id)) + Copies(sq, Mine(e.id)) + Copies(inflight, Mine(e.id)) = 1
    BY <1>6, OnlyOne
  <1>9. /\ Copies(cq, Mine(e.id)) \in Nat /\ Copies(sq, Mine(e.id)) \in Nat
        /\ Copies(inflight, Mine(e.id)) \in Nat
    BY Numbers
  <1>10. /\ Copies(cq', Mine(e.id)) = 0 /\ Copies(sq, Mine(e.id)) = 0
         /\ Copies(inflight, Mine(e.id)) = 0
    <2>1. Copies(cq, Mine(e.id)) = Copies(cq', Mine(e.id)) + 1 /\ Copies(cq', Mine(e.id)) \in Nat
      BY <1>3, <1>4, <1>6
    <2> QED BY <1>8, <1>9, <2>1
  <1>11. ASSUME NEW o \in Waiting, o.id = e.id PROVE LeftBehind(o)
    <2>1. Tag(o) # Mine(e.id)
      <3>1. o \in ToSet(sq) \/ o \in ToSet(inflight)
        BY DEF Waiting
      <3>2. sq \in Seq(OpType) /\ inflight \in Seq(OpType)
        BY Types
      <3> QED BY <1>10, <3>1, <3>2, CopiesType
    <2>2. ~Current(o)
      BY <1>11, <2>1 DEF Current
    <2>3. Tag(o) \notin {AcceptTag("none"), TimerTag}
      <3>1. o.id # 0
        BY <1>6, <1>11, Types
      <3> QED BY <3>1 DEF Tag, AcceptTag, TimerTag
    <2> QED BY <2>2, <2>3 DEF UInv, WaitingSound
  <1>12. ASSUME NEW x \in ToSet(cq') PROVE x.id # e.id
    <2> SUFFICES ASSUME x.id = e.id PROVE FALSE
      OBVIOUS
    <2>1. Tag(x) # Mine(e.id)
      <3>1. cq' \in Seq(CompletionType)
        BY <1>1, TakenOff
      <3> QED BY <1>10, <3>1, CopiesType
    <2>2. ~Current(x)
      BY <2>1 DEF Current
    <2>3. Tag(x) # TimerTag /\ \A cl : Tag(x) # AcceptTag(cl)
      <3>1. x.id # 0
        BY <1>6, Types
      <3> QED BY <3>1 DEF Tag, AcceptTag, TimerTag
    <2>4. x \in ToSet(cq)
      BY <1>2
    <2> QED BY <2>2, <2>3, <2>4 DEF UInv, CompletedSound
  <1>13. e.res \in Nat
    BY <1>2 DEF CompletionType
  <1> QED BY <1>1, <1>5, <1>6, <1>7, <1>11, <1>12, <1>13

\* The accept and the timer are taken for what they are.
LEMMA NextIsShared ==
    ASSUME UInv, NEW type \in {"accept", "timeout"}, Next_cqe(type), NEW e, e = Head(cq)
    PROVE  /\ cq # << >> /\ cq' = Tail(cq) /\ sqPoll' = sqPoll /\ e.id = 0 /\ e.op = type
           /\ type = "timeout" => Tag(e) = TimerTag
           /\ type = "accept" =>
                 \/ Tag(e) = AcceptTag("none") /\ e.res = 0
                 \/ e.sock \in Clients /\ Tag(e) = AcceptTag(e.sock) /\ e.res = 1 /\ srv[e.sock] = "backlog"
  <1>1. /\ cq # << >> /\ cq' = Tail(cq) /\ sqPoll' = sqPoll
        /\ type = IF e.id = 0 THEN e.op ELSE eventStore[e.id]
    BY DEF Next_cqe
  <1>2. e \in ToSet(cq)
    BY <1>1, TakenOff
  <1>3. ~Current(e)
    <2> SUFFICES ASSUME Current(e) PROVE FALSE
      OBVIOUS
    <2>1. e.id \in Slots /\ eventStore[e.id] \in {"recv", "send", "close"}
      BY TagsDiffer DEF Current
    <2>2. e.id # 0
      BY <2>1, Types
    <2> QED BY <1>1, <2>1, <2>2
  <1>4. \/ Tag(e) = TimerTag
        \/ Tag(e) = AcceptTag("none") /\ e.res = 0
        \/ \E cl \in Clients : Tag(e) = AcceptTag(cl) /\ e.res = 1 /\ srv[cl] = "backlog"
    BY <1>2, <1>3 DEF UInv, CompletedSound
  <1>5. e.id = 0 /\ e.op = type
    <2>1. e.id = 0
      BY <1>4 DEF Tag, TimerTag, AcceptTag
    <2> QED BY <1>1, <2>1
  <1>6. type = "timeout" => Tag(e) = TimerTag
    BY <1>4, <1>5 DEF Tag, TimerTag, AcceptTag
  <1>7. type = "accept" =>
           \/ Tag(e) = AcceptTag("none") /\ e.res = 0
           \/ e.sock \in Clients /\ Tag(e) = AcceptTag(e.sock) /\ e.res = 1 /\ srv[e.sock] = "backlog"
    BY <1>4, <1>5 DEF Tag, TimerTag, AcceptTag
  <1> QED BY <1>1, <1>5, <1>6, <1>7

\* A connection whose completion is handled ends, and its slot is free: after a
\* close, and where acquire_sqe fails.
LEMMA DestroyKeeps ==
    ASSUME UInv, NEW id \in Slots, conns[id].live, cq # << >>, cq' = Tail(cq),
           Head(cq).id = id, Head(cq).op # "accept",
           \A o \in Waiting : o.id = id => LeftBehind(o), \A x \in ToSet(cq') : x.id # id,
           NEW c, Sound(c), ~c.live, conns' = [conns EXCEPT ![id] = c], FreeConnIds({id}),
           srv' = [srv EXCEPT ![Peer(id)] = "closed"],
           UNCHANGED <<sqPoll, sent, ended, taken, eventStore, sq, inflight>>,
           read' \in [Clients -> Nat], read'[Peer(id)] = taken[Peer(id)],
           \A cl \in Clients : cl # Peer(id) => read'[cl] = read[cl],
           got' \in [Clients -> [req : Nat, unit : 1 .. RespLen]]
    PROVE  UInv'
  <1>0. /\ conns \in [Slots -> ConnRecord] /\ srv \in [Clients -> {"none", "backlog", "open", "closed"}]
        /\ c \in ConnRecord /\ Peer(id) \in Clients /\ srv[Peer(id)] \in {"open", "closed"}
        /\ \A i \in Slots : conns[i].live /\ i # id => Peer(i) \in Clients /\ Peer(i) # Peer(id)
        /\ id # 0
    BY Types DEF Sound, UInv, SocketsHaveSlots
  <1>1. /\ conns' \in [Slots -> ConnRecord] /\ conns'[id] = c
        /\ \A i \in Slots : i # id => conns'[i] = conns[i]
    BY <1>0
  <1>2. /\ srv' \in [Clients -> {"none", "backlog", "open", "closed"}] /\ srv'[Peer(id)] = "closed"
        /\ \A cl \in Clients : cl # Peer(id) => srv'[cl] = srv[cl]
    BY <1>0
  <1>3. cq' \in Seq(CompletionType)
    BY TakenOff
  <1>4. Proper'
    BY <1>1 DEF UInv, Proper
  <1>5. SlotsConserved' /\ freeList' \in Seq(Slots)
    <2>1. /\ freeList \in Seq(Slots) /\ IsInjective(freeList)
          /\ ToSet(freeList) = {i \in Slots : ~conns[i].live}
      BY Types DEF UInv, SlotsConserved
    <2>2. {id} \in SUBSET Slots /\ {id} \cap ToSet(freeList) = {}
      BY <2>1
    <2>3. /\ freeList' \in Seq(Slots) /\ IsInjective(freeList')
          /\ ToSet(freeList') = ToSet(freeList) \cup {id}
      BY <2>1, <2>2, FreeReturns, ZenonT(60) DEF FreeConnIds
    <2>4. {i \in Slots : ~conns'[i].live} = {i \in Slots : ~conns[i].live} \cup {id}
      BY <1>1
    <2> QED BY <2>1, <2>3, <2>4 DEF SlotsConserved
  <1>6. TypeOK'
    <2>1. \A i \in Slots : Len(conns'[i].buf) <= RecvCap /\ conns'[i].sendOff <= conns'[i].sendLen
      BY <1>4 DEF Proper, Sound
    <2> QED BY <1>1, <1>2, <1>3, <1>5, <2>1 DEF UInv, TypeOK, LoopTypeOK
  <1>7. BytesMove'
    <2> SUFFICES ASSUME NEW cl \in Clients
                 PROVE  /\ read'[cl] <= taken[cl] /\ taken[cl] <= sent[cl]
                        /\ Gone(cl) => read'[cl] = sent[cl]
                        /\ srv'[cl] # "open" => read'[cl] = taken[cl]
      BY DEF BytesMove, Gone
    <2>1. /\ read[cl] <= taken[cl] /\ taken[cl] <= sent[cl]
          /\ Gone(cl) => read[cl] = sent[cl]
          /\ srv[cl] # "open" => read[cl] = taken[cl]
          /\ taken[cl] \in Nat /\ sent[cl] \in Nat /\ read[cl] \in Nat
      BY Types DEF UInv, BytesMove
    <2>2. CASE cl = Peer(id)
      BY <2>1, <2>2
    <2>3. CASE cl # Peer(id)
      BY <1>2, <2>1, <2>3
    <2> QED BY <2>2, <2>3
  <1> DEFINE T == {id}
  <1>8. T \in SUBSET Slots
    OBVIOUS
  <1>9. Takes(<< >>)
    <2>1. << >> \in Seq(OpType)
      OBVIOUS
    <2>2. sq \in Seq(OpType) /\ inflight \in Seq(OpType)
      BY Types
    <2>3. sq \o << >> = sq /\ inflight \o << >> = inflight
      BY <2>2
    <2>4. Submit(<< >>)
      BY <2>3 DEF Submit
    <2> QED BY <2>1, <2>4 DEF Takes
  <1>10. Rest(T)
    BY <1>0, <1>1, <1>2 DEF Rest
  <1>11. SocketsMove(T)
    BY <1>0, <1>1, <1>2 DEF SocketsMove, Peer
  <1>12. Over(T)
    <2>1. ASSUME NEW o \in Waiting, o.id \in T PROVE LeftBehind(o)'
      <3>1. LeftBehind(o) /\ o.sock \in Clients
        BY <2>1 DEF LeftBehind, Gone
      <3>2. srv'[o.sock] = "closed"
        BY <1>2, <3>1 DEF LeftBehind
      <3> QED BY <3>1, <3>2 DEF LeftBehind, Gone
    <2> QED BY <2>1 DEF Over
  <1>13. GoesOn(T, << >>)
    BY <1>1 DEF GoesOn
  <1>14. Submits(T, << >>)
    <2>1. ToSet(<< >>) = {} /\ Copies(<< >>, TimerTag) = 0
      <3>1. << >> \in Seq(OpType) /\ ToSet(<< >>) = {}
        BY DEF ToSet
      <3> QED BY <3>1, CopiesType
    <2>2. Tag(Head(cq)) # TimerTag
      BY <1>0 DEF Tag, TimerTag
    <2> QED BY <2>1, <2>2 DEF Submits
  <1> HIDE DEF T
  <1> QED BY <1>4, <1>5, <1>6, <1>7, <1>8, <1>9, <1>10, <1>11, <1>12, <1>13, <1>14, HandledKeeps

\* HandleClose keeps the invariant.
LEMMA CloseKeeps == ASSUME UInv, HandleClose PROVE UInv'
  <1>1. PICK e : e = Head(cq)
    OBVIOUS
  <1>2. /\ Next_cqe("close") /\ conns' = [conns EXCEPT ![e.id] = Destroy(@)] /\ FreeConnIds({e.id})
        /\ UNCHANGED <<sent, read, ended, got, srv, eventStore, sq, inflight, taken>>
    BY <1>1 DEF HandleClose
  <1>3. /\ cq # << >> /\ cq' = Tail(cq) /\ sqPoll' = sqPoll /\ e.op = "close"
        /\ e.id \in Slots /\ conns[e.id].live /\ e.sock = Peer(e.id) /\ e.sock \in Clients
        /\ eventStore[e.id] = "close"
        /\ \A o \in Waiting : o.id = e.id => LeftBehind(o)
        /\ \A x \in ToSet(cq') : x.id # e.id
    BY <1>1, <1>2, NextIsCurrent
  <1>4. PICK id : id = e.id
    OBVIOUS
  <1>5. PICK c : c = Destroy(conns[id])
    OBVIOUS
  <1>6. Sound(c) /\ ~c.live
    BY <1>3, <1>4, <1>5, Types, SlotRecords
  <1>7. srv[Peer(id)] = "closed" /\ srv' = [srv EXCEPT ![Peer(id)] = "closed"]
    <2>1. srv[Peer(id)] = "closed"
      BY <1>3, <1>4 DEF UInv, SocketsHaveSlots
    <2> QED BY <1>2, <2>1, Types
  <1>8. read[Peer(id)] = taken[Peer(id)]
    BY <1>3, <1>4, <1>7 DEF UInv, BytesMove
  <1>9. /\ read' \in [Clients -> Nat] /\ got' \in [Clients -> [req : Nat, unit : 1 .. RespLen]]
        /\ conns' = [conns EXCEPT ![id] = c]
    BY <1>2, <1>4, <1>5, Types
  <1> QED BY <1>1, <1>2, <1>3, <1>4, <1>6, <1>7, <1>8, <1>9, DestroyKeeps

\* A connection whose completion is handled goes on with what its handler
\* returned, or, where acquire_sqe fails, ends.
LEMMA PerformKeeps ==
    ASSUME UInv, NEW id \in Slots, conns[id].live, cq # << >>, cq' = Tail(cq),
           Head(cq).id = id, Head(cq).op \in {"recv", "send"}, eventStore[id] # "close",
           \A o \in Waiting : o.id = id => LeftBehind(o), \A x \in ToSet(cq') : x.id # id,
           NEW h, Perform(id, h), Sound(h.conn), h.conn.live, h.conn.sock = Peer(id),
           h.io \in {"recv", "send", "close"},
           h.io = "recv" => h.conn.state = "reading" /\ Len(h.conn.buf) < RecvCap,
           h.io = "send" => h.conn.state = "writing" /\ h.conn.sendOff < h.conn.sendLen,
           h.io = "close" => ~Sweepable(h.conn), h.conn.idle => conns[id].idle,
           UNCHANGED <<sqPoll, sent, ended, taken>>,
           read' \in [Clients -> Nat], read'[Peer(id)] = taken[Peer(id)],
           \A cl \in Clients : cl # Peer(id) => read'[cl] = read[cl],
           got' \in [Clients -> [req : Nat, unit : 1 .. RespLen]]
    PROVE  UInv'
  <1> DEFINE c == h.conn
             o == OpFor(h.io, id, c)
             T == {id}
             ops == <<o>>
  <1>0. /\ conns \in [Slots -> ConnRecord] /\ srv \in [Clients -> {"none", "backlog", "open", "closed"}]
        /\ eventStore \in [Slots -> {"recv", "send", "close", "accept"}]
        /\ c \in ConnRecord /\ Peer(id) \in Clients /\ srv[Peer(id)] = "open"
        /\ \A i \in Slots : conns[i].live /\ i # id => Peer(i) \in Clients /\ Peer(i) # Peer(id)
        /\ id # 0 /\ RecvCap \in Nat
        /\ Len(c.buf) \in Nat /\ c.sendLen \in Nat /\ c.sendOff \in Nat
    <2>1. /\ conns \in [Slots -> ConnRecord] /\ srv \in [Clients -> {"none", "backlog", "open", "closed"}]
          /\ eventStore \in [Slots -> {"recv", "send", "close", "accept"}] /\ id # 0
      BY Types
    <2>2. /\ Peer(id) \in Clients /\ srv[Peer(id)] = "open"
          /\ \A i \in Slots : conns[i].live /\ i # id => Peer(i) \in Clients /\ Peer(i) # Peer(id)
      BY DEF UInv, SocketsHaveSlots
    <2>3. c \in ConnRecord
      BY DEF Sound
    <2> HIDE DEF c
    <2>4. RecvCap \in Nat /\ Len(c.buf) \in Nat /\ c.sendLen \in Nat /\ c.sendOff \in Nat
      BY <2>3, CapAssumption DEF ConnRecord
    <2> QED BY <2>1, <2>2, <2>3, <2>4
  <1>1. CASE ~Acquirable(1)
    <2>1. /\ conns' = [conns EXCEPT ![id] = Destroy(c)] /\ FreeConnIds({id})
          /\ srv' = [srv EXCEPT ![Peer(id)] = "closed"] /\ UNCHANGED <<eventStore, sq, inflight>>
      BY <1>1 DEF Perform, Closed
    <2>2. PICK d : d = Destroy(c)
      OBVIOUS
    <2>3. Sound(d) /\ ~d.live
      BY <2>2, SlotRecords
    <2>4. Head(cq).op # "accept" /\ conns' = [conns EXCEPT ![id] = d]
      BY <2>1, <2>2
    <2> HIDE DEF c
    <2> QED BY <2>1, <2>3, <2>4, DestroyKeeps
  <1>2. CASE Acquirable(1)
    <2>1. /\ Submit(ops) /\ eventStore' = [eventStore EXCEPT ![id] = h.io]
          /\ conns' = [conns EXCEPT ![id] = c] /\ freeList' = freeList
          /\ IF h.io = "close" THEN srv' = [srv EXCEPT ![Peer(id)] = "closed"] ELSE srv' = srv
      BY <1>2 DEF Perform, Closed
    <2>2. /\ o \in OpType /\ o.op = h.io /\ o.id = id /\ o.sock = Peer(id)
          /\ Tag(o) = <<h.io, id, Peer(id)>>
          /\ h.io = "recv" => o.off = Len(c.buf) /\ o.len = RecvCap - Len(c.buf)
          /\ h.io = "send" => o.len = c.sendLen - c.sendOff
      <3>1. CASE h.io = "recv"
        <4>1. o = [op |-> "recv", id |-> id, sock |-> c.sock, off |-> Len(c.buf), len |-> RecvCap - Len(c.buf)]
          BY <3>1 DEF OpFor, Op
        <4>2. RecvCap - Len(c.buf) \in Nat
          BY <1>0, <3>1
        <4> HIDE DEF c, o
        <4> QED BY <1>0, <3>1, <4>1, <4>2 DEF OpType, Tag, c
      <3>2. CASE h.io = "send"
        <4>1. o = [op |-> "send", id |-> id, sock |-> c.sock, off |-> c.sendOff, len |-> c.sendLen - c.sendOff]
          BY <3>2 DEF OpFor, Op
        <4>2. c.sendLen - c.sendOff \in Nat
          BY <1>0, <3>2
        <4> HIDE DEF c, o
        <4> QED BY <1>0, <3>2, <4>1, <4>2 DEF OpType, Tag, c
      <3>3. CASE h.io = "close"
        <4>1. o = [op |-> "close", id |-> id, sock |-> c.sock, off |-> 0, len |-> 0]
          BY <3>3 DEF OpFor, Op
        <4> HIDE DEF c, o
        <4> QED BY <1>0, <3>3, <4>1 DEF OpType, Tag, c
      <3> QED BY <3>1, <3>2, <3>3
    <2> HIDE DEF o
    <2>3. /\ conns' \in [Slots -> ConnRecord] /\ conns'[id] = c
          /\ \A i \in Slots : i # id => conns'[i] = conns[i]
      BY <1>0, <2>1
    <2>4. /\ eventStore' \in [Slots -> {"recv", "send", "close", "accept"}] /\ eventStore'[id] = h.io
          /\ \A i \in Slots : i # id => eventStore'[i] = eventStore[i]
      BY <1>0, <2>1
    <2>5. /\ srv' \in [Clients -> {"none", "backlog", "open", "closed"}]
          /\ srv'[Peer(id)] = IF h.io = "close" THEN "closed" ELSE "open"
          /\ \A cl \in Clients : cl # Peer(id) => srv'[cl] = srv[cl]
      <3>1. CASE h.io = "close"
        <4>1. srv' = [srv EXCEPT ![Peer(id)] = "closed"]
          BY <2>1, <3>1
        <4> QED BY <1>0, <3>1, <4>1
      <3>2. CASE h.io # "close"
        <4>1. srv' = srv
          BY <2>1, <3>2
        <4> QED BY <1>0, <3>2, <4>1
      <3> QED BY <3>1, <3>2
    <2>6. cq' \in Seq(CompletionType)
      BY TakenOff
    <2>7. /\ ops \in Seq(OpType) /\ ToSet(ops) = {o}
      BY <2>2, CopiesOne
    <2>8. \A t : Copies(ops, t) = IF Tag(o) = t THEN 1 ELSE 0
      BY <2>2, CopiesOne
    <2> HIDE DEF ops
    <2>9. sq' \in Seq(OpType) /\ inflight' \in Seq(OpType)
      BY <2>1, <2>7, Submitted
    <2>10. Proper'
      BY <2>3 DEF UInv, Proper
    <2>11. SlotsConserved'
      BY <2>1, <2>3 DEF UInv, SlotsConserved
    <2>12. TypeOK'
      <3>1. \A i \in Slots : Len(conns'[i].buf) <= RecvCap /\ conns'[i].sendOff <= conns'[i].sendLen
        BY <2>10 DEF Proper, Sound
      <3> QED BY <2>1, <2>3, <2>4, <2>5, <2>6, <2>9, <3>1 DEF UInv, TypeOK, LoopTypeOK
    <2>13. BytesMove'
      <3> SUFFICES ASSUME NEW cl \in Clients
                   PROVE  /\ read'[cl] <= taken[cl] /\ taken[cl] <= sent[cl]
                          /\ Gone(cl) => read'[cl] = sent[cl]
                          /\ srv'[cl] # "open" => read'[cl] = taken[cl]
        BY DEF BytesMove, Gone
      <3>1. /\ read[cl] <= taken[cl] /\ taken[cl] <= sent[cl]
            /\ Gone(cl) => read[cl] = sent[cl]
            /\ srv[cl] # "open" => read[cl] = taken[cl]
            /\ taken[cl] \in Nat /\ sent[cl] \in Nat /\ read[cl] \in Nat
        BY Types DEF UInv, BytesMove
      <3>2. CASE cl = Peer(id)
        BY <3>1, <3>2
      <3>3. CASE cl # Peer(id)
        BY <2>5, <3>1, <3>3
      <3> QED BY <3>2, <3>3
    <2>14. Takes(ops)
      BY <2>1, <2>7 DEF Takes
    <2>15. Rest(T)
      BY <1>0, <2>3, <2>4, <2>5 DEF Rest
    <2>16. SocketsMove(T)
      BY <1>0, <2>3, <2>5 DEF SocketsMove, Peer
    <2>17. Over(T)
      <3>1. ASSUME NEW x \in Waiting, x.id \in T PROVE LeftBehind(x)'
        <4>1. LeftBehind(x) /\ x.sock \in Clients
          BY <3>1 DEF LeftBehind, Gone
        <4>2. srv'[x.sock] = "closed"
          BY <1>0, <2>5, <4>1 DEF LeftBehind
        <4> QED BY <4>1, <4>2 DEF LeftBehind, Gone
      <3> QED BY <3>1 DEF Over
    <2>18. GoesOn(T, ops)
      <3>1. Copies(ops, <<h.io, id, Peer(id)>>) = 1
        BY <2>2, <2>8
      <3>2. c.idle => Gone(Peer(id))
        BY DEF UInv, IdleOnesGone
      <3>3. c.sock = Peer(id) /\ Peer(id) = conns[id].sock
        BY DEF Peer
      <3>4. h.io = "close" => ~Sweepable(c)
        OBVIOUS
      <3> HIDE DEF c
      <3> SUFFICES /\ conns'[id].sock \in Clients /\ eventStore'[id] \in {"recv", "send", "close"}
                   /\ srv'[conns'[id].sock] = IF eventStore'[id] = "close" THEN "closed" ELSE "open"
                   /\ conns[id].live /\ conns'[id].sock = conns[id].sock
                   /\ conns'[id].idle => Gone(conns'[id].sock)
                   /\ Copies(ops, <<eventStore'[id], id, conns'[id].sock>>) = 1
                   /\ eventStore'[id] = "close" => ~Sweepable(conns'[id])
        BY DEF GoesOn
      <3>5. conns'[id] = c /\ eventStore'[id] = h.io /\ c.sock = Peer(id)
        BY <2>3, <2>4, <3>3
      <3>6. srv'[conns'[id].sock] = IF eventStore'[id] = "close" THEN "closed" ELSE "open"
        BY <2>5, <3>5
      <3>7. Copies(ops, <<eventStore'[id], id, conns'[id].sock>>) = 1
        BY <3>1, <3>5
      <3> QED BY <1>0, <3>2, <3>3, <3>4, <3>5, <3>6, <3>7
    <2>19. Submits(T, ops)
      <3>1. Current(o)'
        BY <2>2, <2>3, <2>4 DEF Current, Mine, Peer, Tag
      <3>2. Fits(o)'
        <4>1. taken'[o.sock] = read'[o.sock]
          BY <2>2
        <4>2. h.io = "recv" => o.len > 0
          BY <1>0, <2>2
        <4>3. h.io = "send" => o.len > 0
          BY <1>0, <2>2
        <4>4. conns'[o.id] = c /\ o.op = h.io
          BY <2>2, <2>3
        <4> HIDE DEF c
        <4> QED BY <2>2, <4>1, <4>2, <4>3, <4>4 DEF Fits, c
      <3>3. Tag(Head(cq)) # TimerTag /\ Head(cq).op # "accept"
        BY <1>0 DEF Tag, TimerTag
      <3>4. Copies(ops, TimerTag) = 0
        <4>1. Tag(o) # TimerTag
          BY <1>0, <2>2 DEF TimerTag
        <4> QED BY <2>8, <4>1
      <3>5. \A x \in ToSet(ops) : x.id \in T /\ Current(x)' /\ Fits(x)'
        <4> SUFFICES ASSUME NEW x \in ToSet(ops) PROVE x.id \in T /\ Current(x)' /\ Fits(x)'
          OBVIOUS
        <4>1. x = o /\ o.id \in T
          BY <2>2, <2>7
        <4> QED BY <3>1, <3>2, <4>1 DEF Current, Fits, Tag
      <3> QED BY <3>3, <3>4, <3>5 DEF Submits
    <2>20. T \in SUBSET Slots
      OBVIOUS
    <2> HIDE DEF T
    <2> QED BY <2>10, <2>11, <2>12, <2>13, <2>14, <2>15, <2>16, <2>17, <2>18, <2>19, <2>20, HandledKeeps
  <1> QED BY <1>1, <1>2

\* HandleRecv keeps the invariant: the bytes reported lie behind those that are
\* there, and are all the kernel has moved.
LEMMA RecvKeeps == ASSUME UInv, HandleRecv PROVE UInv'
  <1>1. PICK e : e = Head(cq)
    OBVIOUS
  <1>2. PICK id : id = e.id
    OBVIOUS
  <1>3. PICK c : c = conns[id]
    OBVIOUS
  <1>4. PICK h : h = IF e.res = 0 THEN StartClose(c) ELSE OnRecv(c, Arrived(e, c))
    OBVIOUS
  <1>5. /\ Next_cqe("recv") /\ read' = [read EXCEPT ![e.sock] = @ + e.res] /\ Perform(id, h)
        /\ UNCHANGED <<sent, ended, got, taken>>
    BY <1>1, <1>2, <1>3, <1>4 DEF HandleRecv
  <1>6. /\ cq # << >> /\ cq' = Tail(cq) /\ sqPoll' = sqPoll
        /\ Current(e) /\ Reports(e) /\ e.op = "recv" /\ e.res \in Nat
        /\ id \in Slots /\ conns[id].live /\ e.sock = Peer(id) /\ Peer(id) \in Clients
        /\ eventStore[id] = "recv"
        /\ \A o \in Waiting : o.id = id => LeftBehind(o)
        /\ \A x \in ToSet(cq') : x.id # id
    BY <1>1, <1>2, <1>5, NextIsCurrent
  <1>7. /\ taken[Peer(id)] = read[Peer(id)] + e.res /\ c.state = "reading" /\ e.off = Len(c.buf)
        /\ e.res <= RecvCap - Len(c.buf)
        /\ e.res = 0 => ended[Peer(id)] \in {"fin", "rst"}
    BY <1>2, <1>3, <1>6 DEF Reports
  <1>8. /\ Sound(c) /\ c.live /\ c.sock = Peer(id) /\ c.buf \in Seq(Byte) /\ Len(c.buf) \in Nat
        /\ Len(c.buf) <= RecvCap /\ RecvCap \in Nat
    <2>1. Sound(c) /\ c.live /\ c.sock = Peer(id)
      BY <1>3, <1>6, Types DEF Peer
    <2>2. c.buf \in Seq(Byte) /\ Len(c.buf) <= RecvCap
      BY <2>1 DEF Sound, ConnRecord
    <2> QED BY <2>1, <2>2, CapAssumption
  <1>9. /\ read' \in [Clients -> Nat] /\ read'[Peer(id)] = taken[Peer(id)]
        /\ \A cl \in Clients : cl # Peer(id) => read'[cl] = read[cl]
    BY <1>5, <1>6, <1>7, Types
  <1>10. CASE e.res = 0
    <2>1. h.conn = c /\ h.io = "close"
      BY <1>4, <1>10 DEF StartClose
    <2>2. ~Sweepable(c)
      <3>1. ~Gone(Peer(id))
        BY <1>7, <1>10 DEF Gone
      <3> QED BY <1>3, <1>6, <3>1 DEF UInv, IdleOnesGone, Sweepable
    <2>3. got' \in [Clients -> [req : Nat, unit : 1 .. RespLen]]
      BY <1>5, Types
    <2> QED BY <1>1, <1>2, <1>3, <1>5, <1>6, <1>8, <1>9, <2>1, <2>2, <2>3, PerformKeeps,
           ZenonT(60)
  <1>11. CASE e.res # 0
    <2>1. PICK bytes : bytes = Arrived(e, c)
      OBVIOUS
    <2>2. bytes \in Seq(Byte) /\ Len(bytes) = e.res
      <3>1. \A i \in 1 .. e.res : read[e.sock] + i \in Nat
        BY <1>6, Types
      <3>2. \A i \in 1 .. e.res : (IF e.op = "recv" /\ e.off = Len(c.buf)
                                   THEN <<e.sock, read[e.sock] + i>> ELSE <<e.sock, 0>>) \in Byte
        BY <1>6, <3>1 DEF Byte
      <3>3. bytes \in [1 .. e.res -> Byte]
        BY <2>1, <3>2 DEF Arrived
      <3> QED BY <1>6, <3>3
    <2>3. bytes # << >> /\ Len(c.buf) + Len(bytes) <= RecvCap
      BY <1>6, <1>7, <1>8, <1>11, <2>2
    <2>4. Serves(h, c)
      <3>1. Serves(OnRecv(c, bytes), c)
        BY <1>8, <2>2, <2>3, OnRecvServes, Zenon
      <3> QED BY <1>4, <1>11, <2>1, <3>1
    <2>5. got' \in [Clients -> [req : Nat, unit : 1 .. RespLen]]
      BY <1>5, Types
    <2>6. /\ Sound(h.conn) /\ h.conn.live /\ h.conn.sock = Peer(id) /\ h.io \in {"recv", "send", "close"}
          /\ h.io = "recv" => h.conn.state = "reading" /\ Len(h.conn.buf) < RecvCap
          /\ h.io = "send" => h.conn.state = "writing" /\ h.conn.sendOff < h.conn.sendLen
          /\ h.io = "close" => ~Sweepable(h.conn)
          /\ h.conn.idle => conns[id].idle
      BY <1>3, <1>8, <2>4 DEF Serves, Sweepable
    <2> QED BY <1>1, <1>2, <1>5, <1>6, <1>9, <2>5, <2>6, PerformKeeps
  <1> QED BY <1>10, <1>11

\* HandleSend keeps the invariant.
LEMMA SendKeeps == ASSUME UInv, HandleSend PROVE UInv'
  <1>1. PICK e : e = Head(cq)
    OBVIOUS
  <1>2. PICK id : id = e.id
    OBVIOUS
  <1>3. PICK c : c = conns[id]
    OBVIOUS
  <1>4. PICK h : h = IF e.res = 0 THEN StartClose(c) ELSE OnSend(c, e.res)
    OBVIOUS
  <1>5. /\ Next_cqe("send") /\ Perform(id, h) /\ UNCHANGED <<sent, read, ended, taken>>
        /\ got' = IF e.res = 0 THEN got ELSE [got EXCEPT ![c.sock] = Heard(c.sock, c, e.res)]
    BY <1>1, <1>2, <1>3, <1>4 DEF HandleSend
  <1>6. /\ cq # << >> /\ cq' = Tail(cq) /\ sqPoll' = sqPoll
        /\ Current(e) /\ Reports(e) /\ e.op = "send" /\ e.res \in Nat
        /\ id \in Slots /\ conns[id].live /\ e.sock = Peer(id) /\ Peer(id) \in Clients
        /\ eventStore[id] = "send"
        /\ \A o \in Waiting : o.id = id => LeftBehind(o)
        /\ \A x \in ToSet(cq') : x.id # id
    BY <1>1, <1>2, <1>5, NextIsCurrent
  <1>7. /\ taken[Peer(id)] = read[Peer(id)] + 0 /\ c.state = "writing"
        /\ e.res <= c.sendLen - c.sendOff
    BY <1>2, <1>3, <1>6 DEF Reports
  <1>8. /\ Sound(c) /\ c.live /\ c.sock = Peer(id) /\ c.sendLen \in {0, RespLen} /\ c.sendOff \in Nat
        /\ RespLen \in Nat /\ c.resp \in Response
    BY <1>3, <1>6, Types, CapAssumption DEF Peer, Sound, ConnRecord
  <1>9. /\ read' \in [Clients -> Nat] /\ read'[Peer(id)] = taken[Peer(id)]
        /\ \A cl \in Clients : cl # Peer(id) => read'[cl] = read[cl]
    BY <1>5, <1>6, <1>7, Types
  <1>10. CASE e.res = 0
    <2>1. h.conn = c /\ h.io = "close"
      BY <1>4, <1>10 DEF StartClose
    <2>2. ~Sweepable(c)
      BY <1>7 DEF Sweepable
    <2>3. got' \in [Clients -> [req : Nat, unit : 1 .. RespLen]]
      BY <1>5, <1>10, Types
    <2> QED BY <1>1, <1>2, <1>3, <1>5, <1>6, <1>8, <1>9, <2>1, <2>2, <2>3, PerformKeeps,
           ZenonT(60)
  <1>11. CASE e.res # 0
    <2>1. e.res \in Nat \ {0}
      BY <1>6, <1>11
    <2>2. Serves(h, c)
      <3>1. Serves(OnSend(c, e.res), c)
        BY <1>7, <1>8, <2>1, OnSendServes, Zenon
      <3> QED BY <1>4, <1>11, <3>1
    <2>3. got' \in [Clients -> [req : Nat, unit : 1 .. RespLen]]
      <3>1. c.sendOff + e.res \in 1 .. RespLen
        BY <1>7, <1>8, <2>1
      <3>2. (IF c.resp # NoResponse /\ c.resp[1] = c.sock THEN c.resp[2] ELSE 0) \in Nat
        BY <1>8 DEF Response, NoResponse
      <3>3. Heard(c.sock, c, e.res) \in [req : Nat, unit : 1 .. RespLen]
        BY <3>1, <3>2 DEF Heard
      <3> QED BY <1>5, <1>11, <3>3, Types
    <2>4. /\ Sound(h.conn) /\ h.conn.live /\ h.conn.sock = Peer(id) /\ h.io \in {"recv", "send", "close"}
          /\ h.io = "recv" => h.conn.state = "reading" /\ Len(h.conn.buf) < RecvCap
          /\ h.io = "send" => h.conn.state = "writing" /\ h.conn.sendOff < h.conn.sendLen
          /\ h.io = "close" => ~Sweepable(h.conn)
          /\ h.conn.idle => conns[id].idle
      BY <1>3, <1>8, <2>2 DEF Serves, Sweepable
    <2> QED BY <1>1, <1>2, <1>5, <1>6, <1>9, <2>3, <2>4, PerformKeeps
  <1> QED BY <1>10, <1>11

\* What submit_accept puts into the queue.
LEMMA Rearms ==
    ASSUME NEW e, NEW n, NEW ops, ops = Rearm(e, n)
    PROVE  /\ ops \in Seq(OpType) /\ \A o \in ToSet(ops) : Tag(o) = AcceptTag("none") /\ o.op = "accept"
           /\ ~sqPoll /\ ~e.more => \E o \in ToSet(ops) : o.op = "accept"
  <1>1. /\ AcceptOp \in OpType /\ Tag(AcceptOp) = AcceptTag("none") /\ AcceptOp.op = "accept"
    BY DEF AcceptOp, Op, OpType, Tag, AcceptTag
  <1>2. ops = <<AcceptOp>> \/ (ops = << >> /\ (sqPoll \/ e.more))
    BY DEF Rearm, Acquirable
  <1>3. CASE ops = <<AcceptOp>>
    <2>1. <<AcceptOp>> \in Seq(OpType) /\ ToSet(<<AcceptOp>>) = {AcceptOp}
      BY <1>1, CopiesOne
    <2> QED BY <1>1, <1>3, <2>1
  <1>4. CASE ops = << >> /\ (sqPoll \/ e.more)
    <2>1. << >> \in Seq(OpType) /\ ToSet(<< >>) = {}
      BY DEF ToSet
    <2> QED BY <1>4, <2>1
  <1> QED BY <1>2, <1>3, <1>4

\* HandleAcceptNothing keeps the invariant.
LEMMA AcceptNothingKeeps == ASSUME UInv, HandleAcceptNothing PROVE UInv'
  <1>1. PICK e : e = Head(cq)
    OBVIOUS
  <1>2. PICK ops : ops = Rearm(e, 0)
    OBVIOUS
  <1>3. /\ Next_cqe("accept") /\ Submit(ops)
        /\ srv' = [cl \in Clients |-> IF cl = e.sock THEN "closed" ELSE srv[cl]]
        /\ UNCHANGED <<conns, freeList, sent, read, ended, got, eventStore, taken>>
    BY <1>1, <1>2 DEF HandleAcceptNothing
  <1>4. /\ cq # << >> /\ cq' = Tail(cq) /\ sqPoll' = sqPoll /\ e.id = 0 /\ e.op = "accept"
        /\ \/ Tag(e) = AcceptTag("none") /\ e.res = 0
           \/ e.sock \in Clients /\ Tag(e) = AcceptTag(e.sock) /\ e.res = 1 /\ srv[e.sock] = "backlog"
    BY <1>1, <1>3, NextIsShared
  <1>5. \A cl \in Clients : IF cl = e.sock THEN srv[cl] = "backlog" /\ srv'[cl] = "closed"
                                            ELSE srv'[cl] = srv[cl]
    <2>1. e.sock \in Clients => srv[e.sock] = "backlog"
      BY <1>4, SocketAssumption DEF Tag, AcceptTag
    <2> QED BY <1>3, <2>1
  <1>6. /\ ops \in Seq(OpType) /\ \A o \in ToSet(ops) : Tag(o) = AcceptTag("none")
        /\ ~sqPoll /\ ~e.more => \E o \in ToSet(ops) : o.op = "accept"
    BY <1>2, Rearms
  <1>7. sq' \in Seq(OpType) /\ inflight' \in Seq(OpType)
    BY <1>3, <1>4, <1>6, Submitted
  <1>8. cq' \in Seq(CompletionType)
    BY <1>4, TakenOff
  <1>9. srv' \in [Clients -> {"none", "backlog", "open", "closed"}]
    BY <1>3, Types
  <1>10. TypeOK' /\ Proper' /\ SlotsConserved'
    BY <1>3, <1>4, <1>7, <1>8, <1>9 DEF UInv, TypeOK, LoopTypeOK, Proper, SlotsConserved
  <1>11. BytesMove'
    BY <1>3, <1>5 DEF UInv, BytesMove, Gone
  <1>12. Takes(ops)
    BY <1>3, <1>4, <1>6 DEF Takes
  <1>13. Rest({})
    <2>1. \A i \in Slots : conns[i].live => srv[Peer(i)] # "backlog" /\ Peer(i) \in Clients
      BY DEF UInv, SocketsHaveSlots
    <2> QED BY <1>1, <1>3, <1>4, <1>5, <2>1 DEF Rest
  <1>14. SocketsMove({})
    <2>1. \A cl \in Clients : srv[cl] = "backlog" /\ Tag(e) # AcceptTag(cl) => srv'[cl] = "backlog"
      BY <1>4, <1>5 DEF Tag, AcceptTag
    <2> QED BY <1>1, <1>5, <2>1 DEF SocketsMove
  <1>15. Over({}) /\ GoesOn({}, ops)
    BY DEF Over, GoesOn
  <1>16. Submits({}, ops)
    <2>1. Copies(ops, TimerTag) = 0
      <3>1. AcceptTag("none") # TimerTag
        BY TagsDiffer
      <3> QED BY <1>6, <3>1, CopiesType
    <2>2. Tag(Head(cq)) # TimerTag
      BY <1>1, <1>4 DEF Tag, TimerTag
    <2> QED BY <1>1, <1>6, <2>1, <2>2 DEF Submits
  <1>17. {} \in SUBSET Slots
    OBVIOUS
  <1> QED BY <1>10, <1>11, <1>12, <1>13, <1>14, <1>15, <1>16, <1>17, HandledKeeps

\* HandleAccept keeps the invariant: the slot it takes was not in use, and what
\* is left behind there stays so.
LEMMA AcceptKeeps == ASSUME UInv, HandleAccept PROVE UInv'
  <1>1. PICK e : e = Head(cq)
    OBVIOUS
  <1>2. PICK id : id = Last(freeList)
    OBVIOUS
  <1>peer. PICK cl : cl = e.sock
    OBVIOUS
  <1>3. PICK c : c = Emplace(cl)
    OBVIOUS
  <1>4. /\ Next_cqe("accept") /\ e.res > 0 /\ freeList # << >> /\ UNCHANGED <<sent, read, ended, got, taken>>
        /\ IF Acquirable(1)
           THEN /\ conns' = [conns EXCEPT ![id] = c] /\ freeList' = Front(freeList)
                /\ srv' = [srv EXCEPT ![cl] = "open"] /\ eventStore' = [eventStore EXCEPT ![id] = "recv"]
                /\ Submit(<<OpFor("recv", id, c)>> \o Rearm(e, 1))
           ELSE /\ conns' = [conns EXCEPT ![id] = Destroy(c)] /\ srv' = [srv EXCEPT ![cl] = "closed"]
                /\ UNCHANGED <<freeList, eventStore, sq, inflight>>
    BY <1>1, <1>2, <1>peer, <1>3 DEF HandleAccept, AllocConnId, TakeConnId, Full, Closed
  <1>5. /\ cq # << >> /\ cq' = Tail(cq) /\ sqPoll' = sqPoll /\ e.id = 0 /\ e.op = "accept"
        /\ cl \in Clients /\ Tag(e) = AcceptTag(cl) /\ srv[cl] = "backlog"
    BY <1>1, <1>peer, <1>4, NextIsShared
  <1>6. /\ freeList \in Seq(Slots) /\ IsInjective(freeList)
        /\ ToSet(freeList) = {i \in Slots : ~conns[i].live}
    BY Types DEF UInv, SlotsConserved
  <1>7. /\ id \in Slots /\ ~conns[id].live /\ id # 0
        /\ Front(freeList) \in Seq(Slots) /\ IsInjective(Front(freeList))
        /\ ToSet(Front(freeList)) = ToSet(freeList) \ {id}
    <2>1. /\ id \in ToSet(freeList) /\ id \in Slots
          /\ Front(freeList) \in Seq(Slots) /\ IsInjective(Front(freeList))
          /\ ToSet(Front(freeList)) = ToSet(freeList) \ {id}
      BY <1>2, <1>4, <1>6, AllocTakes
    <2> QED BY <1>6, <2>1, Types
  <1>8. /\ Sound(c) /\ c.live /\ c.sock = cl /\ c.buf = << >> /\ ~c.idle /\ c.state = "reading"
        /\ Sound(Destroy(c)) /\ ~Destroy(c).live
    <2>1. Sound(c) /\ c.live /\ c.sock = cl /\ c.buf = << >> /\ ~c.idle /\ c.state = "reading"
      BY <1>3, <1>5, SlotRecords, Zenon
    <2> QED BY <2>1, SlotRecords
  <1>9. cq' \in Seq(CompletionType)
    BY <1>5, TakenOff
  <1>10. /\ \A i \in Slots : conns[i].live => Peer(i) \in Clients /\ Peer(i) # cl /\ i # id
         /\ \A o \in Waiting : o.id = id => LeftBehind(o)
         /\ \A x \in ToSet(cq') : x.id # id
    <2>1. \A i \in Slots : conns[i].live => Peer(i) \in Clients /\ Peer(i) # cl /\ i # id
      BY <1>5, <1>7 DEF UInv, SocketsHaveSlots
    <2>2. ASSUME NEW o \in Waiting, o.id = id PROVE LeftBehind(o)
      <3>1. ~Current(o)
        BY <1>7, <2>2 DEF Current
      <3>2. Tag(o) \notin {AcceptTag("none"), TimerTag}
        BY <1>7, <2>2 DEF Tag, AcceptTag, TimerTag
      <3> QED BY <3>1, <3>2 DEF UInv, WaitingSound
    <2>3. ASSUME NEW x \in ToSet(cq') PROVE x.id # id
      <3> SUFFICES ASSUME x.id = id PROVE FALSE
        OBVIOUS
      <3>1. ~Current(x)
        BY <1>7 DEF Current
      <3>2. Tag(x) # TimerTag /\ \A me : Tag(x) # AcceptTag(me)
        BY <1>7 DEF Tag, AcceptTag, TimerTag
      <3>3. x \in ToSet(cq)
        BY <1>5, TakenOff
      <3> QED BY <3>1, <3>2, <3>3 DEF UInv, CompletedSound
    <2> QED BY <2>1, <2>2, <2>3
  <1>11. PICK d, what : /\ d = IF Acquirable(1) THEN c ELSE Destroy(c)
                        /\ what = IF Acquirable(1) THEN "open" ELSE "closed"
    OBVIOUS
  <1>12. /\ conns' = [conns EXCEPT ![id] = d] /\ srv' = [srv EXCEPT ![cl] = what]
         /\ Sound(d) /\ (d.live <=> Acquirable(1)) /\ what \in {"open", "closed"}
         /\ (what = "open") <=> Acquirable(1)
    <2>1. CASE Acquirable(1)
      <3>1. d = c /\ what = "open"
        BY <1>11, <2>1
      <3> QED BY <1>4, <1>8, <2>1, <3>1
    <2>2. CASE ~Acquirable(1)
      <3>1. d = Destroy(c) /\ what = "closed"
        BY <1>11, <2>2
      <3> QED BY <1>4, <1>8, <2>2, <3>1
    <2> QED BY <2>1, <2>2
  <1>13. /\ conns' \in [Slots -> ConnRecord] /\ conns'[id] = d
         /\ \A i \in Slots : i # id => conns'[i] = conns[i]
    BY <1>7, <1>12, Types DEF Sound
  <1>14. /\ srv' \in [Clients -> {"none", "backlog", "open", "closed"}] /\ srv'[cl] = what
         /\ \A me \in Clients : me # cl => srv'[me] = srv[me]
    BY <1>5, <1>12, Types
  <1>15. Proper'
    BY <1>12, <1>13 DEF UInv, Proper
  <1>16. SlotsConserved' /\ freeList' \in Seq(Slots)
    <2>1. CASE Acquirable(1)
      <3>1. {i \in Slots : ~conns'[i].live} = {i \in Slots : ~conns[i].live} \ {id}
        BY <1>7, <1>12, <1>13, <2>1
      <3>2. freeList' = Front(freeList)
        BY <1>4, <2>1
      <3> QED BY <1>6, <1>7, <3>1, <3>2 DEF SlotsConserved
    <2>2. CASE ~Acquirable(1)
      <3>1. {i \in Slots : ~conns'[i].live} = {i \in Slots : ~conns[i].live}
        BY <1>7, <1>12, <1>13, <2>2
      <3>2. freeList' = freeList
        BY <1>4, <2>2
      <3> QED BY <1>6, <3>1, <3>2 DEF SlotsConserved
    <2> QED BY <2>1, <2>2
  <1>17. BytesMove'
    <2> SUFFICES ASSUME NEW me \in Clients
                 PROVE  /\ read[me] <= taken[me] /\ taken[me] <= sent[me]
                        /\ Gone(me) => read[me] = sent[me]
                        /\ srv'[me] # "open" => read[me] = taken[me]
      BY <1>4 DEF BytesMove, Gone
    <2>1. srv'[me] # "open" => srv[me] # "open"
      BY <1>5, <1>14
    <2> QED BY <2>1 DEF UInv, BytesMove
  <1>18. /\ \A i \in Slots : i # id => eventStore'[i] = eventStore[i]
         /\ eventStore' \in [Slots -> {"recv", "send", "close", "accept"}]
         /\ Acquirable(1) => eventStore'[id] = "recv"
    BY <1>4, <1>7, Types
  <1> DEFINE T == {id}
  <1>19. T \in SUBSET Slots
    BY <1>7
  <1>20. Rest(T)
    BY <1>1, <1>4, <1>5, <1>10, <1>13, <1>14, <1>18 DEF Rest
  <1>21. SocketsMove(T)
    <2>1. \A me \in Clients : srv[me] = "backlog" /\ Tag(Head(cq)) # AcceptTag(me) => srv'[me] = "backlog"
      BY <1>1, <1>5, <1>14
    <2>2. \A me \in Clients : srv'[me] = "open" => srv[me] = "open" \/ (conns'[id].live /\ conns'[id].sock = me)
      BY <1>8, <1>11, <1>12, <1>13, <1>14
    <2> QED BY <1>5, <1>7, <1>14, <2>1, <2>2 DEF SocketsMove
  <1>22. Over(T)
    <2>1. ASSUME NEW x \in Waiting, x.id \in T PROVE LeftBehind(x)'
      <3>1. LeftBehind(x) /\ x.sock \in Clients
        BY <1>10, <2>1 DEF LeftBehind, Gone
      <3>2. srv'[x.sock] = "closed"
        BY <1>5, <1>14, <3>1 DEF LeftBehind
      <3> QED BY <1>4, <3>1, <3>2 DEF LeftBehind, Gone
    <2> QED BY <1>10, <2>1 DEF Over
  <1>23. Tag(Head(cq)) # TimerTag
    BY <1>1, <1>5, TagsDiffer
  <1> HIDE DEF T
  <1>24. CASE ~Acquirable(1)
    <2>0. << >> \in Seq(OpType) /\ ToSet(<< >>) = {}
      BY DEF ToSet
    <2>1. Takes(<< >>)
      <3>1. sq \in Seq(OpType) /\ inflight \in Seq(OpType)
        BY Types
      <3>2. sq \o << >> = sq /\ inflight \o << >> = inflight
        BY <3>1
      <3>3. Submit(<< >>)
        BY <1>4, <1>24, <3>2 DEF Submit
      <3> QED BY <1>4, <1>5, <2>0, <3>3 DEF Takes
    <2>2. GoesOn(T, << >>)
      BY <1>12, <1>13, <1>24 DEF GoesOn, T
    <2>3. Submits(T, << >>)
      <3>1. Copies(<< >>, TimerTag) = 0
        BY <2>0, CopiesType
      <3>2. sqPoll
        BY <1>24 DEF Acquirable
      <3> QED BY <1>23, <2>0, <3>1, <3>2 DEF Submits
    <2>4. TypeOK'
      <3>1. \A i \in Slots : Len(conns'[i].buf) <= RecvCap /\ conns'[i].sendOff <= conns'[i].sendLen
        BY <1>15 DEF Proper, Sound
      <3>2. UNCHANGED <<sq, inflight>>
        BY <1>4, <1>24
      <3> QED BY <1>4, <1>5, <1>9, <1>13, <1>14, <1>16, <1>18, <3>1, <3>2 DEF UInv, TypeOK, LoopTypeOK
    <2> QED BY <1>15, <1>16, <1>17, <1>19, <1>20, <1>21, <1>22, <2>1, <2>2, <2>3, <2>4, HandledKeeps
  <1>25. CASE Acquirable(1)
    <2>1. PICK o : o = OpFor("recv", id, c)
      OBVIOUS
    <2>2. PICK accept : accept = Rearm(e, 1)
      OBVIOUS
    <2>3. PICK ops : ops = <<o>> \o accept
      OBVIOUS
    <2>4. Submit(ops)
      BY <1>4, <1>25, <2>1, <2>2, <2>3
    <2>5. /\ o \in OpType /\ o.op = "recv" /\ o.id = id /\ o.sock = cl /\ o.off = Len(c.buf)
          /\ o.len = RecvCap - Len(c.buf) /\ o.len > 0 /\ Tag(o) = <<"recv", id, cl>>
      <3>1. Len(c.buf) = 0 /\ RecvCap \in Nat \ {0}
        BY <1>8, CapAssumption
      <3>2. o = [op |-> "recv", id |-> id, sock |-> cl, off |-> Len(c.buf), len |-> RecvCap - Len(c.buf)]
        BY <1>8, <2>1 DEF OpFor, Op
      <3> QED BY <1>5, <1>7, <3>1, <3>2 DEF OpType, Tag
    <2>6. /\ accept \in Seq(OpType)
          /\ \A x \in ToSet(accept) : Tag(x) = AcceptTag("none")
          /\ ~sqPoll /\ ~e.more => \E x \in ToSet(accept) : x.op = "accept"
      BY <2>2, Rearms
    <2>7. <<o>> \in Seq(OpType) /\ ToSet(<<o>>) = {o}
      BY <2>5, CopiesOne
    <2>8. ops \in Seq(OpType) /\ ToSet(ops) = {o} \cup ToSet(accept)
      <3>1. PICK one : one = <<o>>
        OBVIOUS
      <3>2. one \o accept \in Seq(OpType) /\ ToSet(one \o accept) = ToSet(one) \cup ToSet(accept)
        BY <2>6, <2>7, <3>1, ElementsJoin, Zenon
      <3> QED BY <2>3, <2>7, <3>1, <3>2
    <2>9. \A t : t # AcceptTag("none") => Copies(ops, t) = IF Tag(o) = t THEN 1 ELSE 0
      <3> SUFFICES ASSUME NEW t, t # AcceptTag("none")
                   PROVE  Copies(ops, t) = IF Tag(o) = t THEN 1 ELSE 0
        OBVIOUS
      <3>1. PICK one : one = <<o>>
        OBVIOUS
      <3>2. Copies(one \o accept, t) = Copies(one, t) + Copies(accept, t)
        BY <2>6, <2>7, <3>1, CopiesJoin
      <3>3. Copies(one, t) = IF Tag(o) = t THEN 1 ELSE 0
        BY <2>5, <3>1, CopiesOne
      <3>4. Copies(accept, t) = 0
        BY <2>6, CopiesType
      <3> QED BY <2>3, <3>1, <3>2, <3>3, <3>4
    <2>10. Takes(ops)
      BY <1>4, <1>5, <2>4, <2>8 DEF Takes
    <2>11. GoesOn(T, ops)
      <3>1. Copies(ops, <<"recv", id, cl>>) = 1
        BY <1>7, <2>5, <2>9, TagsDiffer
      <3>2. conns'[id] = c /\ eventStore'[id] = "recv" /\ srv'[cl] = "open"
        BY <1>11, <1>13, <1>14, <1>18, <1>25
      <3> QED BY <1>5, <1>8, <3>1, <3>2 DEF GoesOn, T
    <2>12. Submits(T, ops)
      <3>1. Current(o)'
        <4>1. conns'[id] = c /\ eventStore'[id] = "recv"
          BY <1>11, <1>13, <1>18, <1>25
        <4> QED BY <1>7, <1>8, <2>5, <4>1 DEF Current, Mine, Peer
      <3>2. Fits(o)'
        <4>1. taken'[cl] = read'[cl]
          BY <1>4, <1>5 DEF UInv, BytesMove
        <4>2. conns'[id] = c
          BY <1>11, <1>13, <1>25
        <4> QED BY <1>8, <2>5, <4>1, <4>2 DEF Fits
      <3>3. Copies(ops, TimerTag) = 0
        <4>1. Tag(o) # TimerTag /\ TimerTag # AcceptTag("none")
          BY <1>7, <2>5, TagsDiffer
        <4> QED BY <2>9, <4>1
      <3>4. \A x \in ToSet(ops) : \/ Tag(x) \in {AcceptTag("none"), TimerTag}
                                  \/ x.id \in T /\ Current(x)' /\ Fits(x)'
        <4> SUFFICES ASSUME NEW x \in ToSet(ops)
                     PROVE  \/ Tag(x) \in {AcceptTag("none"), TimerTag}
                            \/ x.id \in T /\ Current(x)' /\ Fits(x)'
          OBVIOUS
        <4>1. CASE x = o
          BY <2>5, <3>1, <3>2, <4>1 DEF T, Current, Fits, Tag
        <4>2. CASE x \in ToSet(accept)
          BY <2>6, <4>2
        <4> QED BY <2>8, <4>1, <4>2
      <3> QED BY <1>1, <1>23, <2>6, <2>8, <3>3, <3>4 DEF Submits
    <2>13. TypeOK'
      <3>1. \A i \in Slots : Len(conns'[i].buf) <= RecvCap /\ conns'[i].sendOff <= conns'[i].sendLen
        BY <1>15 DEF Proper, Sound
      <3>2. sq' \in Seq(OpType) /\ inflight' \in Seq(OpType)
        BY <1>5, <2>4, <2>8, Submitted
      <3> QED BY <1>4, <1>5, <1>9, <1>13, <1>14, <1>16, <1>18, <3>1, <3>2 DEF UInv, TypeOK, LoopTypeOK
    <2> QED BY <1>15, <1>16, <1>17, <1>19, <1>20, <1>21, <1>22, <2>10, <2>11, <2>12, <2>13, HandledKeeps
  <1> QED BY <1>24, <1>25

\* The closes a sweep submits: one for each of the connections.
LEMMA Closes ==
    ASSUME UInv, NEW ids \in SUBSET Slots, NEW order \in Ascending(ids),
           NEW s, s = [i \in DOMAIN order |-> OpFor("close", order[i], conns[order[i]])]
    PROVE  /\ s \in Seq(OpType)
           /\ \A o \in ToSet(s) : o.op = "close" /\ o.id \in ids /\ o.sock = Peer(o.id)
           /\ \A i \in ids : Copies(s, <<"close", i, Peer(i)>>) = 1
  <1>1. PICK n : n = Cardinality(ids)
    OBVIOUS
  <1>2. n \in Nat
    BY <1>1, SlotsFinite
  <1>3. /\ order \in [1 .. n -> ids] /\ ToSet(order) = ids
        /\ \A i, j \in 1 .. n : i < j => order[i] < order[j]
    BY <1>1 DEF Ascending
  <1>4. /\ DOMAIN s = 1 .. n
        /\ \A k \in 1 .. n : s[k] = [op |-> "close", id |-> order[k], sock |-> Peer(order[k]), off |-> 0, len |-> 0]
    BY <1>3 DEF OpFor, Op, Peer
  <1>5. \A k \in 1 .. n :
           /\ s[k] \in OpType /\ s[k].op = "close" /\ s[k].id = order[k] /\ order[k] \in ids
           /\ s[k].sock = Peer(order[k]) /\ Tag(s[k]) = <<"close", order[k], Peer(order[k])>>
    <2> TAKE k \in 1 .. n
    <2>0. PICK j, p : j = order[k] /\ p = Peer(order[k])
      OBVIOUS
    <2>1. j \in ids /\ j \in Slots
      BY <1>3, <2>0
    <2>2. p \in Clients \cup {"none"}
      BY <2>0, <2>1, Types DEF Peer, ConnRecord
    <2>3. s[k] = [op |-> "close", id |-> j, sock |-> p, off |-> 0, len |-> 0]
      BY <1>4, <2>0
    <2> QED BY <2>0, <2>1, <2>2, <2>3 DEF OpType, Tag
  <1>6. s \in Seq(OpType)
    <2>1. s \in [1 .. n -> OpType]
      BY <1>3, <1>4, <1>5
    <2> QED BY <1>2, <2>1
  <1>7. \A o \in ToSet(s) : o.op = "close" /\ o.id \in ids /\ o.sock = Peer(o.id)
    BY <1>4, <1>5 DEF ToSet
  <1>8. ASSUME NEW i \in ids PROVE Copies(s, <<"close", i, Peer(i)>>) = 1
    <2>1. PICK k \in 1 .. n : order[k] = i
      BY <1>3 DEF ToSet
    <2>2. \A m \in 1 .. n : order[m] = i => m = k
      <3> TAKE m \in 1 .. n
      <3> HAVE order[m] = i
      <3>1. i \in Nat
        BY DEF Slots
      <3>2. ~(order[m] < order[k]) /\ ~(order[k] < order[m])
        BY <2>1, <3>1
      <3>3. ~(m < k) /\ ~(k < m)
        BY <1>3, <3>2
      <3> QED BY <1>2, <3>3
    <2>3. \A m \in 1 .. n : Tag(s[m]) = <<"close", i, Peer(i)>> <=> order[m] = i
      BY <1>5
    <2>4. {m \in DOMAIN s : Tag(s[m]) = <<"close", i, Peer(i)>>} = {k}
      BY <1>4, <2>1, <2>2, <2>3
    <2> QED BY <2>4, FS_Singleton DEF Copies
  <1> QED BY <1>6, <1>7, <1>8

\* What a sweep closes waits for a request of a client that is gone: nothing of
\* it has completed, and the receive in flight is left behind.
LEMMA SweptAreGone ==
    ASSUME UInv, cq # << >>, Tag(Head(cq)) = TimerTag, NEW id \in Slots, Sweepable(conns[id])
    PROVE  /\ conns[id].live /\ eventStore[id] = "recv" /\ srv[Peer(id)] = "open"
           /\ Peer(id) \in Clients /\ Gone(Peer(id)) /\ read[Peer(id)] = taken[Peer(id)]
           /\ \A o \in Waiting : o.id = id => o.op = "recv" /\ Gone(o.sock)
                                              /\ (o.sock = Peer(id) \/ LeftBehind(o))
           /\ \A x \in ToSet(cq) : x.id # id
  <1>1. /\ conns[id].live /\ conns[id].state = "reading" /\ conns[id].idle
        /\ Peer(id) \in Clients /\ Gone(Peer(id)) /\ eventStore[id] \in {"recv", "send", "close"}
        /\ id # 0
    BY Types DEF Sweepable, UInv, IdleOnesGone, SocketsHaveSlots
  <1>2. /\ read[Peer(id)] = sent[Peer(id)] /\ read[Peer(id)] <= taken[Peer(id)]
        /\ taken[Peer(id)] <= sent[Peer(id)] /\ ended[Peer(id)] = "gone"
        /\ read[Peer(id)] \in Nat /\ taken[Peer(id)] \in Nat /\ sent[Peer(id)] \in Nat
    BY <1>1, Types DEF UInv, BytesMove, Gone
  <1>3. read[Peer(id)] = taken[Peer(id)]
    BY <1>2
  <1>4. eventStore[id] # "close"
    <2> SUFFICES ASSUME eventStore[id] = "close" PROVE FALSE
      OBVIOUS
    <2>1. cq \in Seq(CompletionType)
      BY Types
    <2>2. 1 \in DOMAIN cq /\ cq[1] = Head(cq)
      BY <2>1
    <2>3. \E k \in 1 .. 1 - 1 : Tag(cq[k]) = Mine(id)
      BY <2>2 DEF UInv, ClosesBeforeTimer
    <2> QED BY <2>3
  <1>5. ASSUME NEW o \in Waiting, o.id = id PROVE (Current(o) /\ Fits(o)) \/ LeftBehind(o)
    <2>1. Tag(o) \notin {AcceptTag("none"), TimerTag}
      BY <1>1, <1>5 DEF Tag, AcceptTag, TimerTag
    <2> QED BY <2>1 DEF UInv, WaitingSound
  <1>6. ASSUME NEW x \in ToSet(cq), x.id = id PROVE Current(x) /\ Reports(x)
    <2>1. Tag(x) # TimerTag /\ \A cl : Tag(x) # AcceptTag(cl)
      BY <1>1, <1>6 DEF Tag, AcceptTag, TimerTag
    <2> QED BY <2>1 DEF UInv, CompletedSound
  <1>7. eventStore[id] = "recv"
    <2> SUFFICES ASSUME eventStore[id] = "send" PROVE FALSE
      BY <1>1, <1>4
    <2>1. Copies(cq, Mine(id)) + Copies(sq, Mine(id)) + Copies(inflight, Mine(id)) = 1
      BY <1>1, OnlyOne
    <2>2. /\ \A o \in Waiting : Tag(o) # Mine(id)
          /\ \A x \in ToSet(cq) : Tag(x) # Mine(id)
      <3>1. ASSUME NEW o \in Waiting, Tag(o) = Mine(id) PROVE FALSE
        <4>1. o.id = id /\ o.op = "send"
          BY <3>1 DEF Tag, Mine
        <4>2. Fits(o)
          BY <1>5, <4>1 DEF LeftBehind
        <4> QED BY <1>1, <4>1, <4>2 DEF Fits
      <3>2. ASSUME NEW x \in ToSet(cq), Tag(x) = Mine(id) PROVE FALSE
        <4>1. x.id = id /\ x.op = "send"
          BY <3>2 DEF Tag, Mine
        <4>2. Reports(x)
          BY <1>6, <4>1
        <4> QED BY <1>1, <4>1, <4>2 DEF Reports
      <3> QED BY <3>1, <3>2
    <2>3. sq \in Seq(OpType) /\ inflight \in Seq(OpType) /\ cq \in Seq(CompletionType)
      BY Types
    <2>4. Copies(cq, Mine(id)) = 0 /\ Copies(sq, Mine(id)) = 0 /\ Copies(inflight, Mine(id)) = 0
      BY <2>2, <2>3, CopiesType DEF Waiting
    <2> QED BY <2>1, <2>4
  <1>8. srv[Peer(id)] = "open"
    BY <1>1, <1>7 DEF UInv, SocketsHaveSlots
  <1>9. ASSUME NEW o \in Waiting, o.id = id
        PROVE  o.op = "recv" /\ Gone(o.sock) /\ (o.sock = Peer(id) \/ LeftBehind(o))
    <2>1. CASE Current(o)
      <3>1. o.sock = Peer(id) /\ o.op = "recv"
        BY <1>7, <1>9, <2>1, TagsDiffer
      <3> QED BY <1>1, <3>1
    <2>2. CASE LeftBehind(o)
      BY <2>2 DEF LeftBehind
    <2> QED BY <1>5, <1>9, <2>1, <2>2
  <1>10. ASSUME NEW x \in ToSet(cq) PROVE x.id # id
    <2> SUFFICES ASSUME x.id = id PROVE FALSE
      OBVIOUS
    <2>1. Current(x) /\ Reports(x)
      BY <1>6
    <2>2. x.sock = Peer(id) /\ x.op = "recv"
      BY <1>7, <2>1, TagsDiffer
    <2>3. x.res \in Nat
      <3>1. x \in CompletionType
        BY Elements
      <3> QED BY <3>1 DEF CompletionType
    <2>4. taken[Peer(id)] = read[Peer(id)] + x.res
      BY <2>1, <2>2 DEF Reports
    <2>5. x.res = 0
      BY <1>2, <1>3, <2>3, <2>4
    <2> QED BY <1>2, <2>1, <2>2, <2>5 DEF Reports
  <1> QED BY <1>1, <1>3, <1>7, <1>8, <1>9, <1>10

\* HandleTimeout keeps the invariant: every connection it sweeps gets its close
\* or ends at once, and none is closed a second time.
LEMMA TimeoutKeeps == ASSUME UInv, HandleTimeout PROVE UInv'
  <1>1. PICK e : e = Head(cq)
    OBVIOUS
  <1>2. PICK idle, async, rest, timer :
           /\ idle = {id \in Slots : Sweepable(conns[id])}
           /\ async = {id \in idle : Acquirable(Cardinality({j \in idle : j <= id}))}
           /\ rest = idle \ async
           /\ timer = IF Acquirable(Cardinality(idle) + 1) THEN <<TimeoutOp>> ELSE << >>
    OBVIOUS
  <1>3. /\ Next_cqe("timeout")
        /\ \E order \in Ascending(async) :
              Submit([i \in DOMAIN order |-> OpFor("close", order[i], conns[order[i]])] \o timer)
        /\ eventStore' = [id \in Slots |-> IF id \in async THEN "close" ELSE eventStore[id]]
        /\ srv' = [cl \in Clients |-> IF cl \in {conns[id].sock : id \in idle} THEN "closed" ELSE srv[cl]]
        /\ conns' = [id \in Slots |-> IF id \in rest THEN Destroy(conns[id]) ELSE conns[id]]
        /\ FreeConnIds(rest)
        /\ UNCHANGED <<sent, read, ended, got, taken>>
    BY <1>2 DEF HandleTimeout
  <1>4. PICK order \in Ascending(async) :
           Submit([i \in DOMAIN order |-> OpFor("close", order[i], conns[order[i]])] \o timer)
    BY <1>3
  <1>5. PICK closes, ops : /\ closes = [i \in DOMAIN order |-> OpFor("close", order[i], conns[order[i]])]
                           /\ ops = closes \o timer
    OBVIOUS
  <1>6. /\ cq # << >> /\ cq' = Tail(cq) /\ sqPoll' = sqPoll /\ e.id = 0 /\ e.op = "timeout"
        /\ Tag(e) = TimerTag
    BY <1>1, <1>3, NextIsShared
  <1>7. /\ idle \in SUBSET Slots /\ async \in SUBSET Slots /\ rest \in SUBSET Slots
        /\ async \cup rest = idle /\ async \cap rest = {}
    BY <1>2
  <1>8. /\ \A id \in idle : /\ id \in Slots /\ conns[id].live /\ eventStore[id] = "recv"
                            /\ srv[Peer(id)] = "open" /\ Peer(id) \in Clients /\ Gone(Peer(id))
                            /\ conns[id].idle /\ read[Peer(id)] = taken[Peer(id)]
        /\ \A o \in Waiting : o.id \in idle => o.op = "recv" /\ Gone(o.sock)
                                               /\ (o.sock = Peer(o.id) \/ LeftBehind(o))
        /\ \A x \in ToSet(cq) : x.id \notin idle
    <2>1. \A id \in idle : id \in Slots /\ Sweepable(conns[id]) /\ conns[id].idle
      BY <1>2 DEF Sweepable
    <2>2. cq # << >> /\ Tag(Head(cq)) = TimerTag
      BY <1>1, <1>6
    <2>3. ASSUME NEW id \in idle
          PROVE  /\ conns[id].live /\ eventStore[id] = "recv" /\ srv[Peer(id)] = "open"
                 /\ Peer(id) \in Clients /\ Gone(Peer(id)) /\ read[Peer(id)] = taken[Peer(id)]
                 /\ \A o \in Waiting : o.id = id => o.op = "recv" /\ Gone(o.sock)
                                                    /\ (o.sock = Peer(id) \/ LeftBehind(o))
                 /\ \A x \in ToSet(cq) : x.id # id
      BY <2>1, <2>2, SweptAreGone
    <2> QED BY <2>1, <2>3
  <1>9. /\ closes \in Seq(OpType)
        /\ \A o \in ToSet(closes) : o.op = "close" /\ o.id \in async /\ o.sock = Peer(o.id)
        /\ \A i \in async : Copies(closes, <<"close", i, Peer(i)>>) = 1
    BY <1>5, <1>7, Closes
  <1>10. /\ timer \in Seq(OpType) /\ \A o \in ToSet(timer) : Tag(o) = TimerTag
         /\ Copies(timer, TimerTag) <= 1 /\ (~sqPoll => Copies(timer, TimerTag) = 1)
    <2>1. TimeoutOp \in OpType /\ Tag(TimeoutOp) = TimerTag
      BY DEF TimeoutOp, Op, OpType, Tag, TimerTag
    <2>2. timer = <<TimeoutOp>> \/ (timer = << >> /\ sqPoll)
      BY <1>2 DEF Acquirable
    <2>3. CASE timer = <<TimeoutOp>>
      <3>1. <<TimeoutOp>> \in Seq(OpType) /\ ToSet(<<TimeoutOp>>) = {TimeoutOp}
        BY <2>1, CopiesOne
      <3>2. Copies(<<TimeoutOp>>, TimerTag) = 1
        BY <2>1, CopiesOne
      <3> QED BY <2>1, <2>3, <3>1, <3>2
    <2>4. CASE timer = << >> /\ sqPoll
      <3>1. << >> \in Seq(OpType) /\ ToSet(<< >>) = {}
        BY DEF ToSet
      <3>2. Copies(<< >>, TimerTag) = 0
        BY <3>1, CopiesType
      <3> QED BY <2>4, <3>1, <3>2
    <2> QED BY <2>2, <2>3, <2>4
  <1>11. ops \in Seq(OpType) /\ ToSet(ops) = ToSet(closes) \cup ToSet(timer)
    BY <1>5, <1>9, <1>10, ElementsJoin, ZenonT(60)
  <1>12. \A t : Copies(ops, t) = Copies(closes, t) + Copies(timer, t)
    BY <1>5, <1>9, <1>10, CopiesJoin
  <1>13. Submit(ops)
    BY <1>4, <1>5
  <1>14. /\ conns' \in [Slots -> ConnRecord]
         /\ \A i \in Slots : i \notin rest => conns'[i] = conns[i]
         /\ \A i \in rest : Sound(conns'[i]) /\ ~conns'[i].live
    <2>1. \A i \in Slots : Sound(Destroy(conns[i])) /\ ~Destroy(conns[i]).live /\ Sound(conns[i])
      BY Types, SlotRecords
    <2>2. \A i \in Slots : conns'[i] = IF i \in rest THEN Destroy(conns[i]) ELSE conns[i]
      BY <1>3
    <2>3. \A i \in Slots : conns'[i] \in ConnRecord
      BY <2>1, <2>2 DEF Sound
    <2>4. conns' \in [Slots -> ConnRecord]
      BY <1>3, <2>3
    <2> QED BY <1>7, <2>1, <2>2, <2>4
  <1>15. /\ srv' \in [Clients -> {"none", "backlog", "open", "closed"}]
         /\ \A i \in idle : srv'[Peer(i)] = "closed"
         /\ \A cl \in Clients : srv'[cl] = srv[cl] \/ \E i \in idle : cl = Peer(i) /\ srv'[cl] = "closed"
    BY <1>3, <1>8, Types DEF Peer
  <1>16. /\ eventStore' \in [Slots -> {"recv", "send", "close", "accept"}]
         /\ \A i \in async : eventStore'[i] = "close"
         /\ \A i \in Slots : i \notin async => eventStore'[i] = eventStore[i]
    BY <1>3, <1>7, Types
  <1>17. cq' \in Seq(CompletionType) /\ \A x \in ToSet(cq') : x.id \notin idle
    <2>1. cq' \in Seq(CompletionType) /\ ToSet(cq) = ToSet(cq') \cup {Head(cq)}
      BY <1>6, TakenOff
    <2> QED BY <1>8, <2>1
  <1>18. Proper'
    <2>1. \A i \in Slots : Sound(conns[i])
      BY Types
    <2> QED BY <1>14, <2>1 DEF Proper
  <1>19. SlotsConserved' /\ freeList' \in Seq(Slots)
    <2>1. /\ freeList \in Seq(Slots) /\ IsInjective(freeList)
          /\ ToSet(freeList) = {i \in Slots : ~conns[i].live}
      BY Types DEF UInv, SlotsConserved
    <2>2. rest \cap ToSet(freeList) = {}
      BY <1>7, <1>8, <2>1
    <2>3. \E o \in Ascending(rest) : freeList' = freeList \o o
      BY <1>3 DEF FreeConnIds
    <2>4. /\ freeList' \in Seq(Slots) /\ IsInjective(freeList')
          /\ ToSet(freeList') = ToSet(freeList) \cup rest
      BY <1>7, <2>1, <2>2, <2>3, FreeReturns
    <2>5. {i \in Slots : ~conns'[i].live} = {i \in Slots : ~conns[i].live} \cup rest
      BY <1>7, <1>14
    <2> QED BY <2>1, <2>4, <2>5 DEF SlotsConserved
  <1>20. TypeOK'
    <2>1. \A i \in Slots : Len(conns'[i].buf) <= RecvCap /\ conns'[i].sendOff <= conns'[i].sendLen
      BY <1>18 DEF Proper, Sound
    <2>2. sq' \in Seq(OpType) /\ inflight' \in Seq(OpType)
      BY <1>6, <1>11, <1>13, Submitted
    <2> QED BY <1>3, <1>6, <1>14, <1>15, <1>16, <1>17, <1>19, <2>1, <2>2 DEF UInv, TypeOK, LoopTypeOK
  <1>21. BytesMove'
    <2> SUFFICES ASSUME NEW cl \in Clients
                 PROVE  /\ read[cl] <= taken[cl] /\ taken[cl] <= sent[cl]
                        /\ Gone(cl) => read[cl] = sent[cl]
                        /\ srv'[cl] # "open" => read[cl] = taken[cl]
      BY <1>3 DEF BytesMove, Gone
    <2>1. CASE srv'[cl] = srv[cl]
      BY <2>1 DEF UInv, BytesMove
    <2>2. CASE \E i \in idle : cl = Peer(i)
      <3>1. read[cl] = taken[cl]
        BY <1>8, <2>2
      <3> QED BY <3>1 DEF UInv, BytesMove
    <2> QED BY <1>15, <2>1, <2>2
  <1>22. Takes(ops)
    BY <1>3, <1>6, <1>11, <1>13 DEF Takes
  <1>23. Rest(idle)
    <2>1. ASSUME NEW i \in Slots \ idle, conns[i].live PROVE srv'[Peer(i)] = srv[Peer(i)]
      <3>1. Peer(i) \in Clients /\ \A j \in idle : Peer(j) # Peer(i)
        BY <1>7, <1>8, <2>1 DEF UInv, SocketsHaveSlots
      <3> QED BY <1>15, <3>1
    <2>2. \A i \in Slots \ idle : conns'[i] = conns[i] /\ eventStore'[i] = eventStore[i]
      BY <1>7, <1>14, <1>16
    <2> QED BY <1>1, <1>3, <1>6, <2>1, <2>2 DEF Rest
  <1>24. SocketsMove(idle)
    <2>1. \A i \in idle : srv[Peer(i)] = "open" /\ srv'[conns[i].sock] = "closed"
      BY <1>8, <1>15 DEF Peer
    <2> QED BY <1>15, <2>1 DEF SocketsMove
  <1>25. Over(idle)
    <2>1. ASSUME NEW o \in Waiting, o.id \in idle PROVE LeftBehind(o)'
      <3>1. o.op = "recv" /\ Gone(o.sock) /\ o.id \in Slots
        BY <1>7, <1>8, <2>1
      <3>2. srv'[o.sock] = "closed"
        <4>1. CASE o.sock = Peer(o.id)
          BY <1>15, <2>1, <4>1
        <4>2. CASE LeftBehind(o)
          <5>1. o.sock \in Clients /\ srv[o.sock] = "closed"
            BY <4>2 DEF LeftBehind, Gone
          <5> QED BY <1>15, <5>1
        <4> QED BY <1>8, <2>1, <4>1, <4>2
      <3> QED BY <1>3, <3>1, <3>2 DEF LeftBehind, Gone
    <2> QED BY <1>17, <2>1 DEF Over
  <1>26. \A i \in async : /\ conns'[i] = conns[i] /\ eventStore'[i] = "close" /\ i \in idle
                          /\ conns'[i].sock = Peer(i) /\ srv'[Peer(i)] = "closed" /\ conns'[i].live
    <2> TAKE i \in async
    <2>1. i \in idle /\ i \notin rest /\ i \in Slots
      BY <1>7
    <2> QED BY <1>8, <1>14, <1>15, <1>16, <2>1 DEF Peer
  <1>27. GoesOn(idle, ops)
    <2> SUFFICES ASSUME NEW i \in idle, conns'[i].live
                 PROVE  /\ conns'[i].sock \in Clients /\ eventStore'[i] = "close"
                        /\ srv'[conns'[i].sock] = "closed"
                        /\ conns[i].live /\ conns'[i].sock = conns[i].sock
                        /\ Gone(conns'[i].sock)
                        /\ Copies(ops, <<eventStore'[i], i, conns'[i].sock>>) = 1
                        /\ Tag(Head(cq)) = TimerTag
      BY DEF GoesOn
    <2>1. i \in async
      BY <1>7, <1>14
    <2>2. conns'[i].sock = Peer(i) /\ eventStore'[i] = "close" /\ srv'[Peer(i)] = "closed"
      BY <1>26, <2>1
    <2>3. Peer(i) = conns[i].sock /\ Peer(i) \in Clients /\ Gone(Peer(i)) /\ conns[i].live
      BY <1>8 DEF Peer
    <2>4. PICK t : t = <<"close", i, Peer(i)>>
      OBVIOUS
    <2>5. Copies(closes, t) = 1
      BY <1>9, <2>1, <2>4
    <2>6. Copies(timer, t) = 0
      <3>1. t # TimerTag
        BY <2>4 DEF TimerTag
      <3> QED BY <1>10, <3>1, CopiesType
    <2>7. Copies(ops, t) = 1
      BY <1>12, <2>5, <2>6
    <2> QED BY <1>1, <1>6, <2>2, <2>3, <2>4, <2>7
  <1>28. Submits(idle, ops)
    <2>1. ASSUME NEW o \in ToSet(closes) PROVE o.id \in idle /\ Current(o)' /\ Fits(o)'
      <3>1. o.op = "close" /\ o.id \in async /\ o.sock = Peer(o.id) /\ o.id \in idle /\ o.id \in Slots
        BY <1>7, <1>9
      <3>2. Current(o)'
        BY <1>26, <3>1 DEF Current, Mine, Tag, Peer
      <3>3. taken[o.sock] = read[o.sock]
        BY <1>8, <3>1
      <3>4. Fits(o)'
        BY <1>3, <3>1, <3>3 DEF Fits
      <3> QED BY <3>1, <3>2, <3>4
    <2>2. \A o \in ToSet(ops) : \/ Tag(o) \in {AcceptTag("none"), TimerTag}
                                \/ o.id \in idle /\ Current(o)' /\ Fits(o)'
      <3> SUFFICES ASSUME NEW o \in ToSet(ops)
                   PROVE  \/ Tag(o) \in {AcceptTag("none"), TimerTag}
                          \/ o.id \in idle /\ Current(o)' /\ Fits(o)'
        OBVIOUS
      <3>1. CASE o \in ToSet(closes)
        BY <2>1, <3>1
      <3>2. CASE o \in ToSet(timer)
        BY <1>10, <3>2
      <3> QED BY <1>11, <3>1, <3>2
    <2>3. Copies(closes, TimerTag) = 0
      <3>1. \A o \in ToSet(closes) : Tag(o) # TimerTag
        BY <1>9 DEF Tag, TimerTag
      <3> QED BY <1>9, <3>1, CopiesType
    <2>4. Copies(timer, TimerTag) \in Nat
      BY <1>10, CopiesType
    <2>5. Copies(ops, TimerTag) = Copies(timer, TimerTag)
      BY <1>12, <2>3, <2>4
    <2>6. Tag(Head(cq)) = TimerTag /\ Head(cq).op # "accept"
      BY <1>1, <1>6
    <2> QED BY <1>10, <2>2, <2>5, <2>6 DEF Submits
  <1> QED BY <1>7, <1>18, <1>19, <1>20, <1>21, <1>22, <1>23, <1>24, <1>25, <1>27, <1>28, HandledKeeps

-----------------------------------------------------------------------------
(* The theorems                                                            *)

\* The initial states satisfy the invariant.
LEMMA InitUInv == ASSUME Init PROVE UInv
  <1>1. /\ conns = [id \in Slots |-> EmptySlot] /\ freeList = [i \in Slots |-> MaxConnections + 1 - i]
        /\ sent = [cl \in Clients |-> 0] /\ read = [cl \in Clients |-> 0]
        /\ ended = [cl \in Clients |-> "no"] /\ srv = [cl \in Clients |-> "none"]
        /\ got = [cl \in Clients |-> [req |-> 0, unit |-> RespLen]] /\ taken = [cl \in Clients |-> 0]
        /\ sqPoll \in SqPolls /\ eventStore = [id \in Slots |-> "accept"]
        /\ sq = << >> /\ inflight = <<AcceptOp, TimeoutOp>> /\ cq = << >>
    BY DEF Init, LoopInit
  <1>2. RespLen \in Nat \ {0} /\ RecvCap \in Nat /\ MaxConnections \in Nat
    BY CapAssumption, LoopAssumption
  <1>3. Sound(EmptySlot) /\ ~EmptySlot.live /\ ~EmptySlot.idle
    BY SlotRecords
  <1>4. \A id \in Slots : conns[id] = EmptySlot
    BY <1>1
  <1>5. Proper
    BY <1>3, <1>4 DEF Proper
  <1>6. freeList \in Seq(Slots) /\ IsInjective(freeList) /\ ToSet(freeList) = Slots
    <2> DEFINE n == MaxConnections
    <2>1. n \in Nat /\ Slots = 1 .. n /\ freeList = [i \in Slots |-> n + 1 - i]
      BY <1>1, <1>2 DEF Slots
    <2> HIDE DEF n
    <2>2. freeList \in [1 .. n -> Slots]
      BY <2>1
    <2>3. freeList \in Seq(Slots) /\ DOMAIN freeList = 1 .. n
      BY <2>1, <2>2
    <2>4. IsInjective(freeList)
      BY <2>1 DEF IsInjective
    <2>5. \A id \in Slots : n + 1 - id \in 1 .. n /\ freeList[n + 1 - id] = id
      BY <2>1
    <2>6. ToSet(freeList) = Slots
      BY <2>1, <2>2, <2>3, <2>5 DEF ToSet
    <2> QED BY <2>3, <2>4, <2>6
  <1>7. SlotsConserved
    BY <1>3, <1>4, <1>6 DEF SlotsConserved
  <1>8. /\ AcceptOp \in OpType /\ TimeoutOp \in OpType
        /\ Tag(AcceptOp) = AcceptTag("none") /\ Tag(TimeoutOp) = TimerTag /\ AcceptOp.op = "accept"
    BY DEF AcceptOp, TimeoutOp, Op, OpType, Tag, AcceptTag, TimerTag
  <1>9. /\ inflight \in Seq(OpType) /\ ToSet(inflight) = {AcceptOp, TimeoutOp}
        /\ sq \in Seq(OpType) /\ cq \in Seq(CompletionType) /\ ToSet(sq) = {} /\ ToSet(cq) = {}
    <2>1. inflight \in Seq(OpType) /\ DOMAIN inflight = {1, 2} /\ inflight[1] = AcceptOp /\ inflight[2] = TimeoutOp
      BY <1>1, <1>8
    <2>2. ToSet(inflight) = {AcceptOp, TimeoutOp}
      BY <2>1 DEF ToSet
    <2>3. ToSet(<< >>) = {}
      BY DEF ToSet
    <2> QED BY <1>1, <2>1, <2>2, <2>3
  <1>10. TypeOK
    <2>1. conns \in [Slots -> ConnRecord]
      BY <1>1, <1>3 DEF Sound
    <2>2. \A id \in Slots : Len(conns[id].buf) <= RecvCap /\ conns[id].sendOff <= conns[id].sendLen
      BY <1>5 DEF Proper, Sound
    <2>3. got \in [Clients -> [req : Nat, unit : 1 .. RespLen]]
      BY <1>1, <1>2
    <2> QED BY <1>1, <1>6, <1>9, <2>1, <2>2, <2>3 DEF TypeOK, LoopTypeOK
  <1>11. SocketsHaveSlots /\ IdleOnesGone /\ BytesMove
    BY <1>1, <1>3, <1>4 DEF SocketsHaveSlots, IdleOnesGone, BytesMove, Gone
  <1>12. WaitingSound /\ CompletedSound
    BY <1>8, <1>9 DEF WaitingSound, CompletedSound, Waiting
  <1>13. \A t : Copies(sq, t) = 0 /\ Copies(cq, t) = 0
    BY <1>9, CopiesType
  <1>14. Copies(inflight, TimerTag) = 1
    <2>1. AcceptTag("none") # TimerTag
      BY DEF AcceptTag, TimerTag
    <2>2. DOMAIN inflight = {1, 2} /\ inflight[1] = AcceptOp /\ inflight[2] = TimeoutOp
      BY <1>1
    <2>3. {i \in DOMAIN inflight : Tag(inflight[i]) = TimerTag} = {2}
      BY <1>8, <2>1, <2>2
    <2> QED BY <2>3, FS_Singleton DEF Copies
  <1>15. Counts
    BY <1>3, <1>4, <1>13, <1>14 DEF Counts, AllCopies
  <1>16. Listening
    BY <1>1, <1>8, <1>9, <1>13, <1>14 DEF Listening, AllCopies
  <1>17. ClosesBeforeTimer
    BY <1>1 DEF ClosesBeforeTimer
  <1> QED BY <1>5, <1>7, <1>10, <1>11, <1>12, <1>15, <1>16, <1>17 DEF UInv

\* Every step keeps the invariant.
LEMMA StepUInv == ASSUME QuietPeers, UInv, [Next]_vars PROVE UInv'
  <1>1. CASE \E cl \in Clients : ClientActs(cl)
    <2>1. PICK cl \in Clients : ClientActs(cl)
      BY <1>1
    <2> QED BY <2>1, ActsKeep, IdleKeeps DEF ClientActs
  <1>2. CASE Kernel
    BY <1>2, SqThreadKeeps, OthersKeep, ReceivesKeeps, SendsKeeps, AcceptsKeeps DEF Kernel
  <1>3. CASE Thread
    BY <1>3, RecvKeeps, SendKeeps, CloseKeeps, AcceptNothingKeeps, AcceptKeeps, TimeoutKeeps DEF Thread
  <1>4. CASE UNCHANGED vars
    <2>1. UNCHANGED <<conns, freeList, sent, read, ended, got, srv, sqPoll, eventStore, sq, inflight, cq, taken>>
      BY <1>4 DEF vars, loopVars, ringVars
    <2> QED BY <2>1 DEF UInv, TypeOK, LoopTypeOK, Proper, SlotsConserved, SocketsHaveSlots, IdleOnesGone,
          BytesMove, WaitingSound, CompletedSound, Counts, Listening, ClosesBeforeTimer, Waiting,
          AllCopies, AcceptTag, TimerTag, Mine, Peer, Current, LeftBehind, Fits, Reports, Gone, Tag
  <1> QED BY <1>1, <1>2, <1>3, <1>4 DEF Next

\* Whatever the kernel completes in whatever order, the invariant holds of every
\* reachable state of UringLoop, if a peer does nothing after its idle timeout
\* (QuietPeers).
THEOREM UringInvariant == ASSUME QuietPeers PROVE Spec => []UInv
  <1>1. Init => UInv
    BY InitUInv
  <1>2. UInv /\ [Next]_vars => UInv'
    BY StepUInv
  <1> QED BY <1>1, <1>2, PTL DEF Spec

\* When a peer does nothing after its idle timeout (QuietPeers), buffers, rings and
\* counters keep their types: in particular no receive overruns the receive buffer
\* and no send runs past the response.
THEOREM UringTyped == ASSUME QuietPeers PROVE Spec => []TypeOK
  <1>1. UInv => TypeOK
    BY DEF UInv
  <1> QED BY <1>1, UringInvariant, PTL

\* When a peer does nothing after its idle timeout (QuietPeers), free_conn_id is
\* never called twice for a slot, nor ever forgotten, whether the completion of a
\* close, close_sync or the sweep of a peer that is gone leads to it.  Without the
\* assumption it is false: the sweep of a live idle peer leaves a receive behind
\* whose completion frees the slot, and the close frees it again (MCUring_sweep).
THEOREM UringConserves == ASSUME QuietPeers PROVE Spec => []SlotsConserved
  <1>1. UInv => SlotsConserved
    BY DEF UInv
  <1> QED BY <1>1, UringInvariant, PTL

\* What is outstanding for a slot is what its connection waits for: all of it
\* but what a sweep has left behind.
LEMMA OwnIsMine ==
    ASSUME UInv, NEW id \in Slots, NEW x \in Waiting \cup ToSet(cq)
    PROVE  (x.id = id /\ ~Gone(x.sock))
             <=> (conns[id].live /\ ~Gone(Peer(id)) /\ Tag(x) = Mine(id))
  <1>1. ASSUME x.id = id, ~Gone(x.sock) PROVE Current(x)
    <2>1. 0 \notin Slots
      BY Types
    <2>2. Tag(x) # TimerTag /\ \A cl : Tag(x) # AcceptTag(cl)
      BY <1>1, <2>1 DEF Tag, TimerTag, AcceptTag
    <2>3. CASE x \in Waiting
      BY <1>1, <2>2, <2>3 DEF UInv, WaitingSound, LeftBehind
    <2>4. CASE x \in ToSet(cq)
      BY <2>2, <2>4 DEF UInv, CompletedSound
    <2> QED BY <2>3, <2>4
  <1>2. ASSUME x.id = id, ~Gone(x.sock)
        PROVE  conns[id].live /\ ~Gone(Peer(id)) /\ Tag(x) = Mine(id)
    <2>1. conns[id].live /\ Tag(x) = Mine(id)
      BY <1>1, <1>2 DEF Current
    <2>2. x.sock = Peer(id)
      BY <2>1 DEF Tag, Mine
    <2> QED BY <1>2, <2>1, <2>2
  <1>3. ASSUME ~Gone(Peer(id)), Tag(x) = Mine(id) PROVE x.id = id /\ ~Gone(x.sock)
    BY <1>3 DEF Tag, Mine
  <1> QED BY <1>2, <1>3

\* When a peer does nothing after its idle timeout (QuietPeers), there is exactly
\* one operation of each connection whose peer has not gone, and its one entry of
\* event_store_ says which, in whatever order the kernel completes; run() relies on
\* it.  Without the assumption it is false: the sweep of a live idle peer queues a
\* close beside its receive and overwrites the entry (MCUring_sweep).
THEOREM OneOperationAlways == ASSUME QuietPeers PROVE Spec => []OneOperationEach
  <1>1. ASSUME UInv PROVE OneOperationEach
    <2> DEFINE Own(x, id)  == x.id = id /\ ~Gone(x.sock)
               Said(x, id) == Own(x, id) /\ x.op = eventStore[id] /\ x.sock = Peer(id)
               Served(id) == conns[id].live /\ ~Gone(Peer(id))
               Number(P(_)) == Cardinality({i \in DOMAIN sq : P(sq[i])})
                                + Cardinality({i \in DOMAIN inflight : P(inflight[i])})
                                + Cardinality({i \in DOMAIN cq : P(cq[i])})
    <2>1. /\ \A i \in DOMAIN sq : sq[i] \in Waiting \cup ToSet(cq)
          /\ \A i \in DOMAIN inflight : inflight[i] \in Waiting \cup ToSet(cq)
          /\ \A i \in DOMAIN cq : cq[i] \in Waiting \cup ToSet(cq)
      BY DEF Waiting, ToSet
    <2>2. ASSUME NEW id \in Slots, Served(id)
          PROVE  Number(LAMBDA x : Own(x, id)) = 1 /\ Number(LAMBDA x : Said(x, id)) = 1
      <3>1. \A x \in Waiting \cup ToSet(cq) : /\ Own(x, id) <=> Tag(x) = Mine(id)
                                              /\ Said(x, id) <=> Tag(x) = Mine(id)
        BY <1>1, <2>2, OwnIsMine DEF Tag, Mine
      <3>2. AllCopies(Mine(id)) = 1
        BY <1>1, <2>2 DEF UInv, Counts
      <3>3. PICK t : t = Mine(id)
        OBVIOUS
      <3> HIDE DEF Own, Said
      <3>4. /\ {i \in DOMAIN sq : Own(sq[i], id)} = {i \in DOMAIN sq : Tag(sq[i]) = t}
            /\ {i \in DOMAIN inflight : Own(inflight[i], id)} = {i \in DOMAIN inflight : Tag(inflight[i]) = t}
            /\ {i \in DOMAIN cq : Own(cq[i], id)} = {i \in DOMAIN cq : Tag(cq[i]) = t}
        BY <2>1, <3>1, <3>3
      <3>5. /\ {i \in DOMAIN sq : Said(sq[i], id)} = {i \in DOMAIN sq : Tag(sq[i]) = t}
            /\ {i \in DOMAIN inflight : Said(inflight[i], id)} = {i \in DOMAIN inflight : Tag(inflight[i]) = t}
            /\ {i \in DOMAIN cq : Said(cq[i], id)} = {i \in DOMAIN cq : Tag(cq[i]) = t}
        BY <2>1, <3>1, <3>3
      <3> QED BY <3>2, <3>3, <3>4, <3>5 DEF AllCopies, Copies
    <2>3. ASSUME NEW id \in Slots, ~Served(id) PROVE Number(LAMBDA x : Own(x, id)) = 0
      <3>1. \A x \in Waiting \cup ToSet(cq) : ~Own(x, id)
        BY <1>1, <2>3, OwnIsMine
      <3> HIDE DEF Own
      <3>2. /\ {i \in DOMAIN sq : Own(sq[i], id)} = {}
            /\ {i \in DOMAIN inflight : Own(inflight[i], id)} = {}
            /\ {i \in DOMAIN cq : Own(cq[i], id)} = {}
        BY <2>1, <3>1
      <3> QED BY <3>2, FS_EmptySet
    <2> QED BY <2>2, <2>3 DEF OneOperationEach, Outstanding, Peer
  <1> QED BY <1>1, UringInvariant, PTL

\* When a peer does nothing after its idle timeout (QuietPeers), and without SQPOLL,
\* the loop never stops accepting and never loses its timer.
THEOREM AlwaysListening == ASSUME QuietPeers PROVE Spec => []AlwaysAccepting
  <1>1. ASSUME UInv PROVE AlwaysAccepting
    <2> SUFFICES ASSUME ~sqPoll
                 PROVE  /\ Cardinality({i \in DOMAIN sq : sq[i].op = "accept"})
                            + Cardinality({i \in DOMAIN inflight : inflight[i].op = "accept"})
                            + Cardinality({i \in DOMAIN cq : cq[i].op = "accept"}) >= 1
                        /\ Cardinality({i \in DOMAIN sq : sq[i].op = "timeout"})
                            + Cardinality({i \in DOMAIN inflight : inflight[i].op = "timeout"})
                            + Cardinality({i \in DOMAIN cq : cq[i].op = "timeout"}) = 1
      BY DEF AlwaysAccepting, Outstanding
    <2> DEFINE A == {i \in DOMAIN sq : sq[i].op = "accept"}
               B == {i \in DOMAIN inflight : inflight[i].op = "accept"}
               C == {i \in DOMAIN cq : cq[i].op = "accept"}
    <2>1. sq \in Seq(OpType) /\ inflight \in Seq(OpType) /\ cq \in Seq(CompletionType)
      BY <1>1, Types
    <2>2. Cardinality(A) \in Nat /\ Cardinality(B) \in Nat /\ Cardinality(C) \in Nat
          /\ (B # {} => Cardinality(B) >= 1) /\ (C # {} => Cardinality(C) >= 1)
      <3>1. /\ A \in SUBSET (1 .. Len(sq)) /\ B \in SUBSET (1 .. Len(inflight))
            /\ C \in SUBSET (1 .. Len(cq))
            /\ Len(sq) \in Nat /\ Len(inflight) \in Nat /\ Len(cq) \in Nat
        BY <2>1
      <3>2. IsFiniteSet(1 .. Len(sq)) /\ IsFiniteSet(1 .. Len(inflight)) /\ IsFiniteSet(1 .. Len(cq))
        BY <3>1, FS_Interval
      <3> HIDE DEF A, B, C
      <3>3. IsFiniteSet(A) /\ IsFiniteSet(B) /\ IsFiniteSet(C)
        BY <3>1, <3>2, FS_Subset
      <3>4. Cardinality(A) \in Nat /\ Cardinality(B) \in Nat /\ Cardinality(C) \in Nat
        BY <3>3, FS_CardinalityType
      <3>5. (Cardinality(B) = 0 <=> B = {}) /\ (Cardinality(C) = 0 <=> C = {})
        BY <3>3, FS_EmptySet
      <3> QED BY <3>4, <3>5
    <2>3. B # {} \/ C # {}
      BY <1>1 DEF UInv, Listening, ToSet
    <2>4. \A x \in Waiting \cup ToSet(cq) : x.op = "timeout" <=> Tag(x) = TimerTag
      <3>1. \A id \in Slots : conns[id].live => eventStore[id] # "timeout"
        BY <1>1, Types
      <3>2. ASSUME NEW x, Current(x) PROVE x.op # "timeout"
        BY <3>1, <3>2 DEF Current, Tag, Mine
      <3>3. \A x \in Waiting : x.op = "timeout" => Tag(x) = TimerTag
        BY <1>1, <3>2 DEF UInv, WaitingSound, LeftBehind, Tag, AcceptTag
      <3>4. \A x \in ToSet(cq) : x.op = "timeout" => Tag(x) = TimerTag
        BY <1>1, <3>2 DEF UInv, CompletedSound, Tag, AcceptTag
      <3> QED BY <3>3, <3>4 DEF Tag, TimerTag
    <2>5. /\ {i \in DOMAIN sq : sq[i].op = "timeout"} = {i \in DOMAIN sq : Tag(sq[i]) = TimerTag}
          /\ {i \in DOMAIN inflight : inflight[i].op = "timeout"}
               = {i \in DOMAIN inflight : Tag(inflight[i]) = TimerTag}
          /\ {i \in DOMAIN cq : cq[i].op = "timeout"} = {i \in DOMAIN cq : Tag(cq[i]) = TimerTag}
      <3>1. /\ \A i \in DOMAIN sq : sq[i] \in Waiting \cup ToSet(cq)
            /\ \A i \in DOMAIN inflight : inflight[i] \in Waiting \cup ToSet(cq)
            /\ \A i \in DOMAIN cq : cq[i] \in Waiting \cup ToSet(cq)
        BY DEF Waiting, ToSet
      <3> QED BY <2>4, <3>1
    <2>6. AllCopies(TimerTag) = 1
      BY <1>1 DEF UInv, Listening
    <2> HIDE DEF A, B, C
    <2>7. Cardinality(A) + Cardinality(B) + Cardinality(C) >= 1
      BY <2>2, <2>3
    <2> QED BY <2>5, <2>6, <2>7 DEF A, B, C, AllCopies, Copies
  <1> QED BY <1>1, UringInvariant, PTL

\* When a peer does nothing after its idle timeout (QuietPeers; MCUring_sweep shows
\* that it is needed), what run() takes a completion for is what it is the
\* completion of, and the object it hands it to belongs to the connection that
\* started it.
THEOREM CompletionsAreOwn == ASSUME QuietPeers PROVE Spec => CompletionIsOwn
  <1>1. ASSUME UInv, cq # << >>, Head(cq).id # 0
        PROVE  LET e == Head(cq)
               IN  eventStore[e.id] = e.op /\ conns[e.id].live /\ conns[e.id].sock = e.sock
    <2>1. PICK e : e = Head(cq)
      OBVIOUS
    <2>2. e \in ToSet(cq)
      BY <1>1, <2>1, Types, CopiesTail
    <2>3. Current(e)
      BY <1>1, <2>1, <2>2 DEF UInv, CompletedSound, Tag, TimerTag, AcceptTag
    <2> QED BY <2>1, <2>3 DEF Current, Tag, Mine, Peer
  <1>2. ASSUME UInv
        PROVE  [cq # << >> =>
                  LET e == Head(cq)
                  IN  (cq' = Tail(cq) /\ e.id # 0) =>
                         /\ eventStore[e.id] = e.op
                         /\ conns[e.id].live /\ conns[e.id].sock = e.sock]_vars
    BY <1>1, <1>2
  <1> QED BY <1>2, UringInvariant, PTL DEF CompletionIsOwn

-----------------------------------------------------------------------------
(* Each connection follows its protocol                                    *)

\* The protocol's handlers are the loop's.
LEMMA SameHandlers ==
    ASSUME NEW cl \in Clients
    PROVE  /\ Protocol(cl)!EmptySlot = EmptySlot /\ Protocol(cl)!Emplace(cl) = Emplace(cl)
           /\ Protocol(cl)!Total(cl) = Total(cl)
           /\ \A c, bytes : Protocol(cl)!OnRecv(c, bytes) = OnRecv(c, bytes)
           /\ \A c, n : Protocol(cl)!OnSend(c, n) = OnSend(c, n)
           /\ \A c, n : Protocol(cl)!Heard(cl, c, n) = Heard(cl, c, n)
           /\ \A c : Protocol(cl)!Sweepable(c) <=> Sweepable(c)
  <1>1. Protocol(cl)!EmptySlot = EmptySlot /\ Protocol(cl)!Emplace(cl) = Emplace(cl)
    BY DEF Protocol!EmptySlot, EmptySlot, Protocol!Emplace, Emplace, Protocol!NoResponse, NoResponse
  <1>2. Protocol(cl)!Total(cl) = Total(cl)
    BY DEF Protocol!Total, Total, Protocol!EndOf, EndOf
  <1>3. ASSUME NEW buf
        PROVE  /\ Protocol(cl)!Answer(buf) = Answer(buf)
               /\ Protocol(cl)!ParseRequest(buf) = ParseRequest(buf)
    BY DEF Protocol!Answer, Answer, Protocol!ParseRequest, ParseRequest, Protocol!Framed, Framed,
           Protocol!StartsAt, StartsAt, Protocol!EndOf, EndOf, Protocol!RequestIn, RequestIn,
           Protocol!Size, Size, Protocol!NoResponse, NoResponse
  <1>4. ASSUME NEW c PROVE Protocol(cl)!ProcessRequest(c) = ProcessRequest(c)
    BY <1>3, ZenonT(60) DEF Protocol!ProcessRequest, ProcessRequest, Protocol!SendErrorResponse, SendErrorResponse,
           Protocol!StartRecv, StartRecv, Protocol!StartSend, StartSend, Protocol!SetSend, SetSend,
           Protocol!Dispatch, Dispatch, Protocol!Size, Size, Protocol!EndOf, EndOf
  <1>5. ASSUME NEW c, NEW bytes PROVE Protocol(cl)!OnRecv(c, bytes) = OnRecv(c, bytes)
    BY <1>4 DEF Protocol!OnRecv, OnRecv, Protocol!AdvanceRecv, AdvanceRecv, Protocol!Touch, Touch
  <1>6. ASSUME NEW c, NEW n PROVE Protocol(cl)!OnSend(c, n) = OnSend(c, n)
    <2>1. \A d, m : Protocol(cl)!ResetForNextRequest(d, m) = ResetForNextRequest(d, m)
      BY DEF Protocol!ResetForNextRequest, ResetForNextRequest, Protocol!Touch, Touch,
             Protocol!NoResponse, NoResponse
    <2>2. Protocol(cl)!AdvanceSend(c, n) = AdvanceSend(c, n)
      BY DEF Protocol!AdvanceSend, AdvanceSend
    <2>3. \A d : /\ Protocol(cl)!SendComplete(d) <=> SendComplete(d)
                /\ Protocol(cl)!StartSend(d) = StartSend(d)
                /\ Protocol(cl)!StartClose(d) = StartClose(d)
                /\ Protocol(cl)!StartRecv(d) = StartRecv(d)
      BY DEF Protocol!SendComplete, SendComplete, Protocol!StartSend, StartSend,
             Protocol!StartClose, StartClose, Protocol!StartRecv, StartRecv
    <2> QED BY <1>4, <2>1, <2>2, <2>3 DEF Protocol!OnSend, OnSend
  <1>7. ASSUME NEW c, NEW n PROVE Protocol(cl)!Heard(cl, c, n) = Heard(cl, c, n)
    BY DEF Protocol!Heard, Heard, Protocol!NoResponse, NoResponse
  <1>8. ASSUME NEW c PROVE Protocol(cl)!Sweepable(c) <=> Sweepable(c)
    BY DEF Protocol!Sweepable, Sweepable
  <1> QED BY <1>1, <1>2, <1>5, <1>6, <1>7, <1>8

\* The slot that serves a client, and what the protocol of the client sees of it.
LEMMA SlotBefore ==
    ASSUME UInv, NEW cl \in Clients
    PROVE  /\ \A id \in Slots : conns[id].live /\ Peer(id) = cl =>
                 SlotOf(cl) = {id} /\ ConnOf(cl) = conns[id] /\ Pending(cl) = eventStore[id]
           /\ (\A id \in Slots : ~(conns[id].live /\ Peer(id) = cl)) =>
                 SlotOf(cl) = {} /\ ConnOf(cl) = EmptySlot /\ Pending(cl) = "none"
  <1>1. ASSUME NEW id \in Slots, conns[id].live, Peer(id) = cl PROVE SlotOf(cl) = {id}
    BY <1>1 DEF UInv, SocketsHaveSlots, SlotOf, Peer
  <1>2. ASSUME \A id \in Slots : ~(conns[id].live /\ Peer(id) = cl) PROVE SlotOf(cl) = {}
    BY <1>2 DEF SlotOf, Peer
  <1> QED BY <1>1, <1>2 DEF ConnOf, Pending

\* The same after a step.
LEMMA SlotAfter ==
    ASSUME UInv', NEW cl \in Clients
    PROVE  /\ \A id \in Slots : conns'[id].live /\ conns'[id].sock = cl =>
                 ConnOf(cl)' = conns'[id] /\ Pending(cl)' = eventStore'[id]
           /\ (\A id \in Slots : ~(conns'[id].live /\ conns'[id].sock = cl)) =>
                 ConnOf(cl)' = EmptySlot /\ Pending(cl)' = "none"
  <1>1. ASSUME NEW id \in Slots, conns'[id].live, conns'[id].sock = cl PROVE SlotOf(cl)' = {id}
    BY <1>1 DEF UInv, SocketsHaveSlots, SlotOf, Peer
  <1>2. ASSUME \A id \in Slots : ~(conns'[id].live /\ conns'[id].sock = cl) PROVE SlotOf(cl)' = {}
    BY <1>2 DEF SlotOf
  <1> QED BY <1>1, <1>2 DEF ConnOf, Pending

\* No slot of the client's is touched, and none becomes the client's.
Untouched(cl) ==
    \A id \in Slots :
        (conns[id].live /\ conns[id].sock = cl) \/ (conns'[id].live /\ conns'[id].sock = cl)
            => conns'[id] = conns[id] /\ eventStore'[id] = eventStore[id]

\* A step that leaves a client's connection as it was is none of its protocol.
LEMMA Stutters ==
    ASSUME UInv, UInv', NEW cl \in Clients, Untouched(cl),
           sent'[cl] = sent[cl], read'[cl] = read[cl], ended'[cl] = ended[cl], got'[cl] = got[cl],
           srv'[cl] = srv[cl] \/ (srv[cl] = "none" /\ srv'[cl] = "backlog")
    PROVE  UNCHANGED Protocol(cl)!vars
  <1>1. ConnOf(cl)' = ConnOf(cl) /\ Pending(cl)' = Pending(cl)
    <2>1. CASE \E id \in Slots : conns[id].live /\ conns[id].sock = cl
      <3>1. PICK id \in Slots : conns[id].live /\ conns[id].sock = cl
        BY <2>1
      <3>2. conns'[id] = conns[id] /\ eventStore'[id] = eventStore[id]
        BY <3>1 DEF Untouched
      <3>3. ConnOf(cl) = conns[id] /\ Pending(cl) = eventStore[id]
        BY <3>1, SlotBefore DEF Peer
      <3>4. ConnOf(cl)' = conns'[id] /\ Pending(cl)' = eventStore'[id]
        BY <3>1, <3>2, SlotAfter
      <3> QED BY <3>2, <3>3, <3>4
    <2>2. CASE \A id \in Slots : ~(conns[id].live /\ conns[id].sock = cl)
      <3>1. \A id \in Slots : ~(conns'[id].live /\ conns'[id].sock = cl)
        BY <2>2 DEF Untouched
      <3>2. ConnOf(cl) = EmptySlot /\ Pending(cl) = "none"
        BY <2>2, SlotBefore DEF Peer
      <3>3. ConnOf(cl)' = EmptySlot /\ Pending(cl)' = "none"
        BY <3>1, SlotAfter
      <3> QED BY <3>2, <3>3
    <2> QED BY <2>1, <2>2
  <1>2. (IF srv'[cl] = "backlog" THEN "none" ELSE srv'[cl]) = IF srv[cl] = "backlog" THEN "none" ELSE srv[cl]
    OBVIOUS
  <1> QED BY <1>1, <1>2 DEF Protocol!vars

\* What changes one slot, and the socket of its connection, leaves the other
\* clients' slots untouched.
LEMMA OthersUntouched ==
    ASSUME UInv, NEW id \in Slots, NEW me \in Clients, NEW cl \in Clients, cl # me,
           conns[id].live => Peer(id) = me, conns'[id].sock = me,
           \A i \in Slots : i # id => conns'[i] = conns[i] /\ eventStore'[i] = eventStore[i]
    PROVE  Untouched(cl)
  BY DEF Untouched, Peer

\* The actions of a client are those its protocol has for it.
LEMMA ClientFollows ==
    ASSUME UInv, UInv', NEW me \in Clients, NEW cl \in Clients, ClientActs(me)
    PROVE  [Protocol(cl)!Next]_(Protocol(cl)!vars)
  <1>0. UNCHANGED <<sqPoll, eventStore, sq, inflight, cq, taken>>
    BY DEF ClientActs, ringVars
  <1>1. CASE Connect(me)
    <2>1. /\ UNCHANGED <<conns, sent, read, ended, got>>
          /\ srv[me] = "none" /\ srv' = [srv EXCEPT ![me] = "backlog"]
      BY <1>1 DEF Connect
    <2>2. srv'[cl] = srv[cl] \/ (srv[cl] = "none" /\ srv'[cl] = "backlog")
      BY <2>1, Types
    <2>3. Untouched(cl)
      BY <1>0, <2>1 DEF Untouched
    <2> QED BY <2>1, <2>2, <2>3, Stutters
  <1>2. CASE (Write(me) \/ Finish(me) \/ Reset(me)) /\ me # cl
    <2>1. /\ UNCHANGED <<conns, read, got, srv>>
          /\ sent' = sent \/ sent' = [sent EXCEPT ![me] = @ + 1]
          /\ ended' = ended \/ \E how : ended' = [ended EXCEPT ![me] = how]
      BY <1>2 DEF Write, Finish, Reset
    <2>2. sent'[cl] = sent[cl] /\ ended'[cl] = ended[cl]
      BY <1>2, <2>1, Types
    <2>3. Untouched(cl)
      BY <1>0, <2>1 DEF Untouched
    <2> QED BY <2>1, <2>2, <2>3, Stutters
  <1>3. CASE (Write(me) \/ Finish(me) \/ Reset(me)) /\ me = cl
    <2>1. UNCHANGED <<conns, read, got, srv>>
      BY <1>3 DEF Write, Finish, Reset
    <2>2. ConnOf(cl)' = ConnOf(cl) /\ Pending(cl)' = Pending(cl)
      BY <1>0, <2>1 DEF ConnOf, SlotOf, Pending
    <2>3. CASE Write(me)
      <3>1. ended[cl] = "no" /\ ended' = ended /\ sent[cl] < Total(cl) /\ sent'[cl] = sent[cl] + 1
        BY <1>3, <2>3, Types DEF Write
      <3>2. Protocol(cl)!Write
        BY <2>1, <2>2, <3>1, SameHandlers DEF Protocol!Write
      <3> QED BY <3>2 DEF Protocol!Next, Protocol!Environment
    <2>4. CASE Finish(me)
      <3>1. ended[cl] = "no" /\ ended'[cl] = "fin" /\ sent' = sent
        BY <1>3, <2>4, Types DEF Finish
      <3>2. Protocol(cl)!Finish
        BY <2>1, <2>2, <3>1 DEF Protocol!Finish
      <3> QED BY <3>2 DEF Protocol!Next, Protocol!Environment
    <2>5. CASE Reset(me)
      <3>1. ended[cl] \in {"no", "fin"} /\ ended'[cl] = "rst" /\ sent' = sent
        BY <1>3, <2>5, Types DEF Reset
      <3>2. Protocol(cl)!Reset
        BY <2>1, <2>2, <3>1 DEF Protocol!Reset
      <3> QED BY <3>2 DEF Protocol!Next, Protocol!Environment
    <2> QED BY <1>3, <2>3, <2>4, <2>5
  <1>4. CASE IdleElapses(me)
    <2>1. PICK id \in SlotOf(me) : ~conns[id].idle /\ conns' = [conns EXCEPT ![id].idle = TRUE]
      BY <1>4 DEF IdleElapses
    <2>2. /\ IdleTimeouts /\ srv[me] = "open" /\ UNCHANGED <<sent, read, got, srv>>
          /\ ended' = ended \/ (ended[me] \in {"no", "gone"} /\ ended' = [ended EXCEPT ![me] = "gone"])
      BY <1>4 DEF IdleElapses
    <2>3. id \in Slots /\ conns[id].live /\ conns[id].sock = me /\ conns[id] \in ConnRecord
      BY Types DEF SlotOf
    <2>4. PICK c : c = conns[id]
      OBVIOUS
    <2>5. PICK d : d = [c EXCEPT !.idle = TRUE]
      OBVIOUS
    <2>6. /\ conns'[id] = d /\ d.live /\ d.sock = me
          /\ \A i \in Slots : i # id => conns'[i] = conns[i]
      <3>1. conns'[id] = d /\ \A i \in Slots : i # id => conns'[i] = conns[i]
        BY <2>1, <2>3, <2>4, <2>5, Types
      <3>2. d.live /\ d.sock = me
        BY <2>3, <2>4, <2>5 DEF ConnRecord
      <3> QED BY <3>1, <3>2
    <2>7. CASE cl # me
      <3>1. Untouched(cl)
        BY <1>0, <2>3, <2>6, <2>7, OthersUntouched DEF Peer
      <3>2. ended'[cl] = ended[cl]
        BY <2>2, <2>7, Types
      <3> QED BY <2>2, <3>1, <3>2, Stutters
    <2>8. CASE cl = me
      <3>1. ConnOf(cl) = c /\ Pending(cl) = eventStore[id]
        BY <2>3, <2>4, <2>8, SlotBefore DEF Peer
      <3>2. ConnOf(cl)' = d /\ Pending(cl)' = eventStore[id]
        BY <1>0, <2>3, <2>6, <2>8, SlotAfter
      <3>3. (IF ended'[cl] = "gone" THEN "no" ELSE ended'[cl]) = IF ended[cl] = "gone" THEN "no" ELSE ended[cl]
        BY <2>2, <2>8, Types
      <3>4. ~c.idle
        BY <2>1, <2>4
      <3>5. Protocol(cl)!IdleElapses
        BY <2>2, <2>5, <2>8, <3>1, <3>2, <3>3, <3>4 DEF Protocol!IdleElapses
      <3> QED BY <3>5 DEF Protocol!Next, Protocol!Environment
    <2> QED BY <2>7, <2>8
  <1> QED BY <1>1, <1>2, <1>3, <1>4 DEF ClientActs

\* What the kernel completes is nothing to a connection before it is handled.
LEMMA KernelFollows ==
    ASSUME UInv, UInv', NEW cl \in Clients, Kernel
    PROVE  UNCHANGED Protocol(cl)!vars
  <1>1. UNCHANGED <<conns, sent, read, ended, got, srv, eventStore>>
    BY DEF Kernel, SqThread, AcceptFails, TimerExpires, KernelReceives, KernelSends, KernelCloses,
           KernelAccepts, loopVars
  <1>2. Untouched(cl)
    BY <1>1 DEF Untouched
  <1> QED BY <1>1, <1>2, Stutters

\* What a handler starts is what the protocol goes on with.
LEMMA Continues ==
    ASSUME UInv, UInv', NEW id \in Slots, conns[id].live, NEW h, Perform(id, h), Acquirable(1),
           h.conn.live, h.conn.sock = Peer(id), h.io \in {"recv", "send", "close"}, NEW cl \in Clients
    PROVE  /\ Peer(id) = cl => Protocol(cl)!Continue(h)
           /\ Peer(id) # cl => srv'[cl] = srv[cl] /\ Untouched(cl)
  <1>1. /\ eventStore' = [eventStore EXCEPT ![id] = h.io] /\ conns' = [conns EXCEPT ![id] = h.conn]
        /\ IF h.io = "close" THEN srv' = [srv EXCEPT ![Peer(id)] = "closed"] ELSE UNCHANGED srv
    BY DEF Perform, Closed
  <1>2. /\ conns'[id] = h.conn /\ eventStore'[id] = h.io /\ Peer(id) \in Clients
        /\ \A i \in Slots : i # id => conns'[i] = conns[i] /\ eventStore'[i] = eventStore[i]
    BY <1>1, Types, SMTT(30) DEF UInv, SocketsHaveSlots
  <1>3. ASSUME Peer(id) = cl PROVE Protocol(cl)!Continue(h)
    <2>1. ConnOf(cl)' = h.conn /\ Pending(cl)' = h.io
      BY <1>2, <1>3, SlotAfter
    <2>2. srv'[cl] = IF h.io = "close" THEN "closed" ELSE srv[cl]
      BY <1>1, <1>3, Types
    <2> QED BY <2>1, <2>2 DEF Protocol!Continue, Protocol!Close
  <1>4. ASSUME Peer(id) # cl PROVE srv'[cl] = srv[cl] /\ Untouched(cl)
    <2>1. srv'[cl] = srv[cl]
      BY <1>1, <1>4, Types
    <2>2. Untouched(cl)
      BY <1>2, <1>4, OthersUntouched
    <2> QED BY <2>1, <2>2
  <1> QED BY <1>3, <1>4

\* HandleRecv hands the next part of the client's own stream to on_recv.
LEMMA RecvFollows ==
    ASSUME UInv, UInv', NEW cl \in Clients, HandleRecv, Acquirable(1)
    PROVE  [Protocol(cl)!Next]_(Protocol(cl)!vars)
  <1>1. PICK e : e = Head(cq)
    OBVIOUS
  <1>2. PICK id : id = e.id
    OBVIOUS
  <1>3. PICK c : c = conns[id]
    OBVIOUS
  <1>4. PICK h : h = IF e.res = 0 THEN StartClose(c) ELSE OnRecv(c, Arrived(e, c))
    OBVIOUS
  <1>5. /\ Next_cqe("recv") /\ read' = [read EXCEPT ![e.sock] = @ + e.res] /\ Perform(id, h)
        /\ UNCHANGED <<sent, ended, got, taken>>
    BY <1>1, <1>2, <1>3, <1>4 DEF HandleRecv
  <1>6. /\ Reports(e) /\ e.op = "recv" /\ e.res \in Nat
        /\ id \in Slots /\ conns[id].live /\ e.sock = Peer(id) /\ Peer(id) \in Clients
        /\ eventStore[id] = "recv"
    BY <1>1, <1>2, <1>5, NextIsCurrent
  <1>7. /\ taken[Peer(id)] = read[Peer(id)] + e.res /\ e.off = Len(c.buf)
        /\ e.res <= RecvCap - Len(c.buf)
        /\ e.res = 0 => \/ ended[Peer(id)] = "rst"
                        \/ ended[Peer(id)] = "fin" /\ read[Peer(id)] = sent[Peer(id)]
    BY <1>2, <1>3, <1>6 DEF Reports
  <1>8. /\ Sound(c) /\ c.live /\ c.sock = Peer(id) /\ c.buf \in Seq(Byte) /\ Len(c.buf) \in Nat
        /\ Len(c.buf) <= RecvCap /\ RecvCap \in Nat /\ read[Peer(id)] \in Nat
    <2>1. Sound(c) /\ c.live /\ c.sock = Peer(id)
      BY <1>3, <1>6, Types DEF Peer
    <2>2. c.buf \in Seq(Byte) /\ Len(c.buf) <= RecvCap
      BY <2>1 DEF Sound, ConnRecord
    <2>3. read[Peer(id)] \in Nat
      BY <1>6, Types
    <2> QED BY <2>1, <2>2, <2>3, CapAssumption
  <1>9. taken[Peer(id)] <= sent[Peer(id)]
    BY <1>6 DEF UInv, BytesMove
  <1>10. h.conn.live /\ h.conn.sock = Peer(id) /\ h.io \in {"recv", "send", "close"}
    <2>1. CASE e.res = 0
      BY <1>4, <1>8, <2>1 DEF StartClose
    <2>2. CASE e.res # 0
      <3>1. PICK bytes : bytes = Arrived(e, c)
        OBVIOUS
      <3>2. bytes \in Seq(Byte) /\ Len(bytes) = e.res
        <4>1. \A i \in 1 .. e.res : read[e.sock] + i \in Nat
          BY <1>6, <1>8
        <4>2. \A i \in 1 .. e.res : (IF e.op = "recv" /\ e.off = Len(c.buf)
                                     THEN <<e.sock, read[e.sock] + i>> ELSE <<e.sock, 0>>) \in Byte
          BY <1>6, <4>1 DEF Byte
        <4>3. bytes \in [1 .. e.res -> Byte]
          BY <3>1, <4>2 DEF Arrived
        <4> QED BY <1>6, <4>3
      <3>3. bytes # << >> /\ Len(c.buf) + Len(bytes) <= RecvCap
        BY <1>6, <1>7, <1>8, <2>2, <3>2
      <3>4. Serves(OnRecv(c, bytes), c)
        BY <1>8, <3>2, <3>3, OnRecvServes, Zenon
      <3> QED BY <1>4, <1>8, <2>2, <3>1, <3>4 DEF Serves
    <2> QED BY <2>1, <2>2
  <1>11. CASE Peer(id) = cl
    <2>1. Protocol(cl)!Continue(h)
      BY <1>5, <1>6, <1>10, <1>11, Continues
    <2>2. ConnOf(cl) = c /\ Pending(cl) = "recv"
      BY <1>3, <1>6, <1>11, SlotBefore
    <2>3. read'[cl] = read[cl] + e.res
      BY <1>5, <1>6, <1>11, Types
    <2>4. CASE e.res = 0
      <3>1. h.conn = c /\ h.io = "close" /\ read'[cl] = read[cl]
        BY <1>4, <1>8, <1>11, <2>3, <2>4 DEF StartClose
      <3>2. Protocol(cl)!Close(c)
        BY <2>1, <3>1 DEF Protocol!Continue
      <3>3. Protocol(cl)!RecvFails
        BY <1>5, <1>7, <1>11, <2>2, <2>4, <3>1, <3>2 DEF Protocol!RecvFails, Protocol!Close
      <3> QED BY <3>3 DEF Protocol!Next, Protocol!Server
    <2>5. CASE e.res # 0
      <3>1. Arrived(e, c) = [i \in 1 .. e.res |-> <<cl, read[cl] + i>>]
        BY <1>6, <1>7, <1>11 DEF Arrived
      <3>2. (read[cl] + e.res) - read[cl] = e.res
        BY <1>6, <1>8, <1>11
      <3>3. Protocol(cl)!Bytes(read[cl], read[cl] + e.res) = [i \in 1 .. e.res |-> <<cl, read[cl] + i>>]
        BY <3>2 DEF Protocol!Bytes
      <3>4. h = Protocol(cl)!OnRecv(c, Protocol(cl)!Bytes(read[cl], read[cl] + e.res))
        BY <1>4, <2>5, <3>1, <3>3, SameHandlers
      <3>5. e.res \in 1 .. RecvCap - Len(c.buf) /\ read[cl] + e.res <= sent[cl]
        BY <1>6, <1>7, <1>8, <1>9, <1>11, <2>5
      <3>6. Protocol(cl)!RecvCompletes
        BY <1>5, <2>1, <2>2, <2>3, <3>4, <3>5
           DEF Protocol!RecvCompletes, Protocol!Continue, Protocol!Close
      <3> QED BY <3>6 DEF Protocol!Next, Protocol!Server
    <2> QED BY <2>4, <2>5
  <1>12. CASE Peer(id) # cl
    <2>1. srv'[cl] = srv[cl] /\ Untouched(cl)
      BY <1>5, <1>6, <1>10, <1>12, Continues
    <2>2. read'[cl] = read[cl]
      BY <1>5, <1>6, <1>12, Types
    <2> QED BY <1>5, <2>1, <2>2, Stutters
  <1> QED BY <1>11, <1>12

\* HandleSend hands to on_send what went to the client of the connection.
LEMMA SendFollows ==
    ASSUME UInv, UInv', NEW cl \in Clients, HandleSend, Acquirable(1)
    PROVE  [Protocol(cl)!Next]_(Protocol(cl)!vars)
  <1>1. PICK e : e = Head(cq)
    OBVIOUS
  <1>2. PICK id : id = e.id
    OBVIOUS
  <1>3. PICK c : c = conns[id]
    OBVIOUS
  <1>4. PICK h : h = IF e.res = 0 THEN StartClose(c) ELSE OnSend(c, e.res)
    OBVIOUS
  <1>5. /\ Next_cqe("send") /\ Perform(id, h) /\ UNCHANGED <<sent, read, ended, taken>>
        /\ got' = IF e.res = 0 THEN got ELSE [got EXCEPT ![c.sock] = Heard(c.sock, c, e.res)]
    BY <1>1, <1>2, <1>3, <1>4 DEF HandleSend
  <1>6. /\ Reports(e) /\ e.op = "send" /\ e.res \in Nat
        /\ id \in Slots /\ conns[id].live /\ e.sock = Peer(id) /\ Peer(id) \in Clients
        /\ eventStore[id] = "send"
    BY <1>1, <1>2, <1>5, NextIsCurrent
  <1>7. /\ c.state = "writing" /\ e.res <= c.sendLen - c.sendOff
        /\ e.res = 0 => ended[Peer(id)] = "rst"
    BY <1>2, <1>3, <1>6 DEF Reports
  <1>8. /\ Sound(c) /\ c.live /\ c.sock = Peer(id) /\ c.sendLen \in {0, RespLen} /\ c.sendOff \in Nat
        /\ RespLen \in Nat
    BY <1>3, <1>6, Types, CapAssumption DEF Peer, Sound, ConnRecord
  <1>9. h.conn.live /\ h.conn.sock = Peer(id) /\ h.io \in {"recv", "send", "close"}
    <2>1. CASE e.res = 0
      BY <1>4, <1>8, <2>1 DEF StartClose
    <2>2. CASE e.res # 0
      <3>1. e.res \in Nat \ {0}
        BY <1>6, <2>2
      <3>2. Serves(OnSend(c, e.res), c)
        BY <1>7, <1>8, <3>1, OnSendServes, Zenon
      <3> QED BY <1>4, <1>8, <2>2, <3>2 DEF Serves
    <2> QED BY <2>1, <2>2
  <1>10. CASE Peer(id) = cl
    <2>1. Protocol(cl)!Continue(h)
      BY <1>5, <1>6, <1>9, <1>10, Continues
    <2>2. ConnOf(cl) = c /\ Pending(cl) = "send"
      BY <1>3, <1>6, <1>10, SlotBefore
    <2>3. CASE e.res = 0
      <3>1. h.conn = c /\ h.io = "close"
        BY <1>4, <2>3 DEF StartClose
      <3>2. Protocol(cl)!Close(c)
        BY <2>1, <3>1 DEF Protocol!Continue
      <3>3. Protocol(cl)!SendFails
        BY <1>5, <1>7, <1>10, <2>2, <2>3, <3>2 DEF Protocol!SendFails, Protocol!Close
      <3> QED BY <3>3 DEF Protocol!Next, Protocol!Server
    <2>4. CASE e.res # 0
      <3>1. h = Protocol(cl)!OnSend(c, e.res)
        BY <1>4, <2>4, SameHandlers
      <3>2. got'[cl] = Protocol(cl)!Heard(cl, c, e.res)
        BY <1>5, <1>6, <1>8, <1>10, <2>4, Types, SameHandlers
      <3>3. e.res \in 1 .. c.sendLen - c.sendOff
        BY <1>6, <1>7, <1>8, <2>4
      <3>4. Protocol(cl)!SendCompletes
        BY <1>5, <2>1, <2>2, <3>1, <3>2, <3>3
           DEF Protocol!SendCompletes, Protocol!Continue, Protocol!Close
      <3> QED BY <3>4 DEF Protocol!Next, Protocol!Server
    <2> QED BY <2>3, <2>4
  <1>11. CASE Peer(id) # cl
    <2>1. srv'[cl] = srv[cl] /\ Untouched(cl)
      BY <1>5, <1>6, <1>9, <1>11, Continues
    <2>2. got'[cl] = got[cl]
      BY <1>5, <1>8, <1>11, Types
    <2> QED BY <1>5, <2>1, <2>2, Stutters
  <1> QED BY <1>10, <1>11

\* HandleClose ends the connection for good.
LEMMA CloseFollows ==
    ASSUME UInv, UInv', NEW cl \in Clients, HandleClose
    PROVE  [Protocol(cl)!Next]_(Protocol(cl)!vars)
  <1>1. PICK e : e = Head(cq)
    OBVIOUS
  <1>2. PICK id : id = e.id
    OBVIOUS
  <1>3. /\ Next_cqe("close") /\ conns' = [conns EXCEPT ![id] = Destroy(@)]
        /\ UNCHANGED <<sent, read, ended, got, srv, eventStore>>
    BY <1>1, <1>2 DEF HandleClose
  <1>4. /\ id \in Slots /\ conns[id].live /\ Peer(id) \in Clients /\ eventStore[id] = "close"
    BY <1>1, <1>2, <1>3, NextIsCurrent
  <1>5. /\ ~conns'[id].live /\ conns'[id].sock = Peer(id)
        /\ \A i \in Slots : i # id => conns'[i] = conns[i] /\ eventStore'[i] = eventStore[i]
    <2>1. conns'[id] = Destroy(conns[id]) /\ \A i \in Slots : i # id => conns'[i] = conns[i]
      BY <1>3, <1>4, Types
    <2>2. ~Destroy(conns[id]).live /\ Destroy(conns[id]).sock = conns[id].sock
      BY <1>4, Types, SlotRecords
    <2> QED BY <1>3, <2>1, <2>2 DEF Peer
  <1>6. CASE Peer(id) = cl
    <2>1. Pending(cl) = "close"
      BY <1>4, <1>6, SlotBefore
    <2>2. \A i \in Slots : ~(conns'[i].live /\ conns'[i].sock = cl)
      BY <1>4, <1>5, <1>6 DEF UInv, SocketsHaveSlots, Peer
    <2>3. ConnOf(cl)' = EmptySlot /\ Pending(cl)' = "none"
      BY <2>2, SlotAfter
    <2>4. Protocol(cl)!CloseCompletes
      BY <1>3, <2>1, <2>3, SameHandlers DEF Protocol!CloseCompletes
    <2> QED BY <2>4 DEF Protocol!Next, Protocol!Server
  <1>7. CASE Peer(id) # cl
    <2>1. Untouched(cl)
      BY <1>4, <1>5, <1>7, OthersUntouched
    <2> QED BY <1>3, <2>1, Stutters
  <1> QED BY <1>6, <1>7

\* An accepted socket for which there is no slot is refused.
LEMMA AcceptNothingFollows ==
    ASSUME UInv, UInv', NEW cl \in Clients, HandleAcceptNothing
    PROVE  [Protocol(cl)!Next]_(Protocol(cl)!vars)
  <1>1. PICK e : e = Head(cq)
    OBVIOUS
  <1>2. /\ Next_cqe("accept")
        /\ srv' = [x \in Clients |-> IF x = e.sock THEN "closed" ELSE srv[x]]
        /\ UNCHANGED <<conns, sent, read, ended, got, eventStore>>
    BY <1>1 DEF HandleAcceptNothing
  <1>3. \/ Tag(e) = AcceptTag("none")
        \/ e.sock \in Clients /\ srv[e.sock] = "backlog"
    BY <1>1, <1>2, NextIsShared
  <1>4. e.sock \in Clients => srv[e.sock] = "backlog"
    BY <1>3, SocketAssumption DEF Tag, AcceptTag
  <1>5. CASE cl = e.sock
    <2>1. ConnOf(cl)' = ConnOf(cl) /\ Pending(cl)' = Pending(cl)
      BY <1>2 DEF ConnOf, SlotOf, Pending
    <2>2. srv[cl] = "backlog" /\ srv'[cl] = "closed"
      BY <1>2, <1>4, <1>5
    <2>3. Protocol(cl)!Refuse
      BY <1>2, <2>1, <2>2 DEF Protocol!Refuse
    <2> QED BY <2>3 DEF Protocol!Next, Protocol!Server
  <1>6. CASE cl # e.sock
    <2>1. srv'[cl] = srv[cl]
      BY <1>2, <1>6
    <2>2. Untouched(cl)
      BY <1>2 DEF Untouched
    <2> QED BY <1>2, <2>1, <2>2, Stutters
  <1> QED BY <1>5, <1>6

\* An accepted socket opens its own connection.
LEMMA AcceptFollows ==
    ASSUME UInv, UInv', NEW cl \in Clients, HandleAccept, Acquirable(1)
    PROVE  [Protocol(cl)!Next]_(Protocol(cl)!vars)
  <1>1. PICK e : e = Head(cq)
    OBVIOUS
  <1>2. PICK id : id = Last(freeList)
    OBVIOUS
  <1>3. PICK me : me = e.sock
    OBVIOUS
  <1>4. /\ Next_cqe("accept") /\ e.res > 0 /\ freeList # << >>
        /\ conns' = [conns EXCEPT ![id] = Emplace(me)]
        /\ srv' = [srv EXCEPT ![me] = "open"] /\ eventStore' = [eventStore EXCEPT ![id] = "recv"]
        /\ UNCHANGED <<sent, read, ended, got>>
    BY <1>1, <1>2, <1>3 DEF HandleAccept, AllocConnId, Full
  <1>5. me \in Clients /\ srv[me] = "backlog"
    BY <1>1, <1>3, <1>4, NextIsShared
  <1>6. id \in Slots /\ ~conns[id].live
    <2>1. /\ freeList \in Seq(Slots) /\ IsInjective(freeList)
          /\ ToSet(freeList) = {i \in Slots : ~conns[i].live}
      BY Types DEF UInv, SlotsConserved
    <2>2. id \in ToSet(freeList)
      BY <1>2, <1>4, <2>1, AllocTakes
    <2> QED BY <2>1, <2>2
  <1>7. /\ conns'[id] = Emplace(me) /\ eventStore'[id] = "recv"
        /\ \A i \in Slots : i # id => conns'[i] = conns[i] /\ eventStore'[i] = eventStore[i]
    BY <1>4, <1>6, Types
  <1>8. Emplace(me).live /\ Emplace(me).sock = me
    BY <1>5, SlotRecords, Zenon
  <1>9. CASE cl = me
    <2>1. ConnOf(cl)' = Emplace(cl) /\ Pending(cl)' = "recv"
      BY <1>6, <1>7, <1>8, <1>9, SlotAfter
    <2>2. srv[cl] = "backlog" /\ srv'[cl] = "open"
      BY <1>4, <1>5, <1>9, Types
    <2>3. Protocol(cl)!Accept
      BY <1>4, <2>1, <2>2, SameHandlers DEF Protocol!Accept
    <2> QED BY <2>3 DEF Protocol!Next, Protocol!Server
  <1>10. CASE cl # me
    <2>1. conns'[id].sock = me
      BY <1>7, <1>8
    <2>2. Untouched(cl)
      BY <1>5, <1>6, <1>7, <1>10, <2>1, OthersUntouched
    <2>3. srv'[cl] = srv[cl]
      BY <1>4, <1>10, Types
    <2> QED BY <1>4, <2>2, <2>3, Stutters
  <1> QED BY <1>9, <1>10

\* The sweep closes connections that wait for a request, and no others; where
\* acquire_sqe fails on the way it ends them at once.
LEMMA TimeoutFollows ==
    ASSUME UInv, UInv', NEW cl \in Clients, HandleTimeout
    PROVE  [Protocol(cl)!Next]_(Protocol(cl)!vars)
  <1>1. PICK idle, async, rest :
           /\ idle = {id \in Slots : Sweepable(conns[id])}
           /\ async = {id \in idle : Acquirable(Cardinality({j \in idle : j <= id}))}
           /\ rest = idle \ async
    OBVIOUS
  <1>2. /\ Next_cqe("timeout")
        /\ eventStore' = [id \in Slots |-> IF id \in async THEN "close" ELSE eventStore[id]]
        /\ srv' = [x \in Clients |-> IF x \in {conns[id].sock : id \in idle} THEN "closed" ELSE srv[x]]
        /\ conns' = [id \in Slots |-> IF id \in rest THEN Destroy(conns[id]) ELSE conns[id]]
        /\ UNCHANGED <<sent, read, ended, got>>
    BY <1>1 DEF HandleTimeout
  <1>3. /\ idle \in SUBSET Slots /\ async \in SUBSET idle /\ rest \in SUBSET idle
        /\ async \cup rest = idle /\ async \cap rest = {}
    BY <1>1
  <1>4. ASSUME NEW id \in idle
        PROVE  /\ id \in Slots /\ conns[id].live /\ Sweepable(conns[id]) /\ eventStore[id] = "recv"
               /\ srv[Peer(id)] = "open" /\ Peer(id) \in Clients
    <2>1. id \in Slots /\ Sweepable(conns[id])
      BY <1>1
    <2>2. cq # << >> /\ Tag(Head(cq)) = TimerTag
      BY <1>2, NextIsShared
    <2> QED BY <2>1, <2>2, SweptAreGone
  <1>5. \A id \in Slots : /\ id \notin rest => conns'[id] = conns[id]
                          /\ id \in rest => conns'[id] = Destroy(conns[id])
                          /\ eventStore'[id] = IF id \in async THEN "close" ELSE eventStore[id]
    BY <1>2
  <1>6. \A id \in Slots : ~Destroy(conns[id]).live /\ Destroy(conns[id]).sock = conns[id].sock
    BY Types, SlotRecords
  <1>7. CASE \E id \in idle : Peer(id) = cl
    <2>1. PICK id \in idle : Peer(id) = cl
      BY <1>7
    <2>2. /\ id \in Slots /\ conns[id].live /\ Sweepable(conns[id]) /\ eventStore[id] = "recv"
          /\ srv[cl] = "open"
      BY <1>4, <2>1
    <2>3. ConnOf(cl) = conns[id]
      BY <2>1, <2>2, SlotBefore
    <2>4. srv'[cl] = "closed"
      BY <1>2, <2>1 DEF Peer
    <2>5. CASE id \in async
      <3>1. conns'[id] = conns[id] /\ eventStore'[id] = "close"
        BY <1>3, <1>5, <2>2, <2>5
      <3>2. ConnOf(cl)' = conns[id] /\ Pending(cl)' = "close"
        BY <2>1, <2>2, <3>1, SlotAfter DEF Peer
      <3>3. Protocol(cl)!Sweep
        BY <1>2, <2>2, <2>3, <2>4, <3>2, SameHandlers DEF Protocol!Sweep, Protocol!Close
      <3> QED BY <3>3 DEF Protocol!Next, Protocol!Server
    <2>6. CASE id \in rest
      <3>1. ~conns'[id].live
        BY <1>5, <1>6, <2>2, <2>6
      <3>2. ASSUME NEW i \in Slots, conns'[i].live PROVE conns'[i].sock # cl
        <4>1. i \notin rest /\ conns'[i] = conns[i]
          BY <1>5, <1>6, <3>2
        <4>2. i # id
          BY <2>6, <4>1
        <4> QED BY <2>1, <2>2, <3>2, <4>1, <4>2 DEF UInv, SocketsHaveSlots, Peer
      <3>3. ConnOf(cl)' = EmptySlot /\ Pending(cl)' = "none"
        BY <3>2, SlotAfter
      <3>4. Protocol(cl)!Sweep
        BY <1>2, <2>2, <2>3, <2>4, <3>3, SameHandlers DEF Protocol!Sweep, Protocol!Close
      <3> QED BY <3>4 DEF Protocol!Next, Protocol!Server
    <2> QED BY <1>3, <2>1, <2>5, <2>6
  <1>8. CASE \A id \in idle : Peer(id) # cl
    <2>1. srv'[cl] = srv[cl]
      BY <1>2, <1>8 DEF Peer
    <2>2. ASSUME NEW id \in Slots,
                 (conns[id].live /\ conns[id].sock = cl) \/ (conns'[id].live /\ conns'[id].sock = cl)
          PROVE  conns'[id] = conns[id] /\ eventStore'[id] = eventStore[id]
      <3>1. id \notin rest
        BY <1>3, <1>5, <1>6, <1>8, <2>2 DEF Peer
      <3>2. conns'[id] = conns[id]
        BY <1>5, <3>1
      <3>3. id \notin async
        BY <1>3, <1>8, <2>2, <3>2 DEF Peer
      <3> QED BY <1>5, <3>2, <3>3
    <2>3. Untouched(cl)
      BY <2>2 DEF Untouched
    <2> QED BY <1>2, <2>1, <2>3, Stutters
  <1> QED BY <1>7, <1>8

\* Every step, for every client, unless the thread is starved of entries.
LEMMA StepFollows ==
    ASSUME UInv, UInv', [Next]_vars, ~Starved, NEW cl \in Clients
    PROVE  [Protocol(cl)!Next]_(Protocol(cl)!vars)
  <1>1. CASE \E me \in Clients : ClientActs(me)
    BY <1>1, ClientFollows
  <1>2. CASE Kernel
    BY <1>2, KernelFollows
  <1>3. CASE Thread
    <2>1. cq # << >> /\ cq' = Tail(cq)
      BY <1>3 DEF Thread, HandleRecv, HandleSend, HandleClose, HandleAcceptNothing, HandleAccept,
                  HandleTimeout, Next_cqe
    <2>2. Acquirable(1)
      BY <2>1 DEF Starved
    <2> QED BY <1>3, <2>2, RecvFollows, SendFollows, CloseFollows, AcceptNothingFollows,
               AcceptFollows, TimeoutFollows DEF Thread
  <1>4. CASE UNCHANGED vars
    <2>1. UNCHANGED <<conns, eventStore, sent, read, ended, got, srv>>
      BY <1>4 DEF vars, loopVars, ringVars
    <2>2. Untouched(cl)
      BY <2>1 DEF Untouched
    <2>3. UNCHANGED Protocol(cl)!vars
      BY <2>1, <2>2, Stutters
    <2> QED BY <2>3
  <1> QED BY <1>1, <1>2, <1>3, <1>4 DEF Next

\* When a peer does nothing after its idle timeout (QuietPeers), the io_uring
\* backend implements the protocol of every connection, in whatever order the
\* kernel completes, except where it cannot acquire an entry.
THEOREM UringServesEach == ASSUME QuietPeers PROVE Spec => ServesEachClient
  <1>1. Init => \A cl \in Clients : Protocol(cl)!Init
    <2> SUFFICES ASSUME Init, NEW cl \in Clients PROVE Protocol(cl)!Init
      OBVIOUS
    <2>1. UInv
      BY InitUInv
    <2>2. srv[cl] = "none" /\ \A id \in Slots : ~conns[id].live
      <3>1. ~EmptySlot.live
        BY SlotRecords, Zenon
      <3> HIDE DEF EmptySlot
      <3> QED BY <3>1 DEF Init, LoopInit
    <2>3. ConnOf(cl) = EmptySlot /\ Pending(cl) = "none"
      BY <2>1, <2>2, SlotBefore
    <2> QED BY <2>3, SameHandlers DEF Init, LoopInit, Protocol!Init
  <1>2. UInv /\ UInv' /\ [Next]_vars
          => [Starved \/ \A cl \in Clients : [Protocol(cl)!Next]_(Protocol(cl)!vars)]_vars
    BY StepFollows
  <1> QED BY <1>1, <1>2, UringInvariant, PTL DEF Spec, ServesEachClient
================================================================================
