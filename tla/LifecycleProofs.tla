---------------------------- MODULE LifecycleProofs ----------------------------
(***************************************************************************)
(* The life cycle of a server that is started and stopped once, for any    *)
(* number of threads: one listen(), and one shutdown() at any moment.      *)
(* Then wait_ready() is true only when every loop is up, and a shutdown()  *)
(* that begins when the vector of loops is filled finds it in its place.   *)
(***************************************************************************)
EXTENDS Lifecycle, FiniteSetTheorems, TLAPS

\* The loops whose initialization is over
UpLoops == {l \in DOMAIN phase : phase[l] \in {"looping", "done"}}

\* The one loop has returned, or is about to
Ending == phase[1] = "done" \/ (phase[1] \in {"raised", "looping"} /\ ~running[1])

\* Before listen() is called there is nothing, and while it is in progress loops
\* is the sequence of all loop objects, those above threads not yet run.
Built ==
    /\ listens = 0 => main = "out" /\ Len(phase) = 0 /\ Len(loops) = 0
    /\ Len(phase) <= threadCount /\ Len(loops) <= threadCount
    /\ main # "out" => /\ Len(phase) = built /\ Len(loops) = built
                       /\ \A i \in 1 .. built : loops[i] = i
    /\ main = "building" => \A l \in DOMAIN phase : l > threads => phase[l] = "new"
    /\ main = "running" => threadCount = 1 /\ built = 1
    /\ threads > 0 => threadCount > 1

\* No loop is counted before it is up.
Counted == readyCount <= Cardinality(UpLoops)

\* wait_ready() begins without an answer; a shutdown() that found the vector full
\* goes over the loops of this listen(), of which there will be no more; a single
\* loop does not end before it is told to.
Told ==
    /\ ctl = "waiting" => ~answered
    /\ ctl = "stopping" => shutdowns = 1
    /\ ctl = "stopping" /\ iter.whole => Len(phase) = threadCount /\ iter.last <= threadCount
    /\ main = "running" /\ Ending => shutdowns = 1 /\ iter.next > 1

LInv == TypeOK /\ Built /\ Counted /\ Told /\ IteratesLiveLoops

\* The use for which the theorems hold
UsedOnce == MaxListens = 1 /\ MaxShutdowns = 1

Phases == {"new", "setup", "raised", "looping", "done"}

-----------------------------------------------------------------------------
\* The loops that are up are among those created: there are never more of them,
\* and if there are as many they are all.
LEMMA UpCount ==
    ASSUME NEW s \in Seq(Phases)
    PROVE  LET up == {l \in DOMAIN s : s[l] \in {"looping", "done"}}
           IN  /\ IsFiniteSet(up) /\ Cardinality(up) \in Nat
               /\ Cardinality(up) <= Len(s)
               /\ Cardinality(up) = Len(s) => \A l \in 1 .. Len(s) : s[l] \in {"looping", "done"}
  <1> DEFINE up == {l \in DOMAIN s : s[l] \in {"looping", "done"}}
  <1>1. Len(s) \in Nat /\ DOMAIN s = 1 .. Len(s)
    OBVIOUS
  <1>2. up \in SUBSET (1 .. Len(s))
    BY <1>1
  <1>3. IsFiniteSet(1 .. Len(s)) /\ Cardinality(1 .. Len(s)) = Len(s)
    BY <1>1, FS_Interval
  <1>4. /\ IsFiniteSet(up) /\ Cardinality(up) <= Len(s)
        /\ Cardinality(up) = Len(s) => up = 1 .. Len(s)
    BY <1>2, <1>3, FS_Subset
  <1>5. Cardinality(up) \in Nat
    BY <1>4, FS_CardinalityType
  <1>6. up = 1 .. Len(s) => \A l \in 1 .. Len(s) : s[l] \in {"looping", "done"}
    OBVIOUS
  <1> QED BY <1>4, <1>5, <1>6

\* A loop that comes up adds one to the count; a loop that was not up may change
\* its phase otherwise, and the count does not go down.
LEMMA UpGrows ==
    ASSUME NEW s \in Seq(Phases), NEW l \in DOMAIN s, NEW p \in Phases,
           s[l] \in {"looping", "done"} => p \in {"looping", "done"}
    PROVE  LET t   == [s EXCEPT ![l] = p]
               old == {i \in DOMAIN s : s[i] \in {"looping", "done"}}
               new == {i \in DOMAIN t : t[i] \in {"looping", "done"}}
           IN  /\ t \in Seq(Phases) /\ Len(t) = Len(s) /\ DOMAIN t = DOMAIN s
               /\ Cardinality(old) \in Nat /\ Cardinality(new) \in Nat
               /\ Cardinality(new) >= Cardinality(old)
               /\ s[l] \notin {"looping", "done"} /\ p \in {"looping", "done"} =>
                     Cardinality(new) = Cardinality(old) + 1
  <1> DEFINE t   == [s EXCEPT ![l] = p]
             old == {i \in DOMAIN s : s[i] \in {"looping", "done"}}
             new == {i \in DOMAIN t : t[i] \in {"looping", "done"}}
  <1>1. t \in Seq(Phases) /\ Len(t) = Len(s) /\ DOMAIN t = DOMAIN s
    OBVIOUS
  <1>2. IsFiniteSet(old) /\ Cardinality(old) \in Nat
    BY UpCount
  <1>3. IsFiniteSet(new) /\ Cardinality(new) \in Nat
    <2> HIDE DEF t
    <2> QED BY <1>1, UpCount
  <1>4. old \in SUBSET new
    BY <1>1
  <1>5. Cardinality(old) <= Cardinality(new)
    BY <1>3, <1>4, FS_Subset
  <1>6. ASSUME s[l] \notin {"looping", "done"}, p \in {"looping", "done"}
        PROVE  Cardinality(new) = Cardinality(old) + 1
    <2>1. new = old \cup {l} /\ l \notin old
      BY <1>6, <1>1
    <2> HIDE DEF old, new
    <2> QED BY <2>1, <1>2, FS_AddElement
  <1> QED BY <1>1, <1>2, <1>3, <1>5, <1>6

\* A loop that is created does not count.
LEMMA UpAppend ==
    ASSUME NEW s \in Seq(Phases)
    PROVE  LET t == Append(s, "new")
           IN  /\ t \in Seq(Phases) /\ Len(t) = Len(s) + 1
               /\ {i \in DOMAIN t : t[i] \in {"looping", "done"}} =
                  {i \in DOMAIN s : s[i] \in {"looping", "done"}}
  <1> DEFINE t == Append(s, "new")
  <1>0. Len(s) \in Nat /\ DOMAIN s = 1 .. Len(s) /\ "new" \in Phases
    BY DEF Phases
  <1>1. t \in Seq(Phases) /\ Len(t) = Len(s) + 1 /\ t[Len(s) + 1] = "new"
        /\ DOMAIN t = 1 .. Len(s) + 1
    BY <1>0
  <1>2. \A i \in DOMAIN s : t[i] = s[i]
    OBVIOUS
  <1> HIDE DEF t
  <1>3. \A i \in DOMAIN t : i \in DOMAIN s \/ i = Len(s) + 1
    BY <1>0, <1>1
  <1>4. {i \in DOMAIN t : t[i] \in {"looping", "done"}} =
        {i \in DOMAIN s : s[i] \in {"looping", "done"}}
    BY <1>0, <1>1, <1>2, <1>3
  <1> QED BY <1>1, <1>4 DEF t

-----------------------------------------------------------------------------
\* Before anything is called the invariant holds.
LEMMA LInit == ASSUME UsedOnce PROVE Init => LInv
  <1> SUFFICES ASSUME Init PROVE LInv
    OBVIOUS
  <1> USE DEF Init
  <1>1. threadCount \in Nat \ {0}
    BY LifecycleAssumption
  <1>2. UpLoops = {} /\ Cardinality(UpLoops) = 0
    BY FS_EmptySet DEF UpLoops
  <1>3. phase \in Seq(Phases) /\ loops \in Seq(DOMAIN phase) /\ running \in Seq(BOOLEAN)
    OBVIOUS
  <1>4. Len(phase) = 0 /\ Len(loops) = 0 /\ DOMAIN phase = DOMAIN running
    OBVIOUS
  <1>5. TypeOK
    <2>1. built \in 0 .. threadCount /\ threads \in 0 .. threadCount /\ readyCount \in 0 .. Len(phase)
          /\ listens \in 0 .. MaxListens /\ shutdowns \in 0 .. MaxShutdowns
      BY <1>1, <1>4, LifecycleAssumption
    <2>2. iter \in [next : Nat \ {0}, last : Nat, stale : BOOLEAN, whole : BOOLEAN]
      OBVIOUS
    <2> QED BY <1>3, <1>4, <2>1, <2>2 DEF TypeOK, Phases
  <1> QED BY <1>1, <1>2, <1>4, <1>5 DEF LInv, Built, Counted, Told, IteratesLiveLoops

\* What the type invariant says, for the provers.
LEMMA Typed ==
    ASSUME LInv, UsedOnce
    PROVE  /\ threadCount \in Nat \ {0} /\ phase \in Seq(Phases) /\ Len(phase) \in Nat
           /\ DOMAIN phase = 1 .. Len(phase) /\ DOMAIN running = DOMAIN phase
           /\ loops \in Seq(DOMAIN phase) /\ loops \in Seq(Nat) /\ Len(loops) \in Nat
           /\ running \in Seq(BOOLEAN) /\ Len(running) = Len(phase)
           /\ built \in Nat /\ threads \in Nat /\ readyCount \in Nat
           /\ listens \in {0, 1} /\ shutdowns \in {0, 1} /\ iter.next \in Nat /\ iter.last \in Nat
           /\ iter.next > 0
  <1> USE DEF LInv, TypeOK, UsedOnce
  <1>1. threadCount \in Nat \ {0}
    BY LifecycleAssumption
  <1>2. phase \in Seq(Phases) /\ running \in Seq(BOOLEAN) /\ DOMAIN phase = DOMAIN running
    BY DEF Phases
  <1>3. Len(phase) \in Nat /\ DOMAIN phase = 1 .. Len(phase) /\ Len(running) = Len(phase)
    BY <1>2
  <1>4. loops \in Seq(DOMAIN phase)
    OBVIOUS
  <1>5. Len(loops) \in Nat /\ loops \in Seq(Nat)
    BY <1>3, <1>4
  <1> QED BY <1>1, <1>2, <1>3, <1>4, <1>5

\* A step of one loop object through its run().
LEMMA PhaseStep ==
    ASSUME LInv, UsedOnce, NEW l \in DOMAIN phase, NEW p \in Phases,
           phase[l] \in {"looping", "done"} => p \in {"looping", "done"},
           phase' = [phase EXCEPT ![l] = p]
    PROVE  /\ phase' \in Seq(Phases) /\ Len(phase') = Len(phase) /\ DOMAIN phase' = DOMAIN phase
           /\ phase'[l] = p /\ (\A i \in DOMAIN phase : i # l => phase'[i] = phase[i])
           /\ Cardinality(UpLoops) \in Nat /\ Cardinality(UpLoops') \in Nat
           /\ Cardinality(UpLoops') >= Cardinality(UpLoops)
           /\ phase[l] \notin {"looping", "done"} /\ p \in {"looping", "done"} =>
                 Cardinality(UpLoops') = Cardinality(UpLoops) + 1
  <1>1. phase \in Seq(Phases)
    BY Typed
  <1>2. /\ phase' \in Seq(Phases) /\ Len(phase') = Len(phase) /\ DOMAIN phase' = DOMAIN phase
        /\ Cardinality(UpLoops) \in Nat /\ Cardinality(UpLoops') \in Nat
        /\ Cardinality(UpLoops') >= Cardinality(UpLoops)
        /\ phase[l] \notin {"looping", "done"} /\ p \in {"looping", "done"} =>
              Cardinality(UpLoops') = Cardinality(UpLoops) + 1
    <2> DEFINE t == [phase EXCEPT ![l] = p]
    <2>1. /\ t \in Seq(Phases) /\ Len(t) = Len(phase) /\ DOMAIN t = DOMAIN phase
          /\ Cardinality(UpLoops) \in Nat
          /\ Cardinality({i \in DOMAIN t : t[i] \in {"looping", "done"}}) \in Nat
          /\ Cardinality({i \in DOMAIN t : t[i] \in {"looping", "done"}}) >= Cardinality(UpLoops)
          /\ phase[l] \notin {"looping", "done"} /\ p \in {"looping", "done"} =>
                Cardinality({i \in DOMAIN t : t[i] \in {"looping", "done"}}) = Cardinality(UpLoops) + 1
      BY <1>1, UpGrows, ZenonT(60) DEF UpLoops
    <2>2. UpLoops' = {i \in DOMAIN t : t[i] \in {"looping", "done"}}
      BY DEF UpLoops
    <2> HIDE DEF t
    <2> QED BY <2>1, <2>2 DEF t
  <1>3. phase'[l] = p /\ (\A i \in DOMAIN phase : i # l => phase'[i] = phase[i])
    OBVIOUS
  <1> QED BY <1>2, <1>3

\* What does not touch the phases changes nothing about who is up.
LEMMA UpSame == ASSUME phase' = phase PROVE UpLoops' = UpLoops
  BY DEF UpLoops

-----------------------------------------------------------------------------
\* listen() begins: there are no loops yet, and will be none but its own.
LEMMA CallListenStep == ASSUME LInv, UsedOnce, CallListen PROVE LInv'
  <1> USE DEF CallListen, loopVars, ctlVars
  <1>1. listens = 0 /\ listens' = 1 /\ Len(phase) = 0 /\ Len(loops) = 0
    BY Typed DEF UsedOnce, LInv, Built
  <1>2. TypeOK'
    BY <1>1, Typed, LifecycleAssumption DEF LInv, TypeOK, UsedOnce
  <1>3. Built'
    BY <1>1, Typed DEF LInv, Built
  <1>4. Counted' /\ Told' /\ IteratesLiveLoops'
    BY UpSame DEF LInv, Counted, Told, Ending, IteratesLiveLoops
  <1> QED BY <1>2, <1>3, <1>4 DEF LInv

\* The vector grows while no shutdown() goes over it that found it full.
LEMMA BuildLoopStep == ASSUME LInv, UsedOnce, BuildLoop PROVE LInv'
  <1> USE DEF BuildLoop, ctlVars
  <1>1. Len(phase) = built /\ Len(loops) = built /\ built < threadCount /\ Len(running) = built
        /\ built \in Nat /\ listens = 1
    BY Typed DEF LInv, Built
  <1>2. ctl = "stopping" => ~iter.whole
    BY <1>1, Typed DEF LInv, Told
  <1>2a. iter'.whole = iter.whole /\ iter'.next = iter.next
    BY DEF LInv, TypeOK, Invalidate
  <1>3. /\ phase' \in Seq(Phases) /\ Len(phase') = built + 1 /\ UpLoops' = UpLoops
        /\ DOMAIN phase' = 1 .. built + 1
    BY <1>1, Typed, UpAppend DEF UpLoops
  <1>4. /\ running' \in Seq(BOOLEAN) /\ Len(running') = built + 1 /\ DOMAIN running' = 1 .. built + 1
    BY <1>1, Typed
  <1>5. loops' = Append(loops, built + 1) /\ loops \in Seq(1 .. built)
    BY <1>1, Typed
  <1>6. loops' \in Seq(1 .. built + 1) /\ Len(loops') = built + 1
    <2>1. loops \in Seq(1 .. built + 1)
      BY <1>1, <1>5
    <2> QED BY <1>1, <1>5, <2>1
  <1>7. \A i \in 1 .. built + 1 : loops'[i] = i
    <2>1. \A i \in 1 .. built : loops[i] = i
      BY DEF LInv, Built
    <2> QED BY <1>1, <1>5, <2>1
  <1>8. \A l \in 1 .. built : phase'[l] = phase[l]
    BY <1>1, Typed
  <1>9. phase'[built + 1] = "new"
    BY <1>1, Typed
  <1>10. iter' \in [next : Nat \ {0}, last : Nat, stale : BOOLEAN, whole : BOOLEAN]
    BY DEF LInv, TypeOK, Invalidate
  <1>11. TypeOK'
    <2>1. readyCount' \in 0 .. Len(phase') /\ built' \in 0 .. threadCount'
      BY <1>1, <1>3, Typed DEF LInv, TypeOK
    <2> QED BY <1>3, <1>4, <1>6, <1>10, <2>1 DEF LInv, TypeOK, Phases
  <1>12. Built'
    <2>1. \A l \in DOMAIN phase' : l > threads' => phase'[l] = "new"
      BY <1>1, <1>3, <1>8, <1>9, Typed DEF LInv, Built
    <2> QED BY <1>1, <1>3, <1>6, <1>7, <2>1, Typed DEF LInv, Built
  <1>13. Counted' /\ Told' /\ IteratesLiveLoops'
    BY <1>1, <1>2, <1>2a, <1>3 DEF LInv, Counted, Told, IteratesLiveLoops
  <1> QED BY <1>11, <1>12, <1>13 DEF LInv

\* The loop a thread starts is the one of its number, and nobody ran it before.
LEMMA StartRunStep == ASSUME LInv, UsedOnce, RunHere \/ SpawnWorker PROVE LInv'
  <1> USE DEF RunHere, SpawnWorker, StartRun, ctlVars
  <1>1. /\ main = "building" /\ Len(phase) = threadCount /\ Len(loops) = threadCount
        /\ built = threadCount /\ listens = 1
    BY Typed DEF LInv, Built
  <1>2. PICK l \in 1 .. threadCount : /\ phase' = [phase EXCEPT ![l] = "setup"]
                                      /\ RunHere => l = 1
                                      /\ SpawnWorker => threads' = l
                                      /\ l = threads + 1
    <2>1. \A i \in 1 .. threadCount : loops[i] = i
      BY <1>1 DEF LInv, Built
    <2>2. CASE RunHere
      <3>1. threads = 0 /\ 1 \in 1 .. threadCount
        BY <2>2, Typed DEF LInv, Built
      <3>2. loops[1] = 1 /\ threads + 1 = 1 /\ ~SpawnWorker
        BY <2>1, <2>2, <3>1
      <3>3. phase' = [phase EXCEPT ![1] = "setup"]
        BY <2>2, <3>2
      <3> QED BY <3>1, <3>2, <3>3
    <2>3. CASE SpawnWorker
      <3>1. threads + 1 \in 1 .. threadCount
        BY <2>3, Typed
      <3> QED BY <2>1, <2>3, <3>1
    <2> QED BY <2>2, <2>3
  <1>3. l \in DOMAIN phase /\ phase[l] = "new"
    <2>1. l \in DOMAIN phase /\ l > threads
      BY <1>1, <1>2, Typed
    <2> QED BY <1>1, <2>1 DEF LInv, Built
  <1>4. /\ phase' \in Seq(Phases) /\ Len(phase') = Len(phase) /\ DOMAIN phase' = DOMAIN phase
        /\ phase'[l] = "setup" /\ (\A i \in DOMAIN phase : i # l => phase'[i] = phase[i])
        /\ Cardinality(UpLoops) \in Nat /\ Cardinality(UpLoops') \in Nat
        /\ Cardinality(UpLoops') >= Cardinality(UpLoops)
    <2>1. "setup" \in Phases
      BY DEF Phases
    <2> QED BY <1>2, <1>3, <2>1, PhaseStep
  <1>5. TypeOK'
    <2>1. threads' \in 0 .. threadCount
      BY <1>2, Typed DEF LInv, TypeOK
    <2> QED BY <1>4, <2>1, Typed DEF LInv, TypeOK, Phases
  <1>6. Built'
    <2>1. main' = "building" => \A i \in DOMAIN phase' : i > threads' => phase'[i] = "new"
      BY <1>1, <1>2, <1>4, Typed DEF LInv, Built
    <2> QED BY <1>1, <1>2, <1>4, <2>1, Typed DEF LInv, Built
  <1>7. Counted'
    BY <1>4, Typed DEF LInv, Counted
  <1>8. Told' /\ IteratesLiveLoops'
    <2>1. main' = "running" => ~Ending'
      BY <1>1, <1>2, <1>4 DEF Ending
    <2> QED BY <2>1 DEF LInv, Told, IteratesLiveLoops
  <1> QED BY <1>5, <1>6, <1>7, <1>8 DEF LInv

\* listen() gives its vector up when its loop has been told to end, which is when
\* the iteration of shutdown() is past it.
LEMMA ReturnStep == ASSUME LInv, UsedOnce, ReturnSingle \/ ReturnJoined PROVE LInv'
  <1> USE DEF ReturnSingle, ReturnJoined, loopVars, ctlVars
  <1>1. phase' = phase /\ UpLoops' = UpLoops /\ main' = "out" /\ listens' = 1 /\ listens = 1
    BY UpSame, Typed DEF LInv, Built
  <1>2. loops' \in Seq(DOMAIN phase) /\ Len(loops') <= threadCount
    <2>1. CASE ReturnSingle
      <3>1. << >> \in Seq(DOMAIN phase) /\ Len(<< >>) = 0
        OBVIOUS
      <3> QED BY <2>1, <3>1, Typed
    <2>2. CASE ReturnJoined
      BY <2>2, Typed DEF LInv, Built
    <2> QED BY <2>1, <2>2
  <1>3. iter' \in [next : Nat \ {0}, last : Nat, stale : BOOLEAN, whole : BOOLEAN]
        /\ iter'.next = iter.next /\ iter'.last = iter.last /\ iter'.whole = iter.whole
    BY DEF LInv, TypeOK, Invalidate
  <1>4. IteratesLiveLoops'
    <2>1. CASE ReturnSingle
      <3>1. threadCount = 1 /\ loops[1] = 1 /\ Ending
        BY <2>1 DEF LInv, Built, Ending
      <3>2. iter.next > 1 /\ (ctl = "stopping" /\ iter.whole => iter.last <= 1)
        BY <2>1, <3>1 DEF LInv, Told
      <3> QED BY <1>3, <2>1, <3>2, Typed DEF IteratesLiveLoops
    <2>2. CASE ReturnJoined
      BY <2>2 DEF LInv, IteratesLiveLoops
    <2> QED BY <2>1, <2>2
  <1>5. TypeOK'
    <2>1. threads' \in 0 .. threadCount'
      BY Typed DEF LInv, TypeOK
    <2> QED BY <1>1, <1>2, <1>3, <2>1 DEF LInv, TypeOK
  <1>6. Built' /\ Counted' /\ Told'
    BY <1>1, <1>2, <1>3, Typed DEF LInv, Built, Counted, Told
  <1> QED BY <1>4, <1>5, <1>6 DEF LInv

\* A sequence with one element replaced, or none, is a sequence.
LEMMA ExceptType ==
    ASSUME NEW S, NEW s \in Seq(S), NEW x, NEW v \in S
    PROVE  [s EXCEPT ![x] = v] \in Seq(S) /\ DOMAIN [s EXCEPT ![x] = v] = DOMAIN s
  <1> DEFINE t == [i \in 1 .. Len(s) |-> IF i = x THEN v ELSE s[i]]
  <1>1. [s EXCEPT ![x] = v] = t
    OBVIOUS
  <1>2. t \in Seq(S) /\ DOMAIN t = DOMAIN s
    OBVIOUS
  <1> QED BY <1>1, <1>2

-----------------------------------------------------------------------------
\* A run() goes on: it is counted when it is up, not before, and it does not end
\* before its running_ is lowered again.
LEMMA RunStep ==
    ASSUME LInv, UsedOnce, NEW l \in DOMAIN phase, Run(l)
    PROVE  LInv'
  <1> USE DEF ctlVars, mainVars
  <1>1. PICK p \in Phases : /\ phase' = [phase EXCEPT ![l] = p] /\ phase[l] # "new"
                            /\ phase[l] \in {"looping", "done"} => p \in {"looping", "done"}
                            /\ SignalReady(l) => phase[l] = "raised" /\ p = "looping"
                            /\ RaiseRunning(l) => p = "raised"
                            /\ LoopEnds(l) => phase[l] = "looping"
                            /\ p # "new"
    BY DEF Run, RaiseRunning, SetupFails, SignalReady, LoopEnds, Phases
  <1>2. /\ phase' \in Seq(Phases) /\ Len(phase') = Len(phase) /\ DOMAIN phase' = DOMAIN phase
        /\ phase'[l] = p /\ (\A i \in DOMAIN phase : i # l => phase'[i] = phase[i])
        /\ Cardinality(UpLoops) \in Nat /\ Cardinality(UpLoops') \in Nat
        /\ Cardinality(UpLoops') >= Cardinality(UpLoops)
        /\ phase[l] \notin {"looping", "done"} /\ p \in {"looping", "done"} =>
              Cardinality(UpLoops') = Cardinality(UpLoops) + 1
    BY <1>1, PhaseStep
  <1>3. /\ running' \in Seq(BOOLEAN) /\ DOMAIN running' = DOMAIN running
        /\ RaiseRunning(l) => running'[l] = TRUE
        /\ ~RaiseRunning(l) => running' = running
        /\ \A i \in DOMAIN running : i # l => running'[i] = running[i]
    <2>1. CASE RaiseRunning(l)
      <3>1. running' = [running EXCEPT ![l] = TRUE] /\ l \in DOMAIN running
        BY <2>1, Typed DEF RaiseRunning
      <3> QED BY <2>1, <3>1, Typed
    <2>2. CASE SetupFails(l) \/ SignalReady(l) \/ LoopEnds(l)
      BY <2>2, Typed DEF RaiseRunning, SetupFails, SignalReady, LoopEnds
    <2> QED BY <2>1, <2>2 DEF Run
  <1>4. /\ readyCount' \in Nat /\ readyCount' <= Cardinality(UpLoops')
        /\ Cardinality(UpLoops') <= Len(phase)
    <2>1. readyCount <= Cardinality(UpLoops)
      BY DEF LInv, Counted
    <2>2. readyCount' \in Nat /\ readyCount' <= Cardinality(UpLoops')
      <3>1. CASE SignalReady(l)
        <4>1. readyCount' = readyCount + 1 /\ Cardinality(UpLoops') = Cardinality(UpLoops) + 1
          BY <1>1, <1>2, <3>1 DEF SignalReady
        <4> QED BY <1>2, <2>1, <4>1, Typed
      <3>2. CASE RaiseRunning(l) \/ SetupFails(l) \/ LoopEnds(l)
        <4>1. readyCount' = readyCount
          BY <3>2 DEF RaiseRunning, SetupFails, LoopEnds
        <4> QED BY <1>2, <2>1, <4>1, Typed
      <3> QED BY <3>1, <3>2 DEF Run
    <2>4. Cardinality(UpLoops') <= Len(phase)
      <3>1. Cardinality({i \in DOMAIN phase' : phase'[i] \in {"looping", "done"}}) <= Len(phase')
        BY <1>2, UpCount, Zenon
      <3> QED BY <1>2, <3>1 DEF UpLoops
    <2> QED BY <2>2, <2>4
  <1>5. /\ UNCHANGED <<threadCount, loops, built, threads, listens, totalThreads, ctl, answered,
                       shutdowns, iter>>
        /\ main' \in {main, "out"} /\ process' \in {"alive", "terminated"}
    BY DEF Run, RaiseRunning, SetupFails, SignalReady, LoopEnds, LInv, TypeOK
  <1>6. TypeOK'
    <2>1. readyCount' \in 0 .. Len(phase')
      BY <1>2, <1>4, Typed
    <2> QED BY <1>2, <1>3, <1>5, <2>1 DEF LInv, TypeOK, Phases
  <1>7. Built'
    <2>1. main = "building" => l <= threads
      BY <1>1, Typed DEF LInv, Built
    <2>2. main' = "building" => \A i \in DOMAIN phase' : i > threads' => phase'[i] = "new"
      <3> SUFFICES ASSUME main' = "building", NEW i \in DOMAIN phase', i > threads'
                   PROVE  phase'[i] = "new"
        OBVIOUS
      <3>1. main = "building" /\ i \in DOMAIN phase /\ i > threads /\ i # l
        BY <1>2, <1>5, <2>1, Typed
      <3> QED BY <1>2, <3>1 DEF LInv, Built
    <2>3. main' # "out" => main # "out" /\ main' = main
      BY <1>5
    <2> QED BY <1>2, <1>5, <2>2, <2>3 DEF LInv, Built
  <1>8. Counted'
    BY <1>2, <1>4, <1>5 DEF LInv, Counted
  <1>9. Told'
    <2>1. main' = "running" /\ Ending' => Ending
      <3> SUFFICES ASSUME main' = "running", Ending' PROVE Ending
        OBVIOUS
      <3>1. main = "running" /\ Len(phase) = 1 /\ l = 1
        <4>1. main = "running"
          BY <1>5
        <4>2. Len(phase) = 1
          BY <4>1 DEF LInv, Built
        <4> QED BY <4>1, <4>2, Typed
      <3>2. ~SetupFails(l)
        BY <3>1 DEF SetupFails
      <3>3. phase'[1] = p /\ (RaiseRunning(1) => running'[1] = TRUE /\ p = "raised")
        BY <1>1, <1>2, <1>3, <3>1
      <3>4. ~RaiseRunning(1)
        BY <3>3 DEF Ending
      <3>5. CASE SignalReady(1)
        BY <1>1, <1>3, <3>1, <3>3, <3>4, <3>5 DEF Ending
      <3>6. CASE LoopEnds(1)
        BY <3>6 DEF Ending, LoopEnds
      <3> QED BY <3>1, <3>2, <3>4, <3>5, <3>6 DEF Run
    <2>2. main' = "running" => main = "running"
      BY <1>5
    <2> QED BY <1>2, <1>5, <2>1, <2>2 DEF LInv, Told
  <1>10. IteratesLiveLoops'
    BY <1>5 DEF LInv, IteratesLiveLoops
  <1> QED BY <1>6, <1>7, <1>8, <1>9, <1>10 DEF LInv

-----------------------------------------------------------------------------
\* wait_ready() answers true when as many loops have come up as there are threads:
\* they are then all built and all up.
LEMMA AllUp ==
    ASSUME LInv, UsedOnce, totalThreads # 0, readyCount >= totalThreads
    PROVE  /\ Len(phase) = threadCount
           /\ \A l \in 1 .. threadCount : phase[l] \in {"looping", "done"}
  <1>1. totalThreads = threadCount /\ readyCount <= Cardinality(UpLoops) /\ Len(phase) <= threadCount
    BY DEF LInv, TypeOK, Built, Counted
  <1>2. /\ Cardinality(UpLoops) \in Nat /\ Cardinality(UpLoops) <= Len(phase)
        /\ Cardinality(UpLoops) = Len(phase) =>
              \A l \in 1 .. Len(phase) : phase[l] \in {"looping", "done"}
    <2>1. phase \in Seq(Phases)
      BY Typed
    <2> QED BY <2>1, UpCount, Zenon DEF UpLoops
  <1>3. Len(phase) = threadCount /\ Cardinality(UpLoops) = Len(phase)
    BY <1>1, <1>2, Typed
  <1> QED BY <1>2, <1>3

\* The other thread calls, waits and stops; a loop that finds itself stopped was
\* stopped by the one shutdown() there is.
LEMMA ControlStep == ASSUME LInv, UsedOnce, Control PROVE LInv'
  <1> USE DEF mainVars, loopVars
  <1>1. /\ UNCHANGED <<mainVars, phase, readyCount>> /\ UpLoops' = UpLoops
        /\ process' \in {"alive", "terminated"}
    BY UpSame DEF Control, CallWaitReady, WaitReadyTrue, WaitReadyTimesOut, CallShutdown, StopNext,
                  ShutdownReturns, ctlVars, LInv, TypeOK
  <1>2. Built'
    BY <1>1 DEF LInv, Built
  <1>3. CASE CallWaitReady \/ WaitReadyTrue \/ WaitReadyTimesOut \/ ShutdownReturns
    <2> USE DEF CallWaitReady, WaitReadyTrue, WaitReadyTimesOut, ShutdownReturns
    <2>1. /\ UNCHANGED <<running, shutdowns, iter>> /\ ctl' \in {"free", "waiting"}
          /\ answered' \in BOOLEAN /\ (ctl' = "waiting" => ~answered')
      BY <1>3 DEF LInv, TypeOK
    <2>3. TypeOK'
      BY <1>1, <2>1 DEF LInv, TypeOK
    <2>4. Counted'
      BY <1>1 DEF LInv, Counted
    <2>5. Told' /\ IteratesLiveLoops'
      BY <1>1, <2>1 DEF LInv, Told, Ending, IteratesLiveLoops
    <2> QED BY <1>2, <2>3, <2>4, <2>5 DEF LInv
  <1>4. CASE CallShutdown
    <2> USE DEF CallShutdown
    <2>1. /\ answered' = answered /\ shutdowns = 0 /\ shutdowns' = 1 /\ ctl' = "stopping"
          /\ iter'.last = Len(loops) /\ iter'.stale = FALSE /\ running' = running
          /\ iter'.whole => main # "out" /\ built = threadCount
          /\ iter' \in [next : Nat \ {0}, last : Nat, stale : BOOLEAN, whole : BOOLEAN]
      <3> DEFINE w == main # "out" /\ built = threadCount
      <3>1. /\ answered' = answered /\ shutdowns < MaxShutdowns /\ shutdowns' = shutdowns + 1
            /\ ctl' = "stopping" /\ running' = running
            /\ iter' = [next |-> 1, last |-> Len(loops), stale |-> FALSE, whole |-> w]
        BY <1>4
      <3>2. w \in BOOLEAN
        OBVIOUS
      <3>3. w => main # "out" /\ built = threadCount
        OBVIOUS
      <3> HIDE DEF w
      <3> QED BY <3>1, <3>2, <3>3, Typed DEF UsedOnce
    <2>2. TypeOK'
      BY <1>1, <2>1 DEF LInv, TypeOK, UsedOnce
    <2>3. Counted'
      BY <1>1, <2>1 DEF LInv, Counted
    <2>4. Told'
      <3>1. ~(main = "running" /\ Ending)
        BY <2>1 DEF LInv, Told
      <3>2. ~(main' = "running" /\ Ending')
        BY <1>1, <2>1, <3>1 DEF Ending
      <3> QED BY <1>1, <2>1, <3>2 DEF LInv, Built, Told
    <2>5. IteratesLiveLoops'
      BY <2>1 DEF IteratesLiveLoops
    <2> QED BY <1>2, <2>2, <2>3, <2>4, <2>5 DEF LInv
  <1>5. CASE StopNext
    <2> USE DEF StopNext, ctlVars
    <2>1. /\ UNCHANGED <<ctl, answered, shutdowns>> /\ ctl = "stopping" /\ shutdowns = 1
          /\ iter'.next = iter.next + 1 /\ iter'.last = iter.last /\ iter'.stale = iter.stale
          /\ iter'.whole = iter.whole
          /\ iter' \in [next : Nat \ {0}, last : Nat, stale : BOOLEAN, whole : BOOLEAN]
      <3>1. iter \in [next : Nat \ {0}, last : Nat, stale : BOOLEAN, whole : BOOLEAN]
        BY DEF LInv, TypeOK
      <3>2. iter' = [iter EXCEPT !.next = iter.next + 1] /\ iter.next + 1 \in Nat \ {0}
        BY <1>5, <3>1
      <3>3. shutdowns = 1
        BY <1>5 DEF LInv, Told
      <3> QED BY <1>5, <3>1, <3>2, <3>3
    <2>2. running' \in Seq(BOOLEAN) /\ DOMAIN running' = DOMAIN running
      <3>1. CASE iter.stale
        BY <1>5, <3>1, Typed
      <3>2. CASE ~iter.stale
        <4>1. running' = [running EXCEPT ![loops[iter.next]] = FALSE]
          BY <1>5, <3>2
        <4> QED BY <4>1, Typed, ExceptType
      <3> QED BY <3>1, <3>2
    <2>3. TypeOK'
      BY <1>1, <2>1, <2>2 DEF LInv, TypeOK
    <2>4. Counted'
      BY <1>1, <2>1 DEF LInv, Counted
    <2>5. Told' /\ IteratesLiveLoops'
      BY <1>1, <2>1, Typed DEF LInv, Told, IteratesLiveLoops
    <2> QED BY <1>2, <2>3, <2>4, <2>5 DEF LInv
  <1> QED BY <1>3, <1>4, <1>5 DEF Control

-----------------------------------------------------------------------------
\* Every step keeps the invariant.
LEMMA LStep == ASSUME UsedOnce PROVE LInv /\ [Next]_vars => LInv'
  <1> SUFFICES ASSUME LInv, [Next]_vars PROVE LInv'
    OBVIOUS
  <1>1. CASE Listen
    BY <1>1, CallListenStep, BuildLoopStep, StartRunStep, ReturnStep DEF Listen
  <1>2. CASE Control
    BY <1>2, ControlStep
  <1>3. CASE \E l \in DOMAIN phase : Run(l)
    BY <1>3, RunStep
  <1>4. CASE UNCHANGED vars
    <2> USE <1>4 DEF vars, mainVars, loopVars, ctlVars
    <2>1. UpLoops' = UpLoops
      BY UpSame
    <2>2. TypeOK' /\ Built' /\ IteratesLiveLoops'
      BY DEF LInv, TypeOK, Built, IteratesLiveLoops
    <2>3. Counted' /\ Told'
      BY <2>1 DEF LInv, Counted, Told, Ending
    <2> QED BY <2>2, <2>3 DEF LInv
  <1> QED BY <1>1, <1>2, <1>3, <1>4 DEF Next

\* However one listen(), its loops' threads, calls of wait_ready() and one
\* shutdown() interleave, the invariant holds.
THEOREM LifecycleInvariant == UsedOnce => (Spec => []LInv)
  <1> SUFFICES ASSUME UsedOnce PROVE Spec => []LInv
    OBVIOUS
  <1>1. Init => LInv
    BY LInit
  <1>2. LInv /\ [Next]_vars => LInv'
    BY LStep
  <1> QED BY <1>1, <1>2, PTL DEF Spec

\* With one listen() and one shutdown() the types hold, and no loop is counted
\* twice or before it exists (ready_count of app.cpp).
THEOREM LifecycleTyped == UsedOnce => (Spec => []TypeOK)
  <1>1. LInv => TypeOK
    BY DEF LInv
  <1> QED BY <1>1, LifecycleInvariant, PTL

\* With one listen() and one shutdown(): if that begins after listen() has created
\* its last loop, it never goes on over a vector that listen() has cleared, though
\* no lock keeps them apart (app.cpp).  Nothing is claimed of a shutdown() that
\* begins while listen() fills the vector, nor of a second one.
THEOREM AlwaysLiveLoops == UsedOnce => (Spec => []IteratesLiveLoops)
  <1>1. LInv => IteratesLiveLoops
    BY DEF LInv
  <1> QED BY <1>1, LifecycleInvariant, PTL

\* With one listen(), wait_ready() returns true only when every loop of it has bound
\* its socket and raised running_, also when shutdown() is called meanwhile
\* (app.cpp); the count is not reset, so that a second listen() is another matter.
THEOREM NeverReadyTooEarly == UsedOnce => (Spec => ReadyMeansAllUp)
  <1> SUFFICES ASSUME UsedOnce PROVE Spec => ReadyMeansAllUp
    OBVIOUS
  <1>1. LInv /\ [Next]_vars =>
          [ctl = "waiting" /\ ctl' = "free" /\ answered' /\ main # "out" =>
              \A i \in 1 .. threadCount : Up(i)]_vars
    <2> SUFFICES ASSUME LInv, Next, ctl = "waiting", ctl' = "free", answered', main # "out"
                 PROVE  \A i \in 1 .. threadCount : Up(i)
      BY DEF Next
    <2>1. ~answered
      BY DEF LInv, Told
    <2>2. WaitReadyTrue
      BY <2>1 DEF Next, Listen, Control, Run, CallListen, BuildLoop, RunHere, SpawnWorker, ReturnSingle,
                  ReturnJoined, RaiseRunning, SetupFails, SignalReady, LoopEnds, CallWaitReady,
                  WaitReadyTimesOut, CallShutdown, StopNext, ShutdownReturns, ctlVars
    <2>3. /\ Len(phase) = threadCount
          /\ \A l \in 1 .. threadCount : phase[l] \in {"looping", "done"}
      BY <2>2, AllUp DEF WaitReadyTrue
    <2>4. Len(loops) = threadCount /\ \A i \in 1 .. threadCount : loops[i] = i
      BY <2>3 DEF LInv, Built
    <2> QED BY <2>3, <2>4, Typed DEF Up
  <1>2. Spec => []LInv
    BY LifecycleInvariant
  <1> QED BY <1>1, <1>2, PTL DEF Spec, ReadyMeansAllUp
====
