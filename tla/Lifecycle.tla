------------------------------ MODULE Lifecycle ------------------------------
(***************************************************************************)
(* Start and stop of a server, src/app.cpp: one thread calls listen(),     *)
(* which creates the event loops and runs them, on itself if there is one  *)
(* and else on a worker thread each; another thread calls wait_ready() and *)
(* shutdown() meanwhile.  The two share impl_->loops, a plain vector, the  *)
(* plain bool running_ of every loop and the two atomic counters; nothing  *)
(* is locked.  Of a loop's run() only what concerns its start and its end  *)
(* is modelled: it binds its socket, raises running_, adds itself to       *)
(* ready_count, and returns once it finds running_ false (epoll_wait comes *)
(* back every second, io_uring's timer every five).                        *)
(***************************************************************************)
EXTENDS Integers, Sequences

CONSTANTS ThreadCounts,   \* the values of threads() to try
          MaxListens,     \* bound: calls of listen(), one after the other
          MaxShutdowns,   \* bound: calls of shutdown()
          BindMayFail     \* create_listen_socket may throw

ASSUME LifecycleAssumption ==
    /\ ThreadCounts \subseteq Nat \ {0} /\ MaxListens \in Nat /\ MaxShutdowns \in Nat
    /\ BindMayFail \in BOOLEAN

VARIABLES threadCount,   \* num_threads
          loops,         \* impl_->loops: the numbers of the loop objects in it
          built,         \* loops this listen() has created
          threads,       \* size of impl_->threads
          running,       \* running_ of each loop object ever created
          phase,         \* how far its run() is
          main,          \* where listen() is; "out": nobody is in it
          listens,       \* calls of listen() so far
          totalThreads, readyCount,
          process,       \* "alive" or "terminated" (std::terminate)
          ctl,           \* what the other thread does: "free", "waiting", "stopping"
          answered,      \* the last answer of wait_ready()
          iter,          \* shutdown()'s iteration over loops: [next, last, stale],
                         \* and whether listen() had filled the vector: whole
          shutdowns      \* calls of shutdown() so far

mainVars == <<threadCount, loops, built, threads, main, listens, totalThreads>>
loopVars == <<running, phase, readyCount>>
ctlVars  == <<ctl, answered, shutdowns>>
vars == <<mainVars, loopVars, process, ctlVars, iter>>

Init == /\ threadCount \in ThreadCounts
        /\ loops = << >> /\ built = 0 /\ threads = 0
        /\ running = << >> /\ phase = << >>
        /\ main = "out" /\ listens = 0 /\ totalThreads = 0 /\ readyCount = 0
        /\ process = "alive"
        /\ ctl = "free" /\ answered = FALSE /\ shutdowns = 0
        /\ iter = [next |-> 1, last |-> 0, stale |-> FALSE, whole |-> FALSE]

-----------------------------------------------------------------------------
(* listen()                                                                *)

\* The storage of loops is given up under an iteration that goes over it
Invalidate == iter' = [iter EXCEPT !.stale = TRUE]

CallListen ==
    /\ main = "out" /\ listens < MaxListens /\ listens' = listens + 1
    /\ totalThreads' = threadCount
    /\ main' = "building" /\ built' = 0
    /\ UNCHANGED <<threadCount, loops, threads, loopVars, process, ctlVars, iter>>

\* A vector of this size is full (it grows by doubling): push_back moves it.
Grows == Len(loops) \in {0, 1, 2, 4, 8}

\* loops.push_back(create_loop(...)); a new loop has running_ = false
BuildLoop ==
    /\ main = "building" /\ built < threadCount
    /\ built' = built + 1
    /\ running' = Append(running, FALSE) /\ phase' = Append(phase, "new")
    /\ loops' = Append(loops, Len(running) + 1)
    /\ IF Grows THEN Invalidate ELSE UNCHANGED iter
    /\ UNCHANGED <<threadCount, threads, main, listens, totalThreads, readyCount, process, ctlVars>>

\* The i-th thread of this listen() runs the i-th loop of the vector
StartRun(i) == phase' = [phase EXCEPT ![loops[i]] = "setup"]

\* A single loop runs on the calling thread
RunHere ==
    /\ main = "building" /\ built = threadCount /\ threadCount = 1
    /\ StartRun(1) /\ main' = "running"
    /\ UNCHANGED <<threadCount, loops, built, threads, listens, totalThreads, running, readyCount,
                   process, ctlVars, iter>>

SpawnWorker ==
    /\ main = "building" /\ built = threadCount /\ threadCount > 1 /\ threads < threadCount
    /\ threads' = threads + 1 /\ StartRun(threads')
    /\ UNCHANGED <<threadCount, loops, built, main, listens, totalThreads, running, readyCount,
                   process, ctlVars, iter>>

\* loops.clear() once the only loop has returned
ReturnSingle ==
    /\ main = "running" /\ phase[loops[1]] = "done"
    /\ loops' = << >> /\ Invalidate /\ main' = "out"
    /\ UNCHANGED <<threadCount, built, threads, listens, totalThreads, loopVars, process, ctlVars>>

\* All workers joined; threads is cleared, loops is not
ReturnJoined ==
    /\ main = "building" /\ threadCount > 1 /\ threads = threadCount
    /\ \A i \in 1 .. threadCount : phase[loops[i]] = "done"
    /\ threads' = 0 /\ main' = "out"
    /\ UNCHANGED <<threadCount, loops, built, listens, totalThreads, loopVars, process, ctlVars, iter>>

-----------------------------------------------------------------------------
(* run() of loop l                                                         *)

\* Mutant: the loop counts itself here already, and once more when it is ready
RaiseRunningCounts(l) ==
    /\ phase[l] = "setup" /\ phase' = [phase EXCEPT ![l] = "raised"]
    /\ running' = [running EXCEPT ![l] = TRUE] /\ readyCount' = readyCount + 1
    /\ UNCHANGED <<mainVars, process, ctlVars, iter>>

\* Set-up done: running_ = true
RaiseRunning(l) ==
    /\ phase[l] = "setup" /\ phase' = [phase EXCEPT ![l] = "raised"]
    /\ running' = [running EXCEPT ![l] = TRUE]
    /\ UNCHANGED <<mainVars, readyCount, process, ctlVars, iter>>

\* The listen socket cannot be had: the exception leaves listen(), or ends the
\* process when it leaves a worker thread
SetupFails(l) ==
    /\ BindMayFail /\ phase[l] = "setup"
    /\ phase' = [phase EXCEPT ![l] = "done"]
    /\ IF main = "running"
       THEN main' = "out" /\ UNCHANGED process
       ELSE process' = "terminated" /\ UNCHANGED main
    /\ UNCHANGED <<threadCount, loops, built, threads, listens, totalThreads, running, readyCount,
                   ctlVars, iter>>

\* Mutant: running_ is raised once more when the loop reports that it is ready
SignalReadyRaises(l) ==
    /\ phase[l] = "raised" /\ phase' = [phase EXCEPT ![l] = "looping"]
    /\ running' = [running EXCEPT ![l] = TRUE] /\ readyCount' = readyCount + 1
    /\ UNCHANGED <<mainVars, process, ctlVars, iter>>

SignalReady(l) ==
    /\ phase[l] = "raised" /\ phase' = [phase EXCEPT ![l] = "looping"]
    /\ readyCount' = readyCount + 1
    /\ UNCHANGED <<mainVars, running, process, ctlVars, iter>>

\* Mutant: a wait that is interrupted ends the loop too
LoopEndsInterrupted(l) ==
    /\ phase[l] = "looping" /\ phase' = [phase EXCEPT ![l] = "done"]
    /\ UNCHANGED <<mainVars, running, readyCount, process, ctlVars, iter>>

\* while (running_) ends
LoopEnds(l) ==
    /\ phase[l] = "looping" /\ ~running[l] /\ phase' = [phase EXCEPT ![l] = "done"]
    /\ UNCHANGED <<mainVars, running, readyCount, process, ctlVars, iter>>

-----------------------------------------------------------------------------
(* wait_ready() and shutdown()                                             *)

CallWaitReady ==
    /\ ctl = "free" /\ ctl' = "waiting" /\ answered' = FALSE
    /\ UNCHANGED <<mainVars, loopVars, process, shutdowns, iter>>

\* Mutant: one ready thread is enough
WaitReadyTrueForOne ==
    /\ ctl = "waiting" /\ totalThreads # 0 /\ readyCount >= 1
    /\ ctl' = "free" /\ answered' = TRUE
    /\ UNCHANGED <<mainVars, loopVars, process, shutdowns, iter>>

WaitReadyTrue ==
    /\ ctl = "waiting" /\ totalThreads # 0 /\ readyCount >= totalThreads
    /\ ctl' = "free" /\ answered' = TRUE
    /\ UNCHANGED <<mainVars, loopVars, process, shutdowns, iter>>

WaitReadyTimesOut ==
    /\ ctl = "waiting" /\ ctl' = "free"
    /\ UNCHANGED <<mainVars, loopVars, process, answered, shutdowns, iter>>

\* for (auto& loop : loops): begin and end are taken at the start
CallShutdown ==
    /\ ctl = "free" /\ shutdowns < MaxShutdowns
    /\ ctl' = "stopping" /\ shutdowns' = shutdowns + 1
    /\ iter' = [next |-> 1, last |-> Len(loops), stale |-> FALSE,
                whole |-> main # "out" /\ built = threadCount]
    /\ UNCHANGED <<mainVars, loopVars, process, answered>>

\* loop->stop(): running_ = false.  Through a stale iterator anything may
\* happen: a loop that is no longer there is stopped, or the process ends.
StopNext ==
    /\ ctl = "stopping" /\ iter.next <= iter.last
    /\ iter' = [iter EXCEPT !.next = @ + 1]
    /\ IF iter.stale
       THEN process' \in {"alive", "terminated"} /\ UNCHANGED running
       ELSE running' = [running EXCEPT ![loops[iter.next]] = FALSE] /\ UNCHANGED process
    /\ UNCHANGED <<mainVars, phase, readyCount, ctlVars>>

ShutdownReturns ==
    /\ ctl = "stopping" /\ iter.next > iter.last /\ ctl' = "free"
    /\ UNCHANGED <<mainVars, loopVars, process, answered, shutdowns, iter>>

-----------------------------------------------------------------------------
Listen == CallListen \/ BuildLoop \/ RunHere \/ SpawnWorker \/ ReturnSingle \/ ReturnJoined
Run(l) == RaiseRunning(l) \/ SetupFails(l) \/ SignalReady(l) \/ LoopEnds(l)
Control == CallWaitReady \/ WaitReadyTrue \/ WaitReadyTimesOut \/ CallShutdown
           \/ StopNext \/ ShutdownReturns

Next == process = "alive" /\ (Listen \/ Control \/ \E l \in DOMAIN phase : Run(l))

Spec == Init /\ [][Next]_vars

\* Threads that can go on do: listen() through its loops, each run() through
\* its start and, once it is stopped, to its end, shutdown() to its return.
Loops == 1 .. 16

Fairness == /\ WF_vars(process = "alive" /\ Listen)
            /\ WF_vars(process = "alive" /\ (StopNext \/ ShutdownReturns))
            /\ \A l \in Loops : WF_vars(process = "alive" /\ l \in DOMAIN phase /\ Run(l))

FairSpec == Spec /\ Fairness

-----------------------------------------------------------------------------
(* Properties.                                                             *)

\* Type invariant: the counters stay within what was created.
TypeOK ==
    /\ threadCount \in ThreadCounts
    /\ loops \in Seq(DOMAIN phase) /\ DOMAIN phase = DOMAIN running
    /\ built \in 0 .. threadCount /\ threads \in 0 .. threadCount
    /\ running \in Seq(BOOLEAN)
    /\ phase \in Seq({"new", "setup", "raised", "looping", "done"})
    /\ main \in {"out", "building", "running"} /\ process \in {"alive", "terminated"}
    /\ listens \in 0 .. MaxListens /\ totalThreads \in {0, threadCount}
    /\ readyCount \in 0 .. Len(phase) /\ shutdowns \in 0 .. MaxShutdowns
    /\ ctl \in {"free", "waiting", "stopping"} /\ answered \in BOOLEAN
    /\ iter \in [next : Nat \ {0}, last : Nat, stale : BOOLEAN, whole : BOOLEAN]

Up(i) == i <= Len(loops) /\ phase[loops[i]] \in {"looping", "done"}

\* wait_ready() is true only when every thread of the listen() in progress has
\* finished its initialization.
ReadyMeansAllUp ==
    [][ctl = "waiting" /\ ctl' = "free" /\ answered' /\ main # "out" =>
          \A i \in 1 .. threadCount : Up(i)]_vars

\* A shutdown() that begins when listen() has created all its loops, however far
\* their threads are, never goes on over a vector that listen() has cleared: it
\* returns only when shutdown() is through.  (One that begins while listen() fills
\* the vector may find it moved.)
IteratesLiveLoops ==
    ctl = "stopping" /\ iter.whole /\ iter.stale => iter.next > iter.last

AllRaised == \A l \in DOMAIN phase : phase[l] \in {"raised", "looping"}

\* A shutdown() that begins when every loop has raised running_, be it before the
\* loop has reported itself ready or begun to wait for events, makes every thread
\* return and with them listen().  (A loop that raises running_ after its stop()
\* overwrites the request.)
ShutdownEndsListen ==
    (ctl = "stopping" /\ iter.whole /\ iter.next = 1 /\ main # "out" /\ AllRaised)
        ~> main = "out"
==============================================================================
