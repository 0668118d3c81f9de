----------------------------- MODULE Descriptors -----------------------------
(***************************************************************************)
(* File descriptor numbers.  The backends name a socket by its number, the *)
(* kernel gives a number free again as soon as it is closed, and the table *)
(* is one for the whole process: all worker threads, and io_uring's        *)
(* multishot accepts.  A connection's number is closed where its life ends *)
(* (start_close or close_sync, the kernel for a queued close), and once    *)
(* more by ~connection, since fd_ stays as it is.  An accept for which     *)
(* there is no slot is closed without ever being a connection, and a loop  *)
(* that ends with connections in its slots leaves them to ~connection      *)
(* alone.  Every close is a step of its own, as it is a system call.       *)
(* Only the life of the connections is modelled, their traffic is not.     *)
(***************************************************************************)
EXTENDS Integers, FiniteSets

CONSTANTS Connections,     \* the connections of a run, one life each
          Workers,         \* worker threads, each with its own event loop
          Fds,             \* descriptor numbers (RLIMIT_NOFILE bounds them)
          MaxConnections,  \* slots of a loop (10240 in the code)
          QueueMayFill,    \* acquire_sqe may find no entry, as with SQPOLL
          Backends         \* of "epoll" and "io_uring", those an instance may run on

Unused == "unused"

ASSUME DescriptorAssumption ==
    /\ Fds \subseteq Nat /\ MaxConnections \in Nat
    /\ QueueMayFill \in BOOLEAN /\ Backends \subseteq {"epoll", "io_uring"}
    /\ Unused \notin Connections

VARIABLES table,   \* table[fd]: whose socket the number stands for
          stage,   \* stage[c]: how far connection c has come
          fd,      \* fd[c]: its number: client_fd, then fd_ of the connection object
          ended,   \* the workers whose loop has ended and is being destroyed
          worker,  \* worker[c]: the thread whose loop c belongs to
          backend  \* the backend of the application

fixed == <<worker, backend>>
vars == <<table, stage, fd, ended, fixed>>

\* What a connection in a slot may be doing: served; about to be closed by the
\* thread; its close queued; closed by the kernel; about to be destroyed
InSlot == {"open", "ending", "closing", "closed", "destroying"}

\* Before and after: not yet accepted, accepted but not handled, without a slot
Stages == {"absent", "accepted", "refused", "gone"} \cup InSlot

Init == /\ table = [n \in Fds |-> Unused]
        /\ stage = [c \in Connections |-> "absent"]
        /\ fd = [c \in Connections |-> -1]
        /\ ended = {}
        /\ worker \in [Connections -> Workers] /\ backend \in Backends

\* The kernel installs a socket under the lowest unused number; without one
\* the accept fails with EMFILE and the connection stays in the backlog.
Install(c) ==
    \E n \in Fds :
        /\ table[n] = Unused
        /\ \A m \in Fds : table[m] = Unused => n <= m
        /\ table' = [table EXCEPT ![n] = c]
        /\ fd' = [fd EXCEPT ![c] = n]

\* ::close(n), whoever's socket n stands for by now; EBADF if nobody's
CloseNumber(n) == table' = [table EXCEPT ![n] = Unused]

Becomes(c, s) == stage' = [stage EXCEPT ![c] = s]

\* alloc_conn_id finds no slot
Full(w) == Cardinality({c \in Connections : worker[c] = w /\ stage[c] \in InSlot}) >= MaxConnections

\* Mutant: the destruction of a closed connection is put off
BusyNever(w) == FALSE

\* A thread between an accept or a close and what it does next does nothing else.
Busy(w) == \E c \in Connections :
    /\ worker[c] = w
    /\ \/ stage[c] \in {"refused", "ending", "destroying"}
       \/ backend = "epoll" /\ stage[c] = "accepted"

Idle(w) == w \notin ended /\ ~Busy(w)

\* accept4 returns
EpollAccept(c) ==
    /\ backend = "epoll" /\ stage[c] = "absent" /\ Idle(worker[c])
    /\ Install(c) /\ Becomes(c, "accepted")
    /\ UNCHANGED <<ended, fixed>>

\* The multishot accept installs a descriptor without any thread of ours
KernelAccept(c) ==
    /\ backend = "io_uring" /\ stage[c] = "absent" /\ worker[c] \notin ended
    /\ Install(c) /\ Becomes(c, "accepted")
    /\ UNCHANGED <<ended, fixed>>

\* The thread goes on with an accept: with epoll at once, with io_uring when it
\* handles the completion
AtAccept(c) ==
    /\ stage[c] = "accepted" /\ (backend = "epoll" \/ Idle(worker[c]))
    /\ UNCHANGED <<table, fd, ended, fixed>>

\* emplace: there is a slot
HandleAccept(c) == AtAccept(c) /\ ~Full(worker[c]) /\ Becomes(c, "open")

\* There is none
RefuseAccept(c) == AtAccept(c) /\ Full(worker[c]) /\ Becomes(c, "refused")

\* Mutant: the refused descriptor is forgotten
CloseRefusedNever(c) ==
    /\ stage[c] = "refused"
    /\ Becomes(c, "gone")
    /\ UNCHANGED <<table, fd, ended, fixed>>

\* ::close(client_fd)
CloseRefused(c) ==
    /\ stage[c] = "refused"
    /\ CloseNumber(fd[c]) /\ Becomes(c, "gone")
    /\ UNCHANGED <<fd, ended, fixed>>

\* start_close of epoll; close_sync, and start_close of io_uring without an entry
CloseNow(c) ==
    /\ stage[c] = "open" /\ Idle(worker[c]) /\ Becomes(c, "ending")
    /\ backend = "epoll" \/ QueueMayFill
    /\ UNCHANGED <<table, fd, ended, fixed>>

\* start_close of io_uring: the close is queued
QueueClose(c) ==
    /\ backend = "io_uring" /\ stage[c] = "open" /\ Idle(worker[c]) /\ Becomes(c, "closing")
    /\ UNCHANGED <<table, fd, ended, fixed>>

\* ::close in start_close or close_sync; free_conn_id is next
FirstClose(c) ==
    /\ stage[c] = "ending"
    /\ CloseNumber(fd[c]) /\ Becomes(c, "destroying")
    /\ UNCHANGED <<fd, ended, fixed>>

\* The kernel carries out the queued close
KernelClose(c) ==
    /\ stage[c] = "closing" /\ worker[c] \notin ended
    /\ CloseNumber(fd[c]) /\ Becomes(c, "closed")
    /\ UNCHANGED <<fd, ended, fixed>>

\* The completion of the close is handled: free_conn_id
HandleClose(c) ==
    /\ stage[c] = "closed" /\ Idle(worker[c]) /\ Becomes(c, "destroying")
    /\ UNCHANGED <<table, fd, ended, fixed>>

\* run() returns, and the loop's destructor closes the ring or the epoll descriptor
EndLoop(w) ==
    /\ Idle(w) /\ ended' = ended \cup {w}
    /\ UNCHANGED <<table, stage, fd, fixed>>

\* ~connection: fd_ is still the old number.  Run by free_conn_id, or for every
\* slot that is taken when the loop is destroyed
SecondClose(c) ==
    /\ \/ stage[c] = "destroying"
       \/ stage[c] \in InSlot /\ worker[c] \in ended
    /\ CloseNumber(fd[c]) /\ Becomes(c, "gone")
    /\ UNCHANGED <<fd, ended, fixed>>

Next == \/ \E c \in Connections :
             \/ EpollAccept(c) \/ KernelAccept(c) \/ HandleAccept(c)
             \/ RefuseAccept(c) \/ CloseRefused(c)
             \/ CloseNow(c) \/ QueueClose(c) \/ FirstClose(c)
             \/ KernelClose(c) \/ HandleClose(c) \/ SecondClose(c)
        \/ \E w \in Workers : EndLoop(w)

Spec == Init /\ [][Next]_vars

-----------------------------------------------------------------------------
\* Type invariant: the table holds connections or nothing, and a connection
\* that has been accepted knows its number.
TypeOK ==
    /\ table \in [Fds -> Connections \cup {Unused}]
    /\ stage \in [Connections -> Stages]
    /\ ended \subseteq Workers
    /\ worker \in [Connections -> Workers] /\ backend \in Backends
    /\ fd \in [Connections -> Fds \cup {-1}]
    /\ \A c \in Connections : stage[c] # "absent" => fd[c] \in Fds

\* From the accept to the close that is meant for it
Holding == {"accepted", "refused", "open", "ending", "closing"}

\* A connection that is served, or waits to be, has its descriptor: no close of
\* another one, by start_close or ~connection, takes the number away under it.
KeepsDescriptor ==
    \A c \in Connections : stage[c] \in Holding => table[fd[c]] = c

\* The same of the epoll backend, where start_close and the ~connection in
\* free_conn_id follow each other without an accept between them.
EpollKeepsDescriptor == backend = "epoll" => KeepsDescriptor

(***************************************************************************)
(* No descriptor is left behind, on whatever path a connection ends: an    *)
(* accept that is refused for want of a slot, start_close, close_sync, a   *)
(* queued close that the kernel carries out, or ~connection alone when the *)
(* loop is destroyed.  A number stands for a connection only until the     *)
(* close of its path, and then for it no more, while other threads and the *)
(* kernel take and close numbers in between.                               *)
(***************************************************************************)
NoDescriptorLeaks == \A c \in Connections, n \in Fds : table[n] = c => stage[c] \in Holding
==============================================================================
