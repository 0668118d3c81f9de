# A TLA+ model of voie

voie is an HTTP/1.1 server library in C++23: an application registers routes,
middleware and handlers, `app::listen()` runs one event loop per thread over
epoll or io_uring, and each loop serves its connections without locks. This
directory models the parts of it that carry its logic, checks them with TLC on
small instances, and proves the central ones with TLAPS for every value of the
constants. `PROJECT.json` maps each definition to the source lines it stands
for.

Contents: [inventory](#1-inventory), [modules](#2-modules-and-the-code),
[runs](#3-what-the-runs-check), [fairness](#4-fairness),
[proofs](#5-what-is-proved), [disagreements](#6-where-the-code-disagrees-with-what-is-said-of-it),
[not modelled](#7-what-is-not-modelled), [plan](#8-plan),
[running it](#9-running-it). Paths without a directory are under `src/src/`.

## 1. Inventory

| Component | State | Operations | Must hold |
|---|---|---|---|
| Connection object (`connection.{h,cpp}`) | receive buffer and `recv_len_`, send buffer with length and offset, `total_consumed_`, `close_after_send_`, `conn_state`, time of last activity, `fd_` | construct, `advance_recv`, `set_send`, `advance_send`, `reset_for_next_request`, `touch`, destroy (closes `fd_`) | the buffer is the unread rest of the client's stream; nothing of one request survives into the next |
| Protocol of one connection (`event_loop.cpp`: `on_recv`, `on_send`, `on_timeout`, `process_request`) | the connection object; which operation is pending | a completion calls a handler, which ends with exactly one of `start_recv`, `start_send`, `start_close` | whole responses, in order, to every complete request; none after a final one; no hang-up without reason; never a receive into a full buffer |
| Request handling (`event_loop.cpp`, `ctx.cpp`) | the `ctx` of the running chain: status, headers, body, `response_sent_`, `handler_index_` | validation, HEAD and OPTIONS, `next()`, `send` and its relatives, exceptions, custom not-found and error handlers | handlers in order and at most once; the first body stands; what is announced about closing is done; a failed chain's response never leaves |
| Connection slots (`event_loop.{h,cpp}`) | `connections_[]`, `free_list_` | `alloc_conn_id`, `free_conn_id` | each slot is in use or free, once |
| epoll backend (`epoll_loop.{h,cpp}`) | registrations, the batch `events_`, the break flags | accept, receive and send loops until `EAGAIN`, hang-up, timer | edge-triggered events are never lost; a handler called in a drain loop may close or switch the connection under it |
| io_uring backend (`uring_loop.{h,cpp}`) | submission and completion queues, one `event_store_` entry per connection | multishot accept, receive, send, close, timer; synchronous close when no entry is left | one operation per connection, and the entry says which; accept and timer are always re-armed |
| File descriptors (`connection.cpp` with both backends) | the process's table, `fd_` of each connection | accept, refusal without a slot, two closes per connection, end of a loop | a connection keeps its descriptor; none leaks on any path |
| Life cycle (`app.cpp`) | `loops`, `threads`, `running_` of each loop, two counters | `listen`, `wait_ready`, `shutdown`, start and end of `run()` | `wait_ready` does not lie; `shutdown` ends `listen` |
| Router (`router.{h,cpp}`) | a radix trie with a chain per method | `add_route`, `lookup` | the most specific fitting route is found, whatever the order of registration |
| Registration (`app.h`, `group.h`, `app.cpp`) | prefixes and middleware stacks of groups | `use`, `group`, `subgroup`, `get` ..., `all`, freeze | the chain of a route runs the middleware of all enclosing groups |
| HTTP parser (`http_parser.cpp`, `ctx::param`, `ctx::query`) | the bytes of the request target, which lie in the receive buffer and are rewritten there | `parse_request`, `normalize_path_inplace`, `url_decode_inplace` | the declared length is exact or refused; the path names the resource the target names; one conversion does not spoil the bytes of the next |
| Arena and pool (`arena.h`, `arena_pool.h`) | bump pointer, overflow blocks; the pool's free stack | `alloc`, `alloc_overflow`, `reset`, `acquire`, destruction | allocations are disjoint and aligned; a block has one owner |
| Handler (`handler.h`), date cache, types, legacy `io_loop.cpp` | see section 7 | | |

How they interact. The application registers routes, then `listen` freezes the
router and starts a loop per thread; afterwards threads share only the router
(read-only), `loops`/`running_`/counters, and the descriptor table. A loop owns
its slots. A backend waits for the kernel, calls `on_recv`, `on_send` or
`on_timeout`, and these call back the backend's virtual `start_recv`,
`start_send`, `start_close`. `process_request` calls the parser, the router and
the chain of handlers and builds the response.

What is hard here:

* *Order of events.* epoll reports batches whose earlier events may close what
  later ones name. io_uring completes operations in any order, and what a
  completion is taken for is read from `event_store_` when it is handled.
* *Re-entry.* `on_recv` called in a drain loop may send, close or free the
  connection the loop is at.
* *Pipelining and partial I/O.* Requests and responses are cut anywhere.
* *Limits.* Slots, receive buffer, submission queue, headers of a response,
  blocks of an arena, widths of numbers.
* *Conversions in place.* The path is normalised and parameters are decoded over
  the bytes that are still to be read.
* *Sharing without locks.* Descriptor numbers between threads and with the
  kernel; `loops` and `running_` between `listen` and `shutdown`.
* *Timeouts.* The sweep closes a connection while it has an operation pending.

## 2. Modules and the code

```
Connection ── EventLoop ─┬─ HttpExchange (abstract) <── refined by ── ConnectionProtocol
                         ├─ ConnectionProtocol ── ConnectionProtocolProofs
                         └─ ServerLoop ─┬─ ServerLoopProofs ──┐
                                        ├─ EpollLoop ── EpollLoopProofs   each client's projection is
                                        └─ UringLoop ── UringLoopProofs   held against ConnectionProtocol
Descriptors ─┬─ ConnectionMemory ── ConnectionMemoryProofs
Arena ───────┘                               HttpParser ── RequestHandling ── RequestHandlingProofs
Lifecycle ── LifecycleProofs
HttpMethods ── Router ── Registration ── RouteLookup ── RegistrationProofs
```

**Connection.** The record a slot holds and one operator per member function.
A byte is `<<client, position>>`, so a byte in a wrong buffer or at a wrong place
is told apart. The activity time is the flag `idle` (timeout elapsed since
`touch`). A destroyed connection keeps its fields, as the storage of a
`std::optional` does: the code reads them in places.

**EventLoop.** `OnRecv`, `OnSend`, `ProcessRequest`, `SendErrorResponse` map a
connection to the connection afterwards and the `start_...` call the handler
ends with. A client's stream is a constant: a sequence of requests with the
position each ends at, the number of bytes the parser needs to judge it, and a
kind (kept, final, rejected, malformed, too large). `ParseRequest` gives the
parser's verdict on a buffer; bytes that begin no request are a bad request.

**ConnectionProtocol.** One client and one connection over an ideal backend.
This is the contract the handlers assume of a backend. **HttpExchange** is what
the client is promised, without buffers: requests are answered one after the
other, by whole responses, as soon as the bytes that call for it arrived, and
the server hangs up on four occasions only. `KeepsPromise` instantiates it with
the variables that are visible to the client.

**ServerLoop, EpollLoop, UringLoop.** `ServerLoop` has the slots and the
clients. `EpollLoop` takes one system call per step, so clients act between any
two: `Wait` collects the batch, `HandleHangUp`, `HandleReady`, `HandleTimer` and
`HandleListen` dispatch its events in any order, `RecvData`, `RecvEnd`,
`RecvBlocks` and their counterparts are the iterations of the drain loops.
`UringLoop` handles one completion per step; operations and completions carry
what they really were, which the code does not see. Kernel actions complete
operations in any order, end a multishot accept at will, and, with SQPOLL, take
entries from the submission queue in their own time. The kernel's side is
external: modelled from what the code uses of it. In both, `ServesEachClient`
says that every step of the loop is, for every client, a step of its
`ConnectionProtocol` or none; what is proved of the protocol thus holds of the
loops as far as the runs reach.

**Descriptors.** Only numbers: accept installs the lowest free one. What happens
to it then has a path each, and each system call on a path is a step of its own
(`stage`): the accept finds no slot and closes the number (`RefuseAccept`,
`CloseRefused`); `start_close` of epoll, `close_sync`, or `start_close` of io_uring
without an entry closes it in the thread (`CloseNow`, `FirstClose`); the close is
queued, carried out by the kernel and handled when its completion comes
(`QueueClose`, `KernelClose`, `HandleClose`); or the loop ends with the connection
in its slot (`EndLoop`). The last three meet in `~connection`, which closes the
number, still in `fd_`, once more or, at the end of a loop, for the first time
(`SecondClose`). `Busy` is what a thread does without a look at other events: between
`accept4` and the slot, and between the two closes of epoll; other threads and the
kernel go on meanwhile.

**Arena, ConnectionMemory.** `Arena` is one arena: a main block with a bump
pointer, overflow blocks with their headers, and the arithmetic of alignment on
real addresses, since `malloc` may return any. `ConnectionMemory` adds to
`Descriptors` what else a connection owns: an accept that gets a slot takes an arena
from the pool of its worker or makes one, an open connection allocates and resets,
the destructor frees, also at the end of a loop, and the pool is freed with the
loop. A history variable keeps what was allocated since the last
reset, so that two live allocations can be compared.

**Lifecycle.** `listen`, `run` of each loop, `wait_ready` and `shutdown`, a step
per access to what they share. An iteration over a vector that was moved or
cleared meanwhile is undefined: the step may stop nothing or end the process.

**Router, Registration, RouteLookup.** `Router` is the trie with edge splitting
and backtracking, as operators from trie to trie. A trie is the sequence of its
nodes in the order in which they were made, each with the number of its parent; the
children of a node, in the order of the code's vector, are the nodes that name it. So
`insert`, which the code writes as a recursion over the tree, is here a function of
the number of calls made, each with the node it has come to and the rest of the
pattern (`AddRoute`), and `search` one of the number of calls that may still be
nested (`Lookup`): recursive functions over numbers, which the prover can reason
about. `Registration` has the groups, their middleware and the chains of the routes,
through `use`, `subgroup`, `get`, `all`, and the trie they write to. `RouteLookup`
holds `lookup` against a definition of routing that knows no trie (`Fits`,
`MoreSpecific`, `Captured`). A pattern is a sequence of symbols; a parameter is one
symbol. `HttpMethods` has the methods.

Two conditions are stated with the model. Patterns have the forms that the library
documents (`README.md:89`): each segment is a word, a parameter or, at the end, a
catch-all (`RouteLookupAssumption`; a `:` inside a word is no such form). And a trie
that skips a `/` where an edge ends, and does not ask for one, leads a path like
`/abd` to the route `/ab/d`. A path is `Plain` when no registered route of the method
is reached in this way that it does not fit segment by segment, and none that has
more parameters than the eight a match has room for. What happens to paths that are
not is `MCRegistration_glued`.

**HttpParser, RequestHandling.** `HttpParser` has the operators for
Content-Length (digit by digit, up to `SizeMax`), for the normalisation of the
path and the decoding of escapes; they return the bytes as they stand in the
buffer afterwards, what lies behind a shortened path included. (A `/` that the
code writes and takes back for a `.` or `..` segment lies behind the end of the
result and is not modelled.) `RequestHandling` takes one request through
parsing, validation, routing (a table of chain lengths), decoding, chain, error
paths and `build_response`. A route may capture any `Spans` of the normalised path:
each from anywhere within a segment, where an edge of the trie may end, to the end of
the segment, or of the path for the last one, a catch-all. (An empty catch-all has
nothing to decode and is left out; the code's limit of eight parameters is not needed.) Handlers are
arbitrary: they call any operation of their `ctx` in any order, return, throw
and catch.

## 3. What the runs check

| Run | Instance | What it shows |
|---|---|---|
| `MCProtocol_exchange` | one client, four pipelined requests with bodies, the third longer than the buffer of 3 bytes; responses of 2 units | `BufferIsUnread`, `RoomToReceive`, `StateMatchesOp`, the inductive `Situation`, and that the protocol implements `HttpExchange` |
| `MCEpoll_resets` | two clients, two slots, a send buffer of 1 unit, resets, peers that vanish and are swept | `SlotsConserved`, `NoLostWakeup`, `ServesEachClient` |
| `MCEpoll_answers` | two clients, one slot, so that one may be refused; fair | `EveryRequestAnswered`, `EveryConnectionEnds` |
| `MCUring_exchange` | two clients, two slots, resets, vanished peers, with and without SQPOLL, a submission queue of 1 | `SlotsConserved`, `OneOperationEach`, `AlwaysAccepting`, `ServesEachClient` |
| `MCUring_answers` | two clients, one slot; fair | `EveryRequestAnswered`, `EveryConnectionEnds` |
| `MCUring_sweep` | as above, peers that act after the timeout | finding: `CompletionIsOwn` is violated |
| `MCDescriptors_alone` | module `MCMemory`: one thread, three connections, two slots, three numbers, either backend, a submission queue that may be full, a loop that may end at any moment; a pool of one arena, blocks of 4 bytes with a header of 1, allocations that fit the block, do not, or fit only with a lucky alignment | `NoDescriptorLeaks`, `EpollKeepsDescriptor`, `AllocationsSound`, `OneOwner` |
| `MCDescriptors_multishot` | one thread, four connections on three numbers, io_uring | finding: `KeepsDescriptor` is violated |
| `MCLifecycle_once` | one `listen`, one `shutdown` at any moment, `wait_ready` at any time; 1 to 3 threads; binding may fail; fair | `ReadyMeansAllUp`, `IteratesLiveLoops`, `ShutdownEndsListen` |
| `MCRegistration_routes` | up to three registrations of six overlapping patterns for two methods, on the application or a group with prefix and middleware; 12 paths | `LookupIsBest`, `RefusalChangesNothing`, `MiddlewareRunsBefore` |
| `MCRegistration_glued` | one pattern, words that continue others | finding: `UnknownPathNotFound` is violated |
| `MCRequestHandling_all` | requests that pass and fail every check, Content-Length headers around the limits, paths of up to four segments, escapes whole and cut off, every set of spans; four route tables, room for one header, two bodies | `HandlersInOrder`, `CloseIsAnnounced`, `FirstBodyStands`, `FailureIsAnswered`, `LengthIsDeclared`, `PathIsResolved`, `ParamsAreDecoded` |

Every passing run but the two about answering also checks the type invariant of
its module, and each of its properties is violated when one definition is changed the way a bug would
change it (the definitions marked "Mutant", listed in `PROJECT.json`).

The bounds, and why they do.

* *Two clients.* Connections of a loop meet only in slots, in batches and in the
  accept; two suffice for one to take what the other gave back, to be refused
  because of it, and to be closed between the other's events. `MaxConnections`
  is 2 where they run side by side and 1 where they compete.
* *Buffers.* The code's 4096 bytes become 2 or 3: a request fits exactly, in
  part, not at all, or leaves room for the beginning of the next. `RespLen` 2
  makes a response divisible, `SendBuffer` 1 makes every one stop half-way.
* *Queue.* `SqCap` 1 makes every second acquisition fail under SQPOLL.
* *Peers that go silent* (`IdlePeersGone`): the timeout elapses for a client
  only when it has nothing unread, and afterwards it does nothing. Without
  this, both backends show the faults of section 6; with it the runs show
  everything else. It is the one assumption about clients that narrows a
  passing run, and it is named in the configuration.
* *Early use* (`EarlyUse`): `use()` comes before routes and sub-groups, see
  section 6 for what happens otherwise.
* *Descriptors.* With two slots the third accept is refused while the others are in
  any stage of theirs, and a number that is closed is the lowest for the next accept.
* *Lifecycle.* One `listen` and one `shutdown`, as every test of the repository makes
  them, but the `shutdown` at any moment. The two properties about it say which
  moments they are about: `IteratesLiveLoops` those at which all loops are created,
  `ShutdownEndsListen` those at which all have raised `running_`. A `shutdown` before
  that is in the run, and may be lost or go over a vector that moves, see section 6.
* *Lengths.* `SizeMax` 25 and `MaxBody` 20 put the limits of `size_t` and of the
  application inside two digits, with values at, below and above each, leading
  zeros, a non-digit, and two headers that agree, differ or differ in spelling.
* *Paths.* Four segments out of empty, `.`, `..` and a name are what it takes to
  climb above the root and to come back, with and without a trailing slash.
* *Memory.* Places at distances that leave gaps smaller than a block, sizes
  smaller than a block and larger, alignments that pad and that do not; the pool
  of one arena is empty at the second connection.
* *Registration.* Three calls are what a split needs: one route below the edge,
  one that splits it, one that collides. One word is made of two others, so that
  the second of two routes is refused at the node of the first, after splitting an
  edge, and so that some paths are not `Plain`.

In `MCUring_exchange`, `AlwaysAccepting` is claimed without SQPOLL and
`ServesEachClient` exempts a completion handled while the submission queue is
full; `SlotsConserved` and `OneOperationEach` are claimed always.
`CHECK_DEADLOCK FALSE` stands in every configuration: clients may have said all
they say, registrations be used up, a request be answered.

## 4. Fairness

* *EpollLoop.* The thread runs whenever it can (weak fairness of `Thread`): it
  is a loop without blocking calls other than `epoll_wait`. The timer is
  periodic, so a wait that finds it expired happens again and again (strong
  fairness of `Wait` with the timer event). A client that is there reads what
  it is sent (`ClientReads`); without this no server can promise anything. No
  client ever has to write, finish or connect.
* *UringLoop.* The thread handles completions; the kernel completes receives that
  can complete, sends, and closes, and its SQPOLL thread empties the queue. The
  accept and the timer are under no fairness.
* *Lifecycle.* Threads that can go on do. `wait_ready` and the call of
  `shutdown` are under no fairness.

`EveryRequestAnswered` excuses the server only for a reset by the client (and a
peer that vanished). `EveryConnectionEnds` is about clients that have ended
their side.

## 5. What is proved

TLAPS proves the following for every set of clients, every stream, every buffer
size and response length (`CapAssumption`, `StreamAssumption`, `MeAssumption`:
sizes are positive, requests follow each other and each needs at least one and
at most all of its bytes to be judged).

`ConnectionProtocolProofs`:

* `Invariance`: `TypeOK /\ Situation` is inductive. `TypeOK` alone proves
  nothing of interest, and `BufferIsUnread` or `StateMatchesOp` are not
  inductive: whether the buffer is right after `reset_for_next_request` depends
  on `total_consumed` being the size of the request at the front, and whether
  the next operation is a receive depends on that request not being answerable.
  `Situation` says all of it: an open connection is either *waiting* (at rest,
  with an unanswerable beginning of request `got.req + 1` in the buffer and a
  receive pending) or *answering* some request `k` that begins the buffer, with
  `close_after_send` set exactly if `k` is final.
* `TypeCorrect`, `AlwaysInSituation`, `BufferAlwaysUnread`,
  `AlwaysRoomToReceive`, `StateAlwaysMatchesOp` follow.

The argument goes from the bytes up: `BytesAppend` and `BytesDrop` say what
receiving and consuming do to an interval of the stream; `ParseFrames` and
`ParseResult` what the parser answers for a buffer that begins with a request;
`ProcessRequestKeeps`, `OnRecvKeeps`, `ResetMovesOn`, `OnSendKeeps` that the
handlers lead from one situation to another; `InvStep` has a step per action.

`Implements`, in the same module: that the protocol implements `HttpExchange`. A completed receive maps to a stutter or, when it wakes an idle
connection, to the passing of time; a completed send maps to `Respond`, whose
guard on the next request needs `Situation`; every close maps to the end of a
final response or to one of the occasions to hang up.

`ConnectionMemoryProofs`, of the descriptors: `TypeCorrect`; `NeverLeaks`, for either backend and any
number of threads and slots: on each of the paths on which a connection ends, no
number stands for it once it has been through the close of its path. That close
goes by `fd_`, and others may have closed and taken the number before, so the
invariant is that a number which stands for a connection is the one in its `fd_`,
and only until then (`Owned`). Leave out any one of the closes (`CloseRefused`,
`FirstClose`, `KernelClose`, `SecondClose`) and TLC finds `NoDescriptorLeaks`
violated. `KeptByOneThread`, that with one epoll thread (the assumption
`OneThread`) every served connection keeps its descriptor, by the invariant
that the number of a connection between its two closes is unused, because nothing
is accepted meanwhile (`Held`).

`RequestHandlingProofs`: `AlwaysInOrder`, `CloseAlwaysAnnounced`,
`FirstBodyAlwaysStands`, `FailureAlwaysAnswered` and `AlwaysTyped`, for chains of
any length, any requests, bodies and status codes (`HandlingAssumption`). The
invariant `IInv` has a part per question: whose context is active in each phase
(`Whose`), that as many handlers have run as `handler_index_` says (`Ran`), that
a prebuilt response in the send buffer belongs to the active context
(`Prebuilt`), and that the promised body is in the context or, if prebuilt, in
the send buffer (`Promised`). There is a lemma per operation of the context.

`ConnectionMemoryProofs`, of the memory, for any number of connections, workers
and pooled arenas, any sizes, alignments and places (`ArenaAssumption`, `MemoryAssumption`):
`MemoryImplementsDescriptors`, so that what is proved of the descriptors holds
with memory too; `AlwaysSound`, `AlwaysOneOwner`, `MemoryTyped`. `OneOwner` says
that the heap is exactly what arenas own and that no two arenas own the same
block; it is inductive with `HeapApart` (`malloc` returned no overlapping
blocks). Soundness of allocations needs more than that they are disjoint: that
each lies in a block its arena still owns, below the bump pointer if that is the
main block. A new one begins at the bump pointer or lies in a new block, and is
therefore apart from the others (`AllocationsApart`, which says both).
`Rounding` is the arithmetic of alignment: the padded address is a multiple of
the alignment and less than one alignment away.

`LifecycleProofs`, for any number of threads, under `UsedOnce` (one `listen` and
one `shutdown`, at any moment; section 6 says what happens otherwise):
`NeverReadyTooEarly`, `AlwaysLiveLoops`, `LifecycleTyped`. That
`ready_count` reaches the number of threads means that all loops are up only
because no loop is counted before (`Counted`), and because there are no more
loops than threads (`Built`); `UpCount` turns the equality of two cardinalities
into equality of sets. `AlwaysLiveLoops` is about a `shutdown` that begins when all
loops are created: the vector no longer grows then, and it is cleared only when the
single loop has ended, which it does not before the iteration is past it (`Told`).
Of one that begins while `listen` fills the vector nothing is claimed.

`ServerLoopProofs` and `EpollLoopProofs`, for any clients, streams, slots and
sizes of the buffers (`LoopAssumption`, `SendBufferAssumption`), under
`QuietPeers`: `EpollTyped`, `EpollConserves`, `EpollHears`, `EpollServesEach`.
`QuietPeers` (`IdleTimeouts => IdlePeersGone`) is what `MCEpoll_resets` assumes;
without it a hang-up reported in the batch of the timer may find its slot free or
reused, and free it a second time, so that `EpollConserves` is false. The invariant `EInv` strengthens the three invariants of the run by what
the loop relies on without saying it: every open socket has one live slot and
every live slot an open socket (`SocketsHaveSlots`); a live connection waits for
something it can go on with, a receive for which there is room or a send with
something left (`LiveOnesWait`); an event still in the batch names a connection
that exists and is true of it, and there is one event at most for each
(`BatchIsTrue`); the connection a drain loop is at is alive, is in the mode of
that loop, and nothing else is reported for it (`DrainsOne`). `SlotsConserved` alone
is not inductive: whether a slot is freed twice depends on whether the batch can
name a slot that was freed in the same batch. The handlers enter through
`OnRecvServes` and `OnSendServes`: given any well-formed connection they return
one that is well formed, the same client's, and start only what can go on.
`EpollServesEach` says that each step of the loop, projected to a client, is a
step of its `ConnectionProtocol` or none, and all that is proved of the protocol
carries over: `Implements` holds for every client of the epoll backend.

`UringLoopProofs`, under `QuietPeers` again and `SocketAssumption` (no client is
called what stands for no socket): `UringTyped`, `UringConserves`,
`OneOperationAlways`, `AlwaysListening`, `CompletionsAreOwn`, `UringServesEach`,
for every order in which the kernel completes, every size of the submission
queue, with and without SQPOLL. Without `QuietPeers` the sweep of a live idle peer
leaves its receive behind, as `MCUring_sweep` shows: there are two operations of one
connection, one is taken for the other, and a slot is freed twice. `OneOperationEach` counts; to keep a count through a step
the invariant `UInv` has to say what is counted. Operations are told apart by
kind, slot and socket (`Tag`), and a lemma each says how the number of copies of a
tag changes when one is appended, removed or taken from the front
(`CopiesAppend`, `CopiesRemove`, `CopiesTail`). All that waits is the accept, the
timer, the one operation of a live connection that still does what the
connection started it for (`WaitingSound`), or a receive the sweep has left
behind, which never completes because its peer is gone. What has completed
reports something that stays true until it is handled: how many bytes lie behind
`recv_len_`, or why there are none (`CompletedSound`). The one hazard left is the
timer: a second sweep must not find a connection whose close is still in the
queue, and it does not, because a close that was under way has completed before
the timer and is handled before it (`ClosesBeforeTimer`). The handlers of the
thread share `HandledKeeps`, which asks of each only what it does to the slots it
touches, and the completions of the kernel share `KernelKeeps`.
`UringServesEach` carries all that is proved of the protocol over to this backend,
up to the step at which an entry cannot be acquired.

`RegistrationProofs`, for any methods, patterns, prefixes, groups and bounds
(`MethodsAssumption`, `RouterAssumption`, `RegistrationAssumption`), has two parts.
The first is `Typing` and `MiddlewareFirst`. `MiddlewareRunsBefore` is about chains
that are a copy of a copy: a route copies the stack of its group when it is made,
and a group the stack of its parent. The invariant `RInv` therefore says of the
stacks what the property says of the chains. Each holds middleware of its own group
and of those around it only (`Inherits`), in the order of the groups and of `use()`,
each once (`Ordered`), all of it if `use()` comes early; and a chain is a
beginning of that stack (`Copies`), under `EarlyUse` the whole, since a group that is
used no longer changes. What is around a group does not change when another
is added, because a parent comes before its children (`AllAround`, `AroundStep`).

The second part is the router: `RoutesKept`, `TrieWellFormed`, `BestRoute` and
`RefusalLeavesLookups`, for any patterns and prefixes of the documented forms, any
paths without empty segments (`RouteLookupAssumption`), and any order of calls.

* *The invariant.* `WellFormed`, proved and checked by no run, is not inductive: that a split keeps siblings apart
  depends on what the labels above and below spell. So every node gets a key, the
  symbols on the way to it (`Keyed`): it is the parent's key with the node's label
  behind, no two nodes have the same, siblings begin differently, and a key that goes
  on behind a node's goes on through one of its children (`Branches`). `LInv` adds what
  the trie holds (`Holds`): the chain of every accepted route at the node of its
  pattern's symbols, with a node wherever one of its segments ends, no two routes of a
  method at the same node, and no chain besides. The `/`s are not in the keys, as the
  trie forgets them.
* *`add_route` keeps it.* `Spot` says where a call of `insert` stands in the pattern:
  o symbols into a segment, with the rest of the text, `/`s included, still to come.
  `NewChild` and `SplitKeyed` say what appending a node and splitting an edge do to
  keys; `InsertProceeds`, with a lemma for parameters, catch-alls and words, that one
  call throws or goes on to the next spot in a trie that has `Grown`: every key still
  stands, with its chains. So does a trie that is left behind by a throw (`Refused`),
  which is why a refusal changes no route; `AddRouteKeeps` puts the calls together.
  `all()` registers one method after the other, and what it has come to when one throws
  `Stands`.
* *What a path leaves.* `Left` and `Caps` say for a key what a search that has come
  to a node with it has left of the path and has taken from it, symbol by symbol.
  `LabelWalk`, `ParamWalk` and `CatchAllWalk` show that one step of `search` along an
  edge is just that. A search for a route of a method can therefore end only at nodes
  with a chain whose key leaves nothing (`EndsAt`).
* *`search` finds the best of them.* By induction over the depth of the calls
  (`Answers`, `NodeAnswers`): below a node a call returns the chain and the captures of
  the `Better`-most of these nodes, and nothing if there is none. Below static
  siblings at most one leads on, because they begin differently; between kinds, the
  one tried earlier is better for all that lies below it (`BetterKinds`), so
  that a failed branch has nothing to offer and a successful one nothing better behind
  it. What a failed branch has taken is not seen: captures come from the key.
  This asks that where a search ends there is room for what it takes, and that
  the edges on the way stand in the path without a `/` inside (`Straight`).
* *Nodes and routes.* A path that fits a pattern is used up by its key, with the values
  of `Captured` (`FitsWalks`), and lies straight on the way (`OnTheWay`, since edges end
  where segments do or before); that no other node is reached is what `Plain` says.
  `Better` between keys is `MoreSpecific` between patterns (`BetterSegments`). Together,
  `BestFound` holds of any trie that holds the routes, which gives `BestRoute`; and as
  there is only one best route (`OneBest`), two such tries answer alike, which gives
  `RefusalLeavesLookups`.

The theorems about the parser and the router, and `AllKeeps`, need induction over a
number. The library's induction theorems have an operator for a parameter, which
the provers cannot instantiate, so `Induction` states the principle with a set
instead and is proved from the well-foundedness of `<` (a least counterexample),
and `Recursion` proves that a function with `f[0]` and `f[i]` made from `f[i - 1]`
exists, which is what a recursive definition needs to be unfolded. With these,
`RequestHandlingProofs` has three theorems about data, for requests of any length
(`HandlingAssumption`, `ParserAssumption`):

* `LengthAlwaysDeclared`, for any headers and any `SizeMax` and `MaxBody`. One digit
  is taken exactly or refused (`WithDigitExact`: the two tests before the
  multiplication and the addition let through just what does not wrap), so the length
  is the number the digits stand for (`LengthExact`), and several headers are accepted
  only with one number (`LengthsDeclared`).
* `PathAlwaysResolved`. The loop writes over the bytes it reads, and takes a segment
  back by looking for a slash in what it has written; `Resolved` counts segments of
  the path as it was sent. The invariant of the loop (`Reading`) is that what is
  written is `Joined` of the names kept so far, that what has not been read is as it
  was, and that writing does not overtake reading. Which names are kept is a matter
  of counting: behind each kept name, as behind the beginning, there are as many kept
  names as there are more names than `..` (`Balanced`). So a `..` takes back the last
  kept name, and there is none exactly if the path leaves the root (`TakesBack`); a
  segment that is no `..` takes nothing back (`KeepsOn`). `ParentIs` says that the
  last slash written is the one before the last kept name, because a segment has none
  in it; `TurnKeeps` puts it together for a turn, `NormalizeResolves` for the loop.
* `ParamsAlwaysDecoded`, for any spans that a route may capture. Within a span
  (`Decoding`), what is written is what the bytes read so far decode to, and decoding
  never writes ahead of what it reads, so that an escape is still whole when the loop
  gets there; no escape begins within another (`EscapesApart`), which is why
  skipping the two digits and looking at each position, as `Decoded` does, come to the
  same. Between spans (`Capturing`), those decoded before stay, since spans lie apart
  from each other (`SpansSparse`), and the query lies behind all of them. `NUL` is in
  no target, so the one test for an escaped `NUL` is enough (`ResolvedClean`).

The two theorems join in the invariant `Seen`: until the dispatch the buffer holds
the target as it was sent, and afterwards no step changes it.

Only model-checked: all liveness (`EveryRequestAnswered`, `EveryConnectionEnds`,
`ShutdownEndsListen`; fairness and ENABLED are beyond the prover). Every invariant
and every other action property of a passing run is proved.

## 6. Where the code disagrees with what is said of it

Three disagreements have a run of their own.

* `MCUring_sweep`. The idle sweep calls `start_close` on a connection whose
  receive is still in flight. Its one `event_store_` entry then says "close", so
  the receive's completion is handled as the close's, the slot is freed early,
  and the real close's completion hits the slot's next connection
  (`uring_loop.cpp:71`). The interface says handlers are called "after I/O
  completion" (`event_loop.h:56`).
* `MCDescriptors_multishot`. Between the asynchronous close of a number and the
  second close in `~connection`, the multishot accept may install another
  connection under it, which then loses its socket (`connection.cpp:13`).
* `MCRegistration_glued`. `/d/:x` matches `/de` with `x = e`: below a static
  node `search` skips a `/` if there is one, and does not ask for it
  (`router.cpp:226`).

The following were met while modelling. The modules contain the behaviour, and
the constant or the property to change to see it is named; the passing runs
avoid it by the bounds of section 3.

* epoll: a hang-up reported in the same batch as the timer is handled after the
  sweep closed the connection, on an empty or reused slot, before
  `has_value()` is asked (`epoll_loop.cpp:136`). `IdlePeersGone = FALSE` with
  resets violates `SlotsConserved`.
* Two epoll threads: the window between the two closes is open to the other
  thread's accept. `Workers` of two elements violates `EpollKeepsDescriptor`.
* A connection in state `writing` is never swept (`event_loop.cpp:192`): a peer
  that stops reading keeps its slot, although the stamp is there for "idle
  timeout / Slowloris protection" (`connection.h:49`).
* With SQPOLL and a full queue `submit_accept` and `submit_timeout` drop the
  operation, and nothing re-arms it (`uring_loop.cpp:94`). Claiming
  `AlwaysAccepting` for `sqPoll` too shows it.
* A `shutdown()` before `run()` has set `running_` is overwritten, and `listen` goes
  on (`ShutdownEndsListen` is violated without `AllRaised`); one that comes while
  `listen` creates the loops may go over a vector that `push_back` moves
  (`IteratesLiveLoops` without `iter.whole`). The counter of `wait_ready` is never
  reset (`MaxListens = 2` violates `ReadyMeansAllUp`), and a second `shutdown()` may
  go over a vector that `listen` clears (`MaxShutdowns = 2` violates
  `IteratesLiveLoops`).
* A worker that cannot bind its socket throws out of its thread, which ends the
  process (`SetupFails`, `app.cpp:171`).
* io_uring: an accept whose completion has not been handled when the loop ends is
  never closed (stage `accepted`, which `NoDescriptorLeaks` allows).
* `use()` after a route or a sub-group does not reach it (`EarlyUse = FALSE`
  violates `MiddlewareRunsBefore`).
* `all()` with a catch-all pattern registers the first method and throws at the
  second, because a second catch-all is refused whatever its method
  (`router.cpp:97`).
* HEAD "falls back to GET handler, strips body" (`CHANGELOG.md:52`), but keeps
  the body when the response is prebuilt or comes from an error handler.
  `FirstBodyStands` has the exception.
* "only the first call takes effect" (`include/voie/ctx.h:26`), but `redirect()`
  after another terminal call still changes status and `Location`.
* A prebuilt response says `keep-alive` on a connection that closes;
  `CloseIsAnnounced` has the exception.
* A custom not-found or error handler that throws leaves `process_request`
  (action `Escape`).
* `ctx::path()` is "the request path after normalization and percent-decoding"
  (`include/voie/ctx.h:35`). It is not decoded when no parameter is, and when one
  is, the decoding in place leaves its shorter value followed by what stood
  there before, and `path()` shows both. `ParamsAreDecoded` says what the
  parameters are, and that `path()` is the resolved path outside of them.
* `ctx::query` cannot tell a value that cannot be decoded (`%00`) from an empty
  one.
* `shutdown()` is "safe to call from a signal handler or another thread"
  (`include/voie/app.h:167`), but lost when it comes before `running_` is raised, and
  undefined while the vector of loops is filled, as said above.
* "SQE exhaustion: flush-and-retry with synchronous close fallback instead of
  silently dropping operations" (`CHANGELOG.md:30`) holds for connections, not for
  `submit_accept` and `submit_timeout`, as said above.
* The body limit is 1 MB by default (`README.md:68`), but a request, headers and
  body, has to fit the receive buffer of 4096 bytes: a larger one is answered
  with 431 as soon as the buffer is full (`SendErrorResponse` in `ProcessRequest`).
* `arena_pool` makes a new arena when it is empty, "rare" (`arena_pool.h:22`);
  nothing calls `release`, so after the first 256 connections of a thread every
  one does. `OneOwner` shows that memory is not lost by it.

## 7. What is not modelled

* `handler.h`: type erasure with inline storage, a question of C++ object
  lifetime.
* The date cache, header formatting and byte counts of `build_response`: data
  no property is about. `ctx::header`, `has_header`, `header_at`, `body`, `store`
  and `load` read or write what no other operation depends on.
* `malloc` returning null, and `arena_pool::release`, which nothing calls.
* Malformed patterns given to the router (no leading `/`, empty segments).
* `io_loop.cpp`: not built by `CMakeLists.txt`.
* picohttpparser: vendored; its verdict is an input.
* TCP beyond a byte stream: in particular what a close with unread data does to
  the response in flight.
* Delivery of signals: a `shutdown()` from a handler is one from any other thread.

## 8. Plan

Done, in this order: the protocol of a connection with its abstract
specification and proofs; the two backends; descriptors with proofs; life
cycle; router and registration; request handling with proofs; the parser's
conversions; arenas, their pool and the memory of connections, with proofs; the
proofs of the epoll backend, of the life cycle, of the io_uring backend and of
registration, the proofs about Content-Length, the path and the parameters, and those
of the router.

Next:

1. `Descriptors` with `EMFILE`, composed with `UringLoop`.
2. Liveness of `Lifecycle`, and of the backends for larger instances.

## 9. Running it

    tlc -workers 2 -config MCEpoll_resets.cfg MCEpoll
    tlapm ConnectionProtocolProofs.tla

On two cores `MCUring_exchange` takes three minutes, `MCDescriptors_alone`, `MCEpoll_answers`,
`MCUring_answers` and `MCRegistration_routes` two at most, `MCRequestHandling_all`
one, all others seconds. The proofs take half an hour from nothing, most of it for
`RegistrationProofs`, `RequestHandlingProofs`, `EpollLoopProofs` and
`UringLoopProofs`.
