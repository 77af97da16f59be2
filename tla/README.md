# Verification of the coroutine I/O of personal_projects

The repository is a collection of C++ libraries. Its core is `iouring-cpp`: a
ring of submissions and completions over liburing, C++20 coroutines that wait on
it, sockets and timers built from those waits, and an echo server and client
that use them. Around it are small independent libraries (types, fixed point,
logging, reflection) and one experiment with asio. The modules here model
`iouring-cpp` from the ring up to the echo server and the network test, the
packed strings of `types` and the asio experiment; the rest is left out as said
in 6. Paths are relative to `src/`.

## 1. Inventory

| component | source | state | operations | used by |
|---|---|---|---|---|
| ring | `iouring-cpp/src/iouring_impl_liburing.hpp`, `include/iouring_service.hpp` | the two rings shared with the kernel, the counter of a dispatch pass | `prepare`, `submit`, `wait_for_events`, `run` | everything below |
| tasks and awaitables | `include/iouring_coroutine.hpp` | coroutine frames, `continuation_`, the `event_t` inside a frame | call, `co_await` on the ring, `co_await` on a task, end, exception | sockets, timers, programs |
| sockets | `include/iouring_net.hpp`, `src/iouring_net.cpp` | `fd_` and `ring_` of each `socket_t`; the kernel's descriptors | construct, move, assign, `close`, destroy; `accept`, `recv`, `send`, `connect` and their handlers | programs |
| timers | `include/iouring_timer.hpp`, `src/iouring_timer.cpp` | the timespec in the awaitable | `create_timer`, `on_timeout` | `disconnect_if_idle` |
| echo server | `examples/echo_server/echo_server_main.cpp` | `cs`, `buffer`, `lastMessageTime`, `stopped`, one pair of coroutines per client | `run_echo_server`, `handle_client`, `disconnect_if_idle` | - |
| echo client and network test | `examples/echo_client/echo_client_main.cpp`, `tests/iouring_test_network.cpp` | a socket, the words to send; the same ring serves both ends in the test | connect, send, receive; accept, echo | - |
| time conversion | `include/iouring_utils_time.hpp` | none | `to_timespec` | timers |
| estring | `types/src/estring.cpp` | the packed array | construct, length, view, compare | - |
| bitset, string_literal | `types/src` | bits; a view | `ffs` | - |
| fixed point | `fixed_point/fixed_point.hpp` | a 64-bit value | arithmetic, comparison | - |
| asio experiment | `experiments/coroutines/asio_coro_callback.cpp` | an `io_context` run by a second thread: its queue and count of work; the coroutine, `value_`, `Cache::buf` | `post`, `io.run()`, five waits, `Cache::fetch` | `random_generator_server.py` answers `fetch` |
| logging, reflection, raw back end | `logging`, `reflection`, `src/iouring_impl_raw_io_uring.hpp` | none at run time | formatting, member lists; a stub | - |

**How they interact.** One thread owns a ring. A coroutine that waits puts an
`event_t` (handler, coroutine handle) into its own frame, writes an SQE with the
event's address and submits it. The kernel works in parallel and produces CQEs.
`wait_for_events` calls the handler of every CQE, the handler stores a result
in the event and resumes the coroutine, and the coroutine runs on the stack of
the dispatch loop to its next wait, which prepares and submits again. Everything
the coroutines share they share by reference: `disconnect_if_idle` closes the
socket that `handle_client` is waiting on.

**What is hard.** The kernel laps and overflows the completion ring while
handlers run; a pass is given back only at its end, or never if a handler
throws; coroutines are resumed, call others and end inside handlers; events live
in frames that may be destroyed; descriptors are moved, closed under operations
in flight and reused by the kernel at once; completions that were posted before
a close are handled after it; the idle timer races messages, ends of file and
errors; error completions are dropped by some handlers. A multishot accept
outlives the wait that armed it, and its next completion resumes the coroutine
wherever that is by then. A `submit()` that throws ends the coroutine that waits
and leaves its SQE behind, to be handed over later, when the frame or the
descriptor it names may be gone; in the echo server it destroys the frame of
`handle_client` under `disconnect_if_idle`, or ends that monitor. In the asio
experiment a second thread takes handlers from the queue while the first one
posts. `PROJECT.json` lists each of these at its line under `hazards`.

**What makes each component correct.**

* ring: every completion reaches its handler, in order, once unless a handler
  throws; a slot is not reused while its completion is to be read; a pass ends.
* tasks: no handler finds an event in a dead frame, or resumes a coroutine at
  another wait than the event's (a submit that threw and a multishot accept can
  do both); no coroutine is resumed while it runs; `prepare` finds room for its
  SQE; who awaits a task goes on when it ends (it does not, see 5).
* sockets: one owner per descriptor, no use after close, no leak, nothing in
  flight on a closed descriptor, no late cancellation of someone else's.
* estring: the string can be read back, comparison is equality of strings and,
  for plain text, their order.
* client and network test: sockets are closed with their owners, the server's
  coroutine goes when the client has gone, every word is sent (it is not, see 5).
* asio experiment: each posted handler resumes the coroutine once, at the wait it
  belongs to; the context does not stop while the coroutine waits; every wait
  returns its value and `fetch` calls back once, with a whole number or none.
* echo server: peers get back their own bytes, in order and without gaps as long
  as no send is short; one waiting operation
  per coroutine; an idle connection is closed in time and exactly once; the
  server goes on listening.

## 2. Modules

```
CompletionLog   what the ring promises        EchoService   what the server promises
     ^ refined by                                  ^ refined by
   Ring  <- RingProofs                          EchoServer  <- EchoServerProofs <- EchoServiceProofs
   Tasks <- TasksProofs                         NetworkTest <- NetworkTestProofs
   Sockets <- SocketsProofs                     (ring, tasks, sockets and timers composed,
   EString <- EStringProofs                      on the promise of CompletionLog)
   AsioPost <- AsioPostProofs
MCRing, MCTasks, MCSockets, MCEcho, MCNetworkTest, MCEString, MCAsioPost: instances for TLC
```

**Ring.** SQEs and CQEs are numbers; a CQE is known by its place in the log
`posted`. `Prepare`, `Submit` are the calls of the same name, from ordinary code
or from a handler. `WaitForEvents`, `WaitOver`, `WaitFails`, `CallHandler`,
`HandlerReturns`, `HandlerThrows`, `PassEnds` are the control points of
`impl_t::wait_for_events`: the return of `io_uring_wait_cqes`, each turn of
`io_uring_for_each_cqe` (which reads the tail anew), and the single
`io_uring_cq_advance`. `Complete` and `Flush` are the kernel: it fills free
slots, keeps what does not fit and moves it in when the program enters the
kernel. Two properties of liburing matter and are modelled: a wait returns 0
whenever the ring is not empty, also when it timed out with fewer completions
than asked for, and `cq.khead` moves only with `io_uring_cq_advance`.

**CompletionLog.** A log that is delivered one at a time and in order, released
in batches, and read again from the last release when a pass is abandoned.
`Ring` refines it (`ImplementsLog`).

**Tasks.** `Call` is `initial_suspend` (never suspends), `WaitOnRing` and
`SubmitThrows` are `ring_awaitable_t::await_suspend` with and without an
exception from `submit()`, `Await` is `awaitable_t::await_suspend`, `Finish` is
`final_suspend` (never suspends, so the frame is destroyed) and also
`unhandled_exception`, which drops what it catches. `stack` is the real call
stack of coroutines. `sq` holds the SQEs that were prepared and not handed
over: a `submit()` that throws leaves its own, and one that returns may leave
the newest ones, because only `r <= 0` is an error
(`iouring_impl_liburing.hpp:62`); the next one hands them over in order. When
`sq` is full, `prepare` writes through a null pointer (`NoSqe`).

`Resume` is the handler: it resumes the coroutine (`GoesOn`), tells it nothing
(`NotTold`, an error in `on_send` or `on_accept`), or finds the event destroyed
(`EventGone`). A wait is `multi` if it is an accept: its event may stay with the
kernel at each completion. The coroutine has left that wait then (`passed`), and
a later completion resumes it all the same, at its next accept, where it waits
for a task it called (`strayed`), or not at all because it is gone. A coroutine
that accepts waits on the ring for nothing else, as `run_echo_server` and
`run_server` do. `program` is "aborted" after `NoSqe`, or when the address
sanitizer, with which the project is built (`CMakeLists.txt:10`), notices the
use of a destroyed frame; it need not.

**Sockets.** `fd` and `ring` of each object against the kernel's table `open`.
`Construct`, `MoveConstruct`, `MoveAssign`, `Close`, `Destroy`, `OnAccept`,
`StartOp` are the members, `CloseThrows` and `StartOpThrows` the same with a
`submit()` that throws; `carried` holds descriptors whose accept completion is
still unhandled, `sq` the SQEs of each ring that wait to be handed over,
`orphans` operations whose descriptor was closed and whom no cancellation
reached. `Started` is what the kernel makes of a sequence of SQEs. `past`
records the two events after which `CloseCancelsAll` does not hold: a move
assignment between objects of two rings, and a partial submit. Moving an object
onto itself is left out (it changes nothing), and a `submit()` that throws in a
destructor ends the program.

**EchoServer.** One action per handler, each with all the coroutine code it
resumes: `OnAccept` (with `HandleClient`, the start of `disconnect_if_idle`, and
the next accept of `run_echo_server`), `OnRecv`, `OnSend`, `OnTimeout`. The
multishot accept that is still armed resumes `run_echo_server` at its next
accept, which is right there: each completion starts one `handle_client`. Kernel,
peers and clock act between handlers; `cq` is the log that CompletionLog
promises to deliver. Byte n of peer c is `<<c, n>>`, so that the model can tell
whose bytes arrive where. Operations hold the open file and not the descriptor,
as io_uring does, and a freed descriptor is given out again at once.
`Listens` and `ListenFails` are `tcp_server`: it retries a failed `bind` for as
long as it takes and throws if `listen` fails, which the coroutine's promise
drops.

Every other `submit()` of the server may throw. At a receive or send of
`handle_client` (`Await`) it ends that coroutine: its frame goes (`hc` "gone"),
`~socket_t` closes `cs` (`Unwound`), or ends the program if its own `submit()`
throws too (`Terminated`, since destructors let nothing pass); the operation
stays in the ring, is handed over with the next one and completes into a
destroyed event (`EventGone`). `disconnect_if_idle` may still be suspended then
and look at the destroyed variables when its timer fires. At a timer
(`StartTimer`) the exception ends `disconnect_if_idle` with `stopped` still
false (`dii` "lost"), and nobody looks at the connection any more.
`DisconnectThrows` is a `close()` whose `submit()` throws, after which
`disconnect_if_idle` has ended and the descriptor is still open. `threw` names
the connections that met one of these. `aborted` is the end of the program at a
use of a destroyed frame, also when `handle_client` awaits a
`disconnect_if_idle` that has ended, or in `Terminated`. The sanitizer does not
hand freed memory out again, so that a use it does not report finds what was
there. The comparison of times is in whole seconds, `age` standing for `now -
lastMessageTime`. `prompt`, chosen in `Init` among `Speeds`, says whether the
program keeps up with the clock (see Fairness).

**EchoService.** Each client gets back bytes it sent, in order, none twice and
without a gap, until a send for that client is short (`cut`): `handle_client`
never looks at how much was sent, so that the rest of that message is lost.

**NetworkTest.** The test's server and the echo client on one ring. The client
of the example is the same code as that of the test. Sockets move from coroutine
to coroutine: `open` says which ends of the connection are open, and
`OpenWhileOwned` that they are closed with the coroutine that owns them, be it
by its return or by an exception. `co_await` of a task does not return, so
`run_client`, `run_server` and the test itself have no step after theirs, but
for what a second connection does to `run_server`. A client's first reply ends
it (finding 4), so the number of words never passes 1. `stray` is another
connection: `run_server` awaits `handle_client`, but its multishot accept is
still armed on an event that is gone (`OnStaleAccept`). `OneShotsHaveTheirFrame`
is therefore about sends, receives and the connect and not about accepts;
`OpenWhileOwned` says what holds of those. The program may abort there; if the
memory is as it was, `run_server` is resumed at the wrong wait, ends and closes
the listening socket.

**EString.** `Store` is `init(s)`, with `Base` values of a byte for 256. `Repr`
is the number that `byteswap` makes of the array, of four, eight or sixteen
bytes as its `if constexpr` says: the first byte most significant and signed.
`Compared` is `operator <=>` with its two branches; the types of the two sides
are chosen in `Init`.

**AsioPost.** `main` and `io` are the program counters of the two threads. The
`io_context` is modelled as far as the program depends on it: `asio::post`
counts a handler (`MainCounts`) before it queues it (`MainQueues`), `run()`
returns when it finds the count zero. A handler is the number of the wait it
ends: `CallFunction` stores into `value_`, `Resume` takes `run_coroutines` to
the next wait, which posts the next handler from inside this one. The last wait
runs `Cache::fetch`: `FetchConnects`, `Read` (the four bytes come in pieces and
`transfer_exactly` reads on), `ConnectFails` and `ReadFails` (an exception,
caught in `fetch`). The server may start and stop at any time.

Definitions called "Variant" in comments are plausible bugs of the operator
that follows them. They are used by no specification; substituted for that
operator they show that the properties notice.

## 3. Runs

| run | instance | what it shows |
|---|---|---|
| `ring` | 2 SQ and 2 CQ slots, 3 SQEs, 4 CQEs, 1 exception | the invariants of the ring, `ImplementsLog`, and under fairness that every completion is handled |
| `tasks` | 4 tasks, 3 waits, accepts among them, 2 submits that throw, 2 SQ slots | the safety of the coroutine protocol: events, room for SQEs, the stack, continuations |
| `tasks_await` | 2 tasks, 2 waits | `AwaitReturns` is violated (finding 1) |
| `sockets` | 3 objects, 2 rings, descriptors 0 and 1, 2 submits that throw or are partial | ownership, no dangling use, no leak but descriptor 0, cancellation |
| `echo` | 2 connections, 1 byte each, 1 submit that throws, period 1, limit 0 | safety of the server, and `ImplementsService` with two clients |
| `echo_time` | 1 connection, 3 bytes, 1 failure (of an accept or `listen`), 2 submits that throw, the code's 3 and 10 seconds, both speeds | order, repetition and gaps of bytes through one buffer; `IdleBound`: closed 13 seconds after the last message at the latest if the program keeps up; under fairness every connection is closed, also a stuck one, unless a submit for it threw |
| `echo_send` | 1 connection, 1 byte | `FailedSendReported` is violated (finding 2) |
| `echo_accept` | 1 connection, 1 failed accept | `AlwaysListening` is violated, after `on_accept` handled the error (finding 3) |
| `network_test` | words of 4 bytes, 2 errors, 1 stray connection | events of the one-shot operations, the accept and the ownership of the two ends, `ImplementsService`, and under fairness that the server's coroutine ends after the client |
| `network_words` | no errors | `EveryWordSent` is violated (finding 4) |
| `estring` | bytes of 3 bits, 4 of the 8 used, types of 2 and 4 characters | reading back, `ComparesLikeStrings`: equality and order |
| `asio` | 5 waits, 3 of them with values, 4 bytes, as in the code | handlers against waits, no wait abandoned, results and callbacks; under fairness the program ends whenever `run()` found work |

**Bounds and why they are enough.** Two slots and four completions let the ring
overflow, be flushed in the middle of a pass and be lapped. Rings of any other
size are covered by proof. Four tasks are enough for a task that calls one,
awaits another and is resumed under a third, and three waits for an accept whose
event completes again at the next accept, under `co_await` of a task, and after
the end; two throwing submits fill the two slots of its submission ring. Three
objects with two rings and two descriptors allow a swap, a move and a descriptor
that is closed and reused while an SQE that names it still waits, and
permutations of objects and of rings are symmetric because neither is ordered or
named anywhere. Two connections with a reused descriptor are the least that lets
one client's bytes reach the other; three bytes let a receive take one or
several and a send be cut. `echo` uses a short period, since only order matters
there, with no failed accept and one throwing submit, wherever a submit is
called; `echo_time` adds the failures, a second throw, so that the close of an
unwound frame or of an idle connection can throw after an earlier one, and the
code's own seconds, where the bound itself is the question. Four bytes let a
word be cut at both sends and at both receives. The string bytes are the null
and three on both sides of the sign; types of two and four characters use both
branches of the comparison and numbers of four and eight bytes. `age` saturates
at `OldAge`, past which no comparison differs. Deadlock checking is off only
where the system does stop: in the runs of `Tasks` and `NetworkTest`, whose
coroutines may all end or be suspended for good, and of `EString`, which
compares once.

**Fairness.** `run()` loops for ever, so the thread's steps are weakly fair.
`WaitOver` is strongly fair: a wait that again and again finds completions does
not fail each time. `Flush` is strongly fair because the kernel flushes whenever
it is entered, and every wait with an overflow enters it. In the server the
dispatcher, the clock, due timers and operations that can complete are fair;
peers owe nothing and may stay and be silent for ever; no accept need happen.
In `Tasks` a running coroutine reaches a wait or ends, and waits on the ring
end, but for accepts.

In `AsioPost` both threads run, and a server that took a connection sends its
bytes or goes down: `asio::read` has no timeout and would wait for a silent one
for ever.

**`prompt`.** `IdleBound` is about behaviours in which no second passes while a
completion or timer is due: it is a statement about the program's arithmetic and
about which waits are armed, not about the load of the machine. All other
properties hold for a clock that runs at any speed. `IdleBound` and
`EveryConnectionClosed` except the connections for which a `submit()` threw: that
of `close()`, after which nobody closes the connection, or that of a timer, after
which nobody looks at it. Both except the abort, after which the kernel closes
everything.

## 4. Proofs

The theorems hold for every value of the constants, from the assumptions named
in the modules (sizes are positive, bounds natural, `NoFd` is not a descriptor).

* **RingProofs.** The inductive invariant is `TypeOK`, the state of a pass,
  `WindowIntact` (each slot not given back holds the completion the reader will
  look for there) and what has been handled. `WindowIntact` cannot stand alone:
  that the kernel's next write misses the window needs `ktail - khead <= CqSize`
  and that different places of a window that long lie in different slots, the
  lemma `SlotDistinct` on `%`. `InOrderOnce`, `HandlerCqeIntact`, `NoneLost`
  and `PassBounded` follow from it. `RefinesLog` maps each step to a step of
  `CompletionLog` or a stutter; `Deliver` needs `WindowIntact`, since the log
  hands out completion numbers while the ring hands out slots.
* **TasksProofs.** `StackIsRunning` is the core: popping the stack must keep it
  free of repetitions and remove exactly the coroutine that stops, the lemma
  about `Front` and `Last`. `EventsInLiveFrames` and `ContinuationWaits` rest on
  it. The first says that every event the ring knows is that of the wait its
  coroutine is at, with the two exceptions of the code: a wait whose submit
  threw, and an accept that its coroutine has left. It needs that handing over
  the head of `sq` moves each event from one place to the other (`HandOver`,
  `OnceInRing`), that a task whose submit threw is gone (`ThrewGone`), so that
  it cannot wait again, and that a task that accepts does not wait for anything
  else (`OneKind`), since otherwise the completion of an accept could take it
  past another request. `ContinuationWaits` excepts a coroutine that accepts and
  was resumed out of a `co_await` (`strayed`). `RoomForSqe` is inductive with
  the types.
* **SocketsProofs.** `OneOwner`, `HeldIsOpen`, `NoLeak` and `CloseCancelsAll`
  are inductive together with the fact that nothing is in flight on a descriptor
  that is still carried by an accept completion; without that a new object could
  inherit another ring's operation. For `CloseCancelsAll` the SQEs that wait
  have to name descriptors that an object of that ring holds (`LateSqesHeld`):
  the cancellation that `close()` hands over comes after all of them, and the
  ring is empty when the descriptor is given up.
* **AsioPostProofs.** The invariant relates the count of work to the queue and
  to where both threads are: main's post between its two halves, a handler that
  runs, and the one queued. It gives that the count is zero only when nothing is
  queued and the coroutine has not begun or has ended (`NoneAbandoned`), and
  that whatever is queued or runs is the handler of the present wait
  (`OneHandler`). `ResultsCorrect` follows with what was stored and read so far.
* **EStringProofs.** What `init` stores is an array of bytes and `View` inverts
  it (`StoreAndView`); the invariant says that each side holds what was stored
  for its source and that the result is that of the two arrays. For
  `ComparesLikeStrings` the digits are added one by one: if numbers x and y
  compare as the first k bytes do, x * Base + v[k] and y * Base + w[k] compare as
  the first k + 1 do (`OneMoreByte`, from `OneMoreDigit`), so `Repr` compares as
  the whole array does (`ReprCompares`) as long as the first bytes have one sign.
  Arrays are equal only for equal strings (`StoreSame`, because `View` inverts
  `Store`), and without nulls they first differ where the strings do, or at the
  null after the shorter one, before either count (`StoreOrder`).
  `OrderAcrossTypes` needs neither restriction.
* **EchoServerProofs.** An inductive invariant of eleven parts. The hub is
  `Suspended` and `Monitored`: what the kernel or the queue holds is for a
  coroutine at this wait or for one that a throwing submit ended (`threw`), one
  thing for each; `OneOfAKind` makes that a statement about places in the queue,
  so that taking the head out leaves no second one (`Taken`). A receive and a
  send count as alike there (`Alike`), because of a `handle_client` that is gone
  only `threw` is known. `MonitorOutlived` says that the variables
  `disconnect_if_idle` looks at are there, or a submit of `handle_client` threw;
  it is inductive with `Monitored`, which knows the monitors that are lost.
  `OwnConnection` and `DescriptorsHeldOnce` need `Descriptors`: the kernel's
  table and the sockets agree, and a descriptor that nobody holds is in an
  accept completion still queued, whose `handle_client` has not begun. `FreeFd`
  gives out the smallest free one (`SmallestIsMin`) and `ArmedByAccepts` bounds
  the multishots, which is what keeps `armed` in its type. As long as no accept
  failed every accept completion carries a descriptor, so that its handler arms
  again: that gives `ListensUnlessFailed` (`Accepting`). `IdleBound` needs
  `InTime`: while the timer runs, the age and what is left of the timer together
  never exceed Limit + Period, and a connection that is open is monitored or in
  `threw`. The other half of `EventsHaveTheirFrame`, that no coroutine is
  forgotten at its wait, is a second invariant, `Awake`: whatever a live
  coroutine waits for is still in the kernel or the queue, and only a send that
  failed can be missing, with the peer gone or the connection closed.
* **EchoServiceProofs.** On top of that, `Data` follows every byte: those taken
  from a peer are sent back, in the buffer, or behind a short send. The buffer
  holds the last ones without a gap (`InBuffer`), what was echoed is in order
  and below them, and as long as no send was short it is all of the rest. What a
  throwing submit left in the ring still moves bytes, for a coroutine that is
  gone: a receive is lost when it completes (`GoneData`), a send still sends the
  buffer.
  `RefinesService` maps `PeerSends` to `Send`, `KernelSends` to `Echo`, or to
  `Cut` if the peer has gone and the send is short (`SendIsEcho`), and everything
  else to a stutter.
* **NetworkTestProofs.** `Waits` relates the four coroutines to each other
  (`Callers`), to what is in flight (`Suspended`) and to the accepts: the first
  accept completion belongs to the client and precedes any other (`FirstLeads`),
  which is why the stray connection never takes the client's place. That no
  accept is armed once `run_server` has gone, and one is armed until then unless
  it failed, is in `Owned`. `Data` is the conservation of the word's bytes over
  two wires and a buffer, `FirstSend` that the client sends one word at most.
  `OwnedEnds` follows from `Waits` and `RefinesService` from all of it. `Awake`
  says that a coroutine that waits has its operation in hand; each handler
  either leaves a coroutine at a wait that is not the one it handles, starts its
  next operation, ends it, or forgets it after a send that failed (`GoesOn`).

Before each was proved, TLC found the inductive invariants of `EchoServer` and
`NetworkTest` to hold in the instances of the runs.

Model-checked only: what is temporal with fairness (`EveryCompletionHandled`,
`EveryConnectionClosed`, `ServerFollows`, `Finishes`), which is beyond the
prover, and the four properties that are violated. All other properties of the
runs are theorems.

## 5. Findings

1. `co_await` of a task never returns. `awaitable_t::await_suspend` stores the
   waiting coroutine in `continuation_` (`iouring_coroutine.hpp:107`), and
   nothing reads it. The network test sets `stopped = true` after two such waits
   (`iouring_test_network.cpp:113-115`) and is never stopped; the echo server's
   `handle_client` frames are never freed.
2. `on_send` ignores results that are not positive (`iouring_net.cpp:94`), so
   the branch `if (!sr.has_value())` of its callers is never reached and
   `handle_client` stays suspended. The connection is still closed, by the idle
   monitor: `EveryConnectionClosed`.
3. `on_accept` ignores them as well (`iouring_net.cpp:167`): an accept that ends
   with an error is not reported, and if it was the last one armed the server
   never accepts again.
4. The echo client ends after its first word: the log line at
   `echo_client_main.cpp:34` (and line 35 of the network test) has a placeholder
   and no argument, and the exception it throws is dropped by the coroutine's
   promise. The loop over five words (`iouring_test_network.cpp:23`) never
   reaches the second.

More facts show in the models without being claims of the repository.

* A `co_await` of a task that has already ended writes to a destroyed frame
  (`lost` in `Tasks`, "stale" in `EchoServer`); the echo server does so after
  each idle disconnect, and as it is built with `-fsanitize=address`
  (`CMakeLists.txt:10`) it may end there. The sanitizer notices only while the
  memory was not reused, so both outcomes are modelled.
* A descriptor 0 that is accepted is neither used nor closed (`NoLeak` excepts
  it).
* A `submit()` that takes only some of the SQEs returns a positive number and is
  taken for success (`iouring_impl_liburing.hpp:62`). The cancellation of a
  `close()` may then be handed over after the descriptor was given to someone
  else, whose operations it ends; `CloseCancelsAll` excepts it.
* A `submit()` that throws at a receive or send of `handle_client`
  (`echo_server_main.cpp:44`, `51`) destroys the variables that
  `disconnect_if_idle` refers to; at its next look the monitor reads destroyed
  memory. At a timer (line 20) it ends the monitor, and a silent peer keeps its
  connection for good.
* A `listen()` that fails is dropped with its exception (`iouring_net.hpp:266`),
  and `main` runs a ring without a server.
* The parameters in `params_` (`iouring_impl_liburing.hpp:28-39`) are passed to
  nobody: the ring is made with `q_depth_` and no flags.
* The multishot accept of the test's `run_server` stays armed on a dead event: a
  second connection resumes the coroutine at the wrong wait or ends the program.
* Types of equal length order strings with bytes from 128 on, or with trailing
  nulls, otherwise than types of different lengths do (`OrderAgrees`, a part of
  `ComparesLikeStrings`, excepts them).
* In the asio experiment the thread started at line 385 may find no work and
  return before the post at 386: the program ends and the coroutine never runs.
  `Finishes` is about the behaviours in which `run()` found work.

## 6. Not modelled

The fixed point header, which is no program yet (`throw_out_of_range` has no
return type, `from_raw` uses an undeclared name) and is not built; `bitset`,
whose only operation nothing instantiates; the time conversion, two casts of
constants. The values that tasks return (`awaitable_result_t`; no program of the
repository returns any), `io_uring_queue_init`, logging, reflection, the raw
back end (a stub that is not selected) and `string_literal`; of the asio
experiment, `run_timer` and `AwaitableResult`, which nothing uses. The submits
of `NetworkTest`, and in `EchoServer` that of the accept, are taken to succeed:
what a failed one leaves behind is modelled in `Tasks` (an event in a dead
frame, or one of a task that is gone) and, for a socket, in `Sockets`. A server
whose accept was not submitted does not listen until the next submit hands it
over. A submit that takes a part of the SQEs is modelled in `Tasks` and
`Sockets`, not in `EchoServer`.

## 7. Plan

In this order; 1 to 10 are done.

1. `CompletionLog`, `Ring`, runs, refinement; `RingProofs`.
2. `Tasks` and its proofs.
3. `Sockets` and its proofs.
4. `EchoServer` on top, `EchoService` as its abstract specification.
5. `NetworkTest` with the echo client.
6. `EString` and its proofs.
7. Submits that throw, in `Tasks`, `Sockets` and `EchoServer`, or are partial, in
   the first two; the start of `EchoServer`; multishot accepts that outlive their
   wait, in `Tasks`; a second connection to the network test's server.
8. `AsioPost` and its proofs.
9. `EchoServerProofs` for any number of connections, then the refinement of
   `EchoService` (`EchoServiceProofs`); the same of `NetworkTest`.
10. `ComparesLikeStrings` for every length of the arrays.
11. The safety part of the liveness properties, as `Awake` is for
    `EveryConnectionClosed` and `ServerFollows`: measures on the state that every
    fair step lowers and no other step raises, for `Finishes` (the waits that are
    left), `ServerFollows` (the bytes of the word on their way) and
    `EveryCompletionHandled` (the completions not yet given back), and the facts
    that such a step is possible as long as the measure is not zero.
12. The refinement of `CompletionLog` used by name: that the queue `cq` of
    `EchoServer` and `NetworkTest` behaves as `CompletionLog` does.
