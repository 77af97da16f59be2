------------------------------ MODULE AsioPost ------------------------------
(***************************************************************************)
(* The coroutine experiment on asio (experiments/coroutines/               *)
(* asio_coro_callback.cpp).  main() starts a thread that calls io.run(),   *)
(* posts the call of run_coroutines and joins the thread.  run_coroutines  *)
(* waits Waits times; each wait (ASIOPostAwaitable) posts a handler that   *)
(* stores what a function returns in *value_ and resumes the coroutine.    *)
(* The function of the last wait, Cache::fetch, reads a number from a      *)
(* server (random_generator_server.py) and calls back with it.             *)
(*                                                                         *)
(* A handler is the number of the wait it ends, 0 for the one that main()  *)
(* posts.  The io_context is modelled as far as the program depends on it: *)
(* a queue, a counter of outstanding work raised before a handler is       *)
(* queued and lowered after it has run, and stop() when it reaches zero.   *)
(***************************************************************************)
EXTENDS Integers, Sequences

CONSTANTS
  Waits,  \* co_awaits of run_coroutines (5)
  Valued, \* how many of them return a value (3), which are the first
  Bytes   \* sizeof(int32_t)

ASSUME AsioAssumption ==
  /\ Waits \in Nat \ {0}
  /\ Valued \in 0 .. Waits - 1
  /\ Bytes \in Nat \ {0}

VARIABLES
  main,      \* where main() is: "post", "push", "join" or "over"
  io,        \* where the thread of the io_context is
  queue,     \* handlers queued
  work,      \* outstanding_work_
  stopped,   \* stopped_
  handler,   \* the handler that runs, or Idle
  coroutine, \* the wait run_coroutines is suspended at; 0: not called yet
  value,     \* *value_ of the awaitable it waits for, or NoValue
  results,   \* what its waits returned
  server,    \* the server process: "down" or "up"
  link,      \* its end of the connection: "none", "open" or "closed"
  wire,      \* bytes of the number that it sent
  buf,       \* Cache::buf, as far as it was read
  answers    \* what the callback of fetch was called with

context == <<queue, work, stopped>>
coro == <<coroutine, value, results>>
net == <<server, link, wire>>
vars == <<main, io, context, handler, coro, net, buf, answers>>

Idle == -1
NoValue == 0            \* what std::make_shared < T > () makes
Ended == Waits + 1
Number == [i \in 1 .. Bytes |-> i]
Nullopt == <<>>

Init ==
  /\ main = "post"
  /\ io = "created"
  /\ queue = <<>> /\ work = 0 /\ stopped = FALSE
  /\ handler = Idle
  /\ coroutine = 0 /\ value = NoValue /\ results = <<>>
  /\ server \in {"down", "up"} /\ link = "none" /\ wire = <<>>
  /\ buf = <<>>
  /\ answers = <<>>

-----------------------------------------------------------------------------
(* main().  asio::post counts the handler first and queues it then; the     *)
(* other thread may act in between.                                         *)

MainCounts ==
  /\ main = "post"
  /\ main' = "push"
  /\ work' = work + 1
  /\ UNCHANGED <<io, queue, stopped, handler, coro, net, buf, answers>>

MainQueues ==
  /\ main = "push"
  /\ main' = "join"
  /\ queue' = Append(queue, 0)
  /\ UNCHANGED <<io, work, stopped, handler, coro, net, buf, answers>>

MainJoins ==
  /\ main = "join"
  /\ io = "returned"
  /\ main' = "over"
  /\ UNCHANGED <<io, context, handler, coro, net, buf, answers>>

-----------------------------------------------------------------------------
(* io.run() in its thread.                                                  *)

(* Without outstanding work it stops the context at once.                   *)
RunBegins ==
  /\ io = "created"
  /\ io' = IF work = 0 THEN "stop" ELSE "loop"
  /\ UNCHANGED <<main, context, handler, coro, net, buf, answers>>

Stop ==
  /\ io = "stop"
  /\ io' = "returned"
  /\ stopped' = TRUE
  /\ UNCHANGED <<main, queue, work, handler, coro, net, buf, answers>>

CallHandler ==
  /\ io = "loop"
  /\ queue # <<>>
  /\ handler' = Head(queue)
  /\ queue' = Tail(queue)
  /\ io' = "call"
  /\ UNCHANGED <<main, work, stopped, coro, net, buf, answers>>

HandlerReturns ==
  /\ io = "finish"
  /\ handler' = Idle
  /\ work' = work - 1
  /\ io' = IF work' = 0 THEN "stop" ELSE "loop"
  /\ UNCHANGED <<main, queue, stopped, coro, net, buf, answers>>

-----------------------------------------------------------------------------
(* The coroutine.                                                           *)

(* Variants: a handler that is not counted as work; one that is posted both *)
(* when the awaitable is made and when it is awaited.                       *)
PostUncounted(h) ==
  /\ queue' = Append(queue, h)
  /\ UNCHANGED work

PostTwice(h) ==
  /\ queue' = queue \o <<h, h>>
  /\ work' = work + 2

Post(h) ==
  /\ queue' = Append(queue, h)
  /\ work' = work + 1

(* run_coroutines runs from one wait to the next, or to its end, where its  *)
(* frame is destroyed.  Each wait has an awaitable of its own.  Variant: a  *)
(* wait is posted at the end as well.                                       *)
GoOnPastEnd ==
  /\ coroutine' = coroutine + 1
  /\ value' = NoValue
  /\ Post(coroutine')

GoOn ==
  /\ coroutine' = coroutine + 1
  /\ value' = NoValue
  /\ \/ coroutine' # Ended /\ Post(coroutine')
     \/ coroutine' = Ended /\ UNCHANGED <<queue, work>>

(* The handler of main() calls it.                                          *)
CallCoroutines ==
  /\ io = "call"
  /\ handler = 0
  /\ GoOn
  /\ io' = "finish"
  /\ UNCHANGED <<main, stopped, handler, results, net, buf, answers>>

(* Variant: the coroutine is resumed before the value is stored.            *)
StoreNothing == UNCHANGED value

(* *value_ = f(), for a function that does not wait.                        *)
Store == value' = handler

CallFunction ==
  /\ io = "call"
  /\ handler \in 1 .. Waits - 1
  /\ IF handler <= Valued THEN Store ELSE UNCHANGED value
  /\ io' = "resume"
  /\ UNCHANGED <<main, context, handler, coroutine, results, net, buf, answers>>

(* h.resume(): await_resume gives the coroutine the value.                  *)
Resume ==
  /\ io = "resume"
  /\ results' = IF handler <= Valued THEN Append(results, value) ELSE results
  /\ GoOn
  /\ io' = "finish"
  /\ UNCHANGED <<main, stopped, handler, net, buf, answers>>

-----------------------------------------------------------------------------
(* Cache::fetch, which blocks the thread.                                   *)

CallBack(v) ==
  /\ answers' = Append(answers, v)
  /\ io' = "resume"

FetchConnects ==
  /\ io = "call"
  /\ handler = Waits
  /\ server = "up"
  /\ link' = "open"
  /\ io' = "read"
  /\ UNCHANGED <<main, context, handler, coro, server, wire, buf, answers>>

(* Variant: the exception is not caught in fetch but by the caller of f.    *)
ConnectEscapes ==
  /\ io = "call"
  /\ handler = Waits
  /\ server = "down"
  /\ io' = "finish"
  /\ UNCHANGED <<main, context, handler, coro, net, buf, answers>>

(* connect throws; so does read at the end of file, however much was read.  *)
ConnectFails ==
  /\ io = "call"
  /\ handler = Waits
  /\ server = "down"
  /\ CallBack(Nullopt)
  /\ UNCHANGED <<main, context, handler, coro, net, buf>>

ReadFails ==
  /\ io = "read"
  /\ link = "closed" /\ Len(buf) = Len(wire) /\ Len(buf) < Bytes
  /\ CallBack(Nullopt)
  /\ UNCHANGED <<main, context, handler, coro, net, buf>>

(* Variant: whatever one receive brings is taken for the number.            *)
ReadOnce ==
  /\ io = "read"
  /\ \E n \in Len(buf) + 1 .. Len(wire) : buf' = SubSeq(wire, 1, n)
  /\ CallBack(buf')
  /\ UNCHANGED <<main, context, handler, coro, net>>

(* The bytes come in pieces; transfer_exactly reads on until it has them.   *)
Read ==
  /\ io = "read"
  /\ \E n \in Len(buf) + 1 .. Len(wire) : buf' = SubSeq(wire, 1, n)
  /\ IF Len(buf') = Bytes THEN CallBack(buf') ELSE UNCHANGED <<io, answers>>
  /\ UNCHANGED <<main, context, handler, coro, net>>

-----------------------------------------------------------------------------
(* The server.                                                              *)

ServerStarts ==
  /\ server = "down"
  /\ server' = "up"
  /\ UNCHANGED <<main, io, context, handler, coro, link, wire, buf, answers>>

ServerStops ==
  /\ server = "up"
  /\ server' = "down"
  /\ link' = IF link = "open" THEN "closed" ELSE link
  /\ UNCHANGED <<main, io, context, handler, coro, wire, buf, answers>>

(* sendall, then the connection is closed.                                  *)
ServerSends ==
  /\ link = "open"
  /\ \E n \in Len(wire) + 1 .. Bytes :
       /\ wire' = SubSeq(Number, 1, n)
       /\ link' = IF n = Bytes THEN "closed" ELSE link
  /\ UNCHANGED <<main, io, context, handler, coro, server, buf, answers>>

-----------------------------------------------------------------------------
Main == MainCounts \/ MainQueues \/ MainJoins

Io ==
  \/ RunBegins \/ Stop \/ CallHandler \/ HandlerReturns
  \/ CallCoroutines \/ CallFunction \/ Resume
  \/ FetchConnects \/ ConnectFails \/ Read \/ ReadFails

Server == ServerStarts \/ ServerStops \/ ServerSends

Next == Main \/ Io \/ Server

Spec == Init /\ [][Next]_vars

(* Both threads run, and a server that took a connection answers it or goes *)
(* down: read has no timeout and would wait for a silent one for ever.      *)
FairSpec == Spec /\ WF_vars(Main) /\ WF_vars(Io) /\ WF_vars(ServerSends)

-----------------------------------------------------------------------------
TypeOK ==
  /\ main \in {"post", "push", "join", "over"}
  /\ io \in {"created", "loop", "call", "read", "resume", "finish", "stop", "returned"}
  /\ queue \in Seq(0 .. Waits)
  /\ work \in Nat
  /\ stopped \in BOOLEAN
  /\ handler \in Idle .. Waits
  /\ coroutine \in 0 .. Ended
  /\ value \in 0 .. Valued
  /\ results \in Seq(0 .. Valued)
  /\ server \in {"down", "up"}
  /\ link \in {"none", "open", "closed"}
  /\ wire \in Seq(1 .. Bytes)
  /\ buf \in Seq(1 .. Bytes)
  /\ answers \in Seq(Seq(1 .. Bytes))

(* A posted handler refers to its awaitable and its coroutine by address.   *)
(* At any time at most one is queued or about to use them, and it is that   *)
(* of the wait at which the coroutine is suspended: none resumes it twice,  *)
(* at another wait, or after its frame was destroyed.                       *)
HandlerForItsWait ==
  /\ Len(queue) <= 1
  /\ \A i \in DOMAIN queue : queue[i] = coroutine
  /\ io \in {"call", "read", "resume"} => handler = coroutine /\ queue = <<>>
  /\ coroutine \in 1 .. Waits => queue # <<>> \/ io \in {"call", "read", "resume"}

(* The context is stopped only before the coroutine was called or when it   *)
(* has ended: no wait is abandoned.                                         *)
StopsWhenDone == stopped => coroutine \in {0, Ended}

(* Each wait returned what its function computed.                           *)
ResultsAreValues ==
  /\ \A k \in 1 .. Len(results) : results[k] = k
  /\ coroutine = Ended => Len(results) = Valued

(* fetch calls back exactly once, whether it connects, reads all, a part or *)
(* nothing; and with a number only if it has all bytes of it.               *)
FetchCallsBackOnce ==
  /\ \A i \in 1 .. Len(answers) : answers[i] \in {Nullopt, Number}
  /\ coroutine = Ended \/ (io = "resume" /\ handler = Waits) <=> Len(answers) = 1
  /\ Len(answers) <= 1

(* What the coroutine and the caller of fetch get is what the functions     *)
(* computed and the server sent, once each.                                 *)
ResultsDelivered == ResultsAreValues /\ FetchCallsBackOnce

(* If run() found work when it began, the coroutine runs to its end and the *)
(* program ends.                                                            *)
Finishes == io = "loop" ~> main = "over" /\ coroutine = Ended
=============================================================================
