----------------------------- MODULE EchoServer -----------------------------
(***************************************************************************)
(* The echo server (iouring-cpp/examples/echo_server) on top of the ring,  *)
(* the timers and the sockets of iouring-cpp.  run_echo_server accepts for *)
(* ever; for each connection handle_client echoes what it receives, and    *)
(* disconnect_if_idle looks at it every Period seconds and closes it when  *)
(* nothing was received for more than Limit seconds.                       *)
(*                                                                         *)
(* All coroutines run in one thread, inside the handlers that the dispatch *)
(* loop calls for the completions, one at a time and in the order of cq    *)
(* (the promise of CompletionLog).  A handler resumes a coroutine, which   *)
(* runs to its next wait: that is one step here.  Kernel, peers and clock  *)
(* move between two handlers.  The n-th connection to arrive is n.         *)
(*                                                                         *)
(* Every submit() may throw, but for that of run_echo_server's accept.     *)
(* Thrown at a wait it ends the coroutine and destroys its frame, while    *)
(* the SQE stays in the submission ring and is handed over with the next   *)
(* one.  The sanitizer keeps freed memory from being used again: a use of  *)
(* a destroyed frame ends the program or finds what was there.             *)
(***************************************************************************)
EXTENDS Integers, Sequences, FiniteSets, SequencesExt, FiniteSetsExt

CONSTANTS
  MaxConns,  \* bound: connections in a behaviour
  MaxBytes,  \* bound: bytes a peer sends on a connection
  MaxFails,  \* bound: accepts that end with an error and listen() that fails
  MaxThrows, \* bound: calls of submit() that throw
  Period,    \* seconds between two looks of disconnect_if_idle (3)
  Limit,     \* seconds without a message that it lets pass (10)
  Speeds     \* the values of prompt that are considered

ASSUME EchoAssumption ==
  /\ MaxConns \in Nat \ {0}
  /\ MaxBytes \in Nat
  /\ MaxFails \in Nat /\ MaxThrows \in Nat
  /\ Period \in Nat \ {0}
  /\ Limit \in Nat
  /\ Speeds \subseteq BOOLEAN /\ Speeds # {}

Conns == 1 .. MaxConns
Fds == 1 .. MaxConns
NoFd == 0    \* invalid_socket_fd
NoFile == 0  \* what an invalid descriptor refers to
NoTimer == -1
OldAge == Limit + Period + 1  \* bound: ages are not told apart beyond it

VARIABLES
  \* the peers and the kernel
  peer,     \* per connection: "away" until it connects, "here", "gone"
  sent,     \* bytes the peer sent
  taken,    \* how many of them were received by the server
  echoed,   \* the bytes the peer got back; byte n of connection c is <<c, n>>
  cut,      \* history: connections on which a send was short
  accepted, \* connections the kernel accepted
  fails,    \* accepts that ended with an error, or a listen() that failed
  armed,    \* multishot accepts armed on the listening socket
  file,     \* the descriptor table: the connection of each one, or NoFile
  ops,      \* sends and receives the kernel works on
  timer,    \* seconds until disconnect_if_idle's timer fires, or NoTimer
  cq,       \* completions whose handler was not called yet
  \* the program
  server,   \* run_echo_server: "starting" in tcp_server, "up", or "ended"
  throws,   \* calls of submit() that threw
  threw,    \* history: the connections for which one did
  aborted,  \* it was ended by a use of a destroyed frame or an exception
  prompt,   \* whether it keeps up: no second passes while something is due
  \* the coroutines, per connection
  hc,       \* handle_client: the wait it is suspended at, or "gone"
  dii,      \* disconnect_if_idle: "timer"; "gone" when it finished, "lost" when
            \* a submit() that threw ended it and stopped is still FALSE
  fd,       \* cs.fd_
  buf,      \* buffer, as far as the last receive filled it
  age       \* seconds since lastMessageTime

net == <<peer, sent, taken, echoed, cut>>
program == <<server, throws, threw, aborted, prompt>>
tables == <<accepted, fails, file>>
frames == <<hc, dii, fd, age>>
vars == <<net, tables, program, armed, ops, timer, cq, frames, buf>>

Op(kind, c, f) == [kind |-> kind, conn |-> c, file |-> f]
Cqe(kind, c, res) == [kind |-> kind, conn |-> c, res |-> res]

Init ==
  /\ peer = [c \in Conns |-> "away"]
  /\ sent = [c \in Conns |-> 0]
  /\ taken = [c \in Conns |-> 0]
  /\ echoed = [c \in Conns |-> <<>>]
  /\ cut = {}
  /\ accepted = 0
  /\ fails = 0
  /\ armed = 0
  /\ server = "starting" /\ throws = 0 /\ threw = {} /\ aborted = FALSE
  /\ prompt \in Speeds
  /\ file = [x \in Fds |-> NoFile]
  /\ ops = {}
  /\ timer = [c \in Conns |-> NoTimer]
  /\ cq = <<>>
  /\ hc = [c \in Conns |-> "none"]
  /\ dii = [c \in Conns |-> "none"]
  /\ fd = [c \in Conns |-> NoFd]
  /\ buf = [c \in Conns |-> <<>>]
  /\ age = [c \in Conns |-> 0]

-----------------------------------------------------------------------------
(* The peers.                                                               *)

Connect(c) ==
  /\ peer[c] = "away" /\ server = "up"
  /\ c > 1 => peer[c - 1] # "away"
  /\ peer' = [peer EXCEPT ![c] = "here"]
  /\ UNCHANGED <<sent, taken, echoed, cut, tables, armed, ops, timer, cq, frames, buf, program>>

PeerSends(c) ==
  /\ peer[c] = "here"
  /\ sent[c] < MaxBytes
  /\ sent' = [sent EXCEPT ![c] = @ + 1]
  /\ UNCHANGED <<peer, taken, echoed, cut, tables, armed, ops, timer, cq, frames, buf, program>>

PeerLeaves(c) ==
  /\ peer[c] = "here"
  /\ peer' = [peer EXCEPT ![c] = "gone"]
  /\ UNCHANGED <<sent, taken, echoed, cut, tables, armed, ops, timer, cq, frames, buf, program>>

-----------------------------------------------------------------------------
(* The kernel.                                                              *)

Post(cqe) == cq' = Append(cq, cqe)

FreeFd == Min({x \in Fds : file[x] = NoFile})

(* A multishot accept takes the next connection; it stays armed unless the  *)
(* completion comes without IORING_CQE_F_MORE.                              *)
KernelAccepts(more) ==
  /\ armed > 0
  /\ accepted < MaxConns
  /\ peer[accepted + 1] # "away"
  /\ file' = [file EXCEPT ![FreeFd] = accepted + 1]
  /\ Post(Cqe("accept", accepted + 1, FreeFd))
  /\ accepted' = accepted + 1
  /\ armed' = IF more THEN armed ELSE armed - 1
  /\ UNCHANGED <<net, fails, ops, timer, frames, buf, program>>

(* It ends with an error, for instance when descriptors run out.            *)
KernelAcceptFails ==
  /\ armed > 0
  /\ fails < MaxFails
  /\ fails' = fails + 1
  /\ armed' = armed - 1
  /\ Post(Cqe("accept", NoFile, -1))
  /\ UNCHANGED <<net, accepted, file, ops, timer, frames, buf, program>>

Closed(f) == \A x \in Fds : file[x] # f

(* A peer that left may have reset the connection.  Once close() was called *)
(* what is in flight may be cancelled, even if its submit() threw: the SQE  *)
(* is handed over with the next submit().                                   *)
MayFail(f) ==
  f = NoFile \/ (f \in Conns /\ (dii[f] = "gone" \/ hc[f] = "gone" \/ peer[f] = "gone"))

KernelReceives(o) ==
  /\ o.kind = "recv"
  /\ o.file # NoFile
  /\ \E k \in 1 .. sent[o.file] - taken[o.file] :
       /\ buf' = [buf EXCEPT ![o.conn] = [i \in 1 .. k |-> <<o.file, taken[o.file] + i>>]]
       /\ taken' = [taken EXCEPT ![o.file] = @ + k]
       /\ Post(Cqe("recv", o.conn, k))
  /\ ops' = ops \ {o}
  /\ UNCHANGED <<peer, sent, echoed, cut, tables, armed, timer, frames, program>>

(* The send may be short.  What is sent to a peer that left is lost.        *)
KernelSends(o) ==
  /\ o.kind = "send"
  /\ o.file # NoFile
  /\ \E k \in 1 .. Len(buf[o.conn]) :
       /\ echoed' = IF peer[o.file] = "here"
                    THEN [echoed EXCEPT ![o.file] = @ \o SubSeq(buf[o.conn], 1, k)]
                    ELSE echoed
       /\ cut' = IF k < Len(buf[o.conn]) THEN cut \cup {o.file} ELSE cut
       /\ Post(Cqe("send", o.conn, k))
  /\ ops' = ops \ {o}
  /\ UNCHANGED <<peer, sent, taken, tables, armed, timer, frames, buf, program>>

(* End of file: a receive that completes with 0.                            *)
KernelEnds(o) ==
  /\ o.kind = "recv"
  /\ o.file # NoFile
  /\ peer[o.file] = "gone" /\ sent[o.file] = taken[o.file]
  /\ Post(Cqe("recv", o.conn, 0))
  /\ ops' = ops \ {o}
  /\ UNCHANGED <<net, tables, armed, timer, frames, buf, program>>

KernelFails(o) ==
  /\ MayFail(o.file)
  /\ Post(Cqe(o.kind, o.conn, -1))
  /\ ops' = ops \ {o}
  /\ UNCHANGED <<net, tables, armed, timer, frames, buf, program>>

TimerFires(c) ==
  /\ timer[c] = 0
  /\ timer' = [timer EXCEPT ![c] = NoTimer]
  /\ Post(Cqe("timer", c, -1))
  /\ UNCHANGED <<net, tables, armed, ops, frames, buf, program>>

(* A second passes.                                                         *)
Due == cq # <<>> \/ \E c \in Conns : timer[c] = 0 /\ dii[c] = "timer"

Tick ==
  /\ prompt /\ ~aborted => ~Due
  /\ timer' = [c \in Conns |-> IF timer[c] > 0 THEN timer[c] - 1 ELSE timer[c]]
  /\ age' = [c \in Conns |->
               IF hc[c] # "none" /\ age[c] < OldAge THEN age[c] + 1 ELSE age[c]]
  /\ UNCHANGED <<net, tables, program, armed, ops, cq, hc, dii, fd, buf>>

-----------------------------------------------------------------------------
(* tcp_server.  A bind() that fails is tried again after a sleep of five    *)
(* seconds, and nothing else happens meanwhile, as long as it takes; then   *)
(* listen() succeeds and run_echo_server runs to its first accept, or it    *)
(* fails and throws.  The promise drops the exception, and main() goes on   *)
(* to run the ring.                                                         *)
Listens ==
  /\ server = "starting"
  /\ server' = "up"
  /\ armed' = 1
  /\ UNCHANGED <<net, tables, throws, threw, aborted, prompt, ops, timer, cq, frames, buf>>

ListenFails ==
  /\ server = "starting"
  /\ fails < MaxFails
  /\ fails' = fails + 1
  /\ server' = "ended"
  /\ UNCHANGED <<net, accepted, file, throws, threw, aborted, prompt, armed, ops, timer, cq,
                 frames, buf>>

-----------------------------------------------------------------------------
(* The handlers, each with the coroutine code it resumes.                   *)

Handles(kind, cqe) ==
  /\ cq # <<>>
  /\ cqe = Head(cq)
  /\ cqe.kind = kind
  /\ cq' = Tail(cq)

FileOf(x) == IF x = NoFd THEN NoFile ELSE file[x]

(* n calls of submit() throw.                                               *)
Throw(n) == throws' = throws + n /\ throws' <= MaxThrows

(* Variants: fd_ is invalidated before it is used; fd_ is not invalidated.  *)
CloseInvalid(c, x) ==
  /\ file' = file
  /\ fd' = [fd EXCEPT ![c] = NoFd]

CloseKeeping(c, x) ==
  /\ file' = [y \in Fds |-> IF y = x THEN NoFile ELSE file[y]]
  /\ fd' = fd

(* socket_t::close of cs, whose descriptor is x; without one it does        *)
(* nothing.  The operations in flight lose their file (Closed).             *)
Close(c, x) ==
  /\ file' = [y \in Fds |-> IF y = x THEN NoFile ELSE file[y]]
  /\ fd' = [fd EXCEPT ![c] = NoFd]

(* handle_client's co_await cs.recv or cs.send, on the descriptor x of cs.  *)
(* If submit() throws the frame is destroyed, and cs closed with it, whose  *)
(* submit() hands the SQE over; ~socket_t lets no exception pass.           *)
Submitted(kind, c, x) ==
  /\ hc' = [hc EXCEPT ![c] = kind]
  /\ fd' = [fd EXCEPT ![c] = x]
  /\ UNCHANGED <<file, aborted>>

Unwound(c, x) ==
  /\ hc' = [hc EXCEPT ![c] = "gone"]
  /\ Close(c, x)
  /\ UNCHANGED aborted

Terminated(c, x) ==
  /\ x # NoFd
  /\ hc' = [hc EXCEPT ![c] = "gone"]
  /\ fd' = [fd EXCEPT ![c] = x]
  /\ aborted' = TRUE
  /\ UNCHANGED file

Await(kind, c, x, n) ==
  /\ ops' = ops \cup {Op(kind, c, FileOf(x))}
  /\ \/ n = 0 /\ Submitted(kind, c, x)
     \/ n = 1 /\ Unwound(c, x)
     \/ n = 2 /\ Terminated(c, x)

Receive(c, x, n) == Await("recv", c, x, n)

(* disconnect_if_idle's co_await of its timer.  If submit() throws the      *)
(* frame is destroyed; its timer starts later and fires then, if at all.    *)
StartTimer(c, m) ==
  \/ /\ m = 0
     /\ timer' = [timer EXCEPT ![c] = Period]
     /\ dii' = [dii EXCEPT ![c] = "timer"]
  \/ /\ m = 1
     /\ timer' = [timer EXCEPT ![c] = Period]
     /\ dii' = [dii EXCEPT ![c] = "lost"]

(* handle_client up to its first wait; it starts disconnect_if_idle first.  *)
HandleClient(c, x, m, n) ==
  /\ age' = [age EXCEPT ![c] = 0]
  /\ StartTimer(c, m)
  /\ Receive(c, x, n)
  /\ Throw(m + n)
  /\ threw' = IF m + n > 0 THEN threw \cup {c} ELSE threw

(* run_echo_server goes on to accept again, which arms one more multishot.  *)
(* Variant: it relies on the first one staying armed.                       *)
AcceptOnce == UNCHANGED armed

AcceptAgain == armed' = armed + 1

(* on_accept resumes run_echo_server only for a descriptor above 0.         *)
OnAccept(cqe) ==
  /\ Handles("accept", cqe)
  /\ \/ /\ cqe.res > 0
        /\ \E m \in 0 .. 1, n \in 0 .. 2 : HandleClient(cqe.conn, cqe.res, m, n)
        /\ AcceptAgain
     \/ /\ cqe.res <= 0
        /\ UNCHANGED <<file, throws, threw, aborted, armed, ops, timer, frames>>
  /\ UNCHANGED <<net, accepted, fails, server, prompt, buf>>

(* co_await dii at the end of handle_client: it is suspended for good.  If  *)
(* disconnect_if_idle has ended, its frame is destroyed and the wait writes *)
(* to freed memory.  Variant: handle_client ends instead.                   *)
AwaitNothing(c) ==
  /\ hc' = [hc EXCEPT ![c] = "gone"]
  /\ UNCHANGED aborted

AwaitDii(c) ==
  \/ /\ dii[c] # "timer"
     /\ hc' = [hc EXCEPT ![c] = "stale"]
     /\ aborted' \in BOOLEAN
  \/ /\ dii[c] = "timer"
     /\ hc' = [hc EXCEPT ![c] = "await"]
     /\ UNCHANGED aborted

(* handle_client sends back what it received.  Variant: it starts the next  *)
(* receive along with the send.                                             *)
SendAndReceive(c, n) ==
  /\ n = 0
  /\ hc' = [hc EXCEPT ![c] = "send"]
  /\ ops' = ops \cup {Op(kind, c, FileOf(fd[c])) : kind \in {"recv", "send"}}
  /\ UNCHANGED <<file, fd, aborted>>

SendBack(c, n) == Await("send", c, fd[c], n)

(* A wait that may throw, in a handler.                                     *)
Throwing(c, n) == Throw(n) /\ threw' = IF n > 0 THEN threw \cup {c} ELSE threw

(* A completion of a wait whose submit() threw: its event is destroyed.     *)
EventGone(c) ==
  /\ hc[c] = "gone"
  /\ aborted' \in BOOLEAN
  /\ UNCHANGED <<file, throws, threw, ops, hc, fd, age>>

(* on_recv always resumes handle_client.                                    *)
OnRecv(cqe) ==
  LET c == cqe.conn IN
  /\ Handles("recv", cqe)
  /\ \/ /\ cqe.res > 0 /\ hc[c] # "gone"
        /\ age' = [age EXCEPT ![c] = 0]
        /\ \E n \in 0 .. 2 : SendBack(c, n) /\ Throwing(c, n)
     \/ /\ cqe.res <= 0 /\ hc[c] # "gone"
        /\ AwaitDii(c)
        /\ UNCHANGED <<file, throws, threw, ops, fd, age>>
     \/ EventGone(c)
  /\ UNCHANGED <<net, accepted, fails, server, prompt, armed, timer, dii, buf>>

(* on_send resumes handle_client only if something was sent.  stopped is    *)
(* TRUE exactly when disconnect_if_idle has finished.                       *)
OnSend(cqe) ==
  LET c == cqe.conn IN
  /\ Handles("send", cqe)
  /\ \/ /\ cqe.res > 0 /\ dii[c] # "gone" /\ hc[c] # "gone"
        /\ \E n \in 0 .. 2 : Receive(c, fd[c], n) /\ Throwing(c, n)
        /\ UNCHANGED age
     \/ /\ cqe.res > 0 /\ dii[c] = "gone" /\ hc[c] # "gone"
        /\ AwaitDii(c)
        /\ UNCHANGED <<file, throws, threw, ops, fd, age>>
     \/ /\ cqe.res <= 0 /\ hc[c] # "gone"
        /\ UNCHANGED <<file, throws, threw, aborted, ops, hc, fd, age>>
     \/ EventGone(c)
  /\ UNCHANGED <<net, accepted, fails, server, prompt, armed, timer, dii, buf>>

(* disconnect_if_idle sets stopped, closes the socket and finishes, also    *)
(* when close() throws before ::close.                                      *)
(* Variants: it looks at stopped too late and waits once more; it closes    *)
(* only a connection that is receiving.                                     *)
DisconnectLate(c) ==
  /\ dii' = [dii EXCEPT ![c] = "gone"]
  /\ Close(c, fd[c])
  /\ timer' = [timer EXCEPT ![c] = Period]

DisconnectReceiving(c) ==
  /\ dii' = [dii EXCEPT ![c] = "gone"]
  /\ \/ hc[c] = "recv" /\ Close(c, fd[c])
     \/ hc[c] # "recv" /\ UNCHANGED <<file, fd>>
  /\ UNCHANGED timer

Disconnect(c) ==
  /\ dii' = [dii EXCEPT ![c] = "gone"]
  /\ Close(c, fd[c])
  /\ UNCHANGED timer

DisconnectThrows(c) ==
  /\ fd[c] # NoFd
  /\ dii' = [dii EXCEPT ![c] = "gone"]
  /\ UNCHANGED <<file, fd, timer>>

(* It waits for its timer again.  Variants: a second longer than asked for; *)
(* not at all.                                                              *)
LookLater(c, m) ==
  /\ timer' = [timer EXCEPT ![c] = Period + 1]
  /\ UNCHANGED <<file, dii, fd>>

LookOnce(c, m) ==
  /\ dii' = [dii EXCEPT ![c] = "gone"]
  /\ UNCHANGED <<timer, file, fd>>

LookAgain(c, m) ==
  /\ StartTimer(c, m)
  /\ UNCHANGED <<file, fd>>

(* on_timeout always resumes disconnect_if_idle, which looks at the         *)
(* variables of handle_client even if their frame is destroyed.             *)
OnTimeout(cqe) ==
  LET c == cqe.conn IN
  /\ Handles("timer", cqe)
  /\ \/ /\ dii[c] = "timer" /\ age[c] > Limit
        /\ \/ Disconnect(c) /\ Throwing(c, 0)
           \/ DisconnectThrows(c) /\ Throwing(c, 1)
        /\ UNCHANGED aborted
     \/ /\ dii[c] = "timer" /\ age[c] <= Limit
        /\ \E m \in 0 .. 1 : LookAgain(c, m) /\ Throwing(c, m)
        /\ UNCHANGED aborted
     \/ /\ dii[c] = "timer" /\ hc[c] = "gone"
        /\ aborted' = TRUE
        /\ dii' = [dii EXCEPT ![c] = "gone"]
        /\ UNCHANGED <<file, throws, threw, timer, fd>>
     \/ /\ dii[c] # "timer"
        /\ aborted' \in BOOLEAN
        /\ UNCHANGED <<file, throws, threw, timer, dii, fd>>
  /\ UNCHANGED <<net, accepted, fails, server, prompt, armed, ops, hc, age, buf>>

-----------------------------------------------------------------------------
Peers == \E c \in Conns : Connect(c) \/ PeerSends(c) \/ PeerLeaves(c)

Kernel ==
  \/ \E more \in BOOLEAN : KernelAccepts(more)
  \/ KernelAcceptFails
  \/ \E o \in ops : KernelReceives(o) \/ KernelSends(o) \/ KernelEnds(o) \/ KernelFails(o)
  \/ \E c \in Conns : TimerFires(c)

Dispatch ==
  \E cqe \in Range(cq) :
    OnAccept(cqe) \/ OnRecv(cqe) \/ OnSend(cqe) \/ OnTimeout(cqe)

(* When the program has aborted nothing but the clock goes on.              *)
Next == Tick \/ (~aborted /\ (Peers \/ Listens \/ ListenFails \/ Kernel \/ Dispatch))

Spec == Init /\ [][Next]_vars

(* run() dispatches for ever, the kernel finishes what can finish, timers   *)
(* fire and time passes.  Peers owe nothing: they may stay and be silent.   *)
(* Nor is anything owed that a throwing submit() left behind.               *)
Completes(c) ==
  /\ ~aborted /\ hc[c] # "gone"
  /\ \E o \in ops : o.conn = c /\ (KernelReceives(o) \/ KernelSends(o) \/ KernelEnds(o) \/ KernelFails(o))

Fires(c) == ~aborted /\ dii[c] = "timer" /\ TimerFires(c)

Fairness ==
  /\ WF_vars(~aborted /\ Dispatch)
  /\ WF_vars(Tick)
  /\ \A c \in Conns : WF_vars(Completes(c)) /\ WF_vars(Fires(c))

FairSpec == Spec /\ Fairness

-----------------------------------------------------------------------------
TypeOK ==
  /\ peer \in [Conns -> {"away", "here", "gone"}]
  /\ sent \in [Conns -> 0 .. MaxBytes]
  /\ \A c \in Conns : taken[c] \in 0 .. sent[c]
  /\ \A c \in Conns : echoed[c] \in Seq(Conns \X (1 .. MaxBytes))
  /\ cut \subseteq Conns
  /\ server \in {"starting", "up", "ended"}
  /\ throws \in 0 .. MaxThrows /\ threw \subseteq Conns
  /\ aborted \in BOOLEAN /\ prompt \in Speeds
  /\ accepted \in 0 .. MaxConns
  /\ fails \in 0 .. MaxFails
  /\ armed \in 0 .. MaxConns + 1
  /\ file \in [Fds -> Conns \cup {NoFile}]
  /\ ops \subseteq [kind : {"recv", "send"}, conn : Conns, file : Conns \cup {NoFile}]
  /\ timer \in [Conns -> NoTimer .. Period]
  /\ Range(cq) \subseteq [kind : {"accept", "recv", "send", "timer"},
                          conn : Conns \cup {NoFile}, res : -1 .. MaxConns + MaxBytes]
  /\ hc \in [Conns -> {"none", "recv", "send", "await", "stale", "gone"}]
  /\ dii \in [Conns -> {"none", "timer", "gone", "lost"}]
  /\ fd \in [Conns -> Fds \cup {NoFd}]
  /\ \A c \in Conns : buf[c] \in Seq(Conns \X (1 .. MaxBytes))
  /\ age \in [Conns -> 0 .. OldAge]

(* What the kernel or the queue still holds for a coroutine of connection c.*)
InFlight(kind, c) == {o \in ops : o.kind = kind /\ o.conn = c}
Queued(kind, c) == {i \in DOMAIN cq : cq[i].kind = kind /\ cq[i].conn = c}
Outstanding(kind, c) ==
  Cardinality(InFlight(kind, c)) + Cardinality(Queued(kind, c))
  + (IF kind = "timer" /\ timer[c] # NoTimer THEN 1 ELSE 0)

(* An event_t lives in the frame of the coroutine that waits on it, and its *)
(* handler resumes that coroutine wherever it is suspended.  So whatever is *)
(* outstanding must belong to a live coroutine suspended at that very wait, *)
(* and be the only thing outstanding for it; only a wait whose submit()     *)
(* threw leaves something behind, once.  And no coroutine is forgotten at   *)
(* its wait, but for a handle_client that is not told of a send that        *)
(* failed: its peer has gone or its connection was closed.                  *)
EventsHaveTheirFrame ==
  \A c \in Conns :
    /\ \/ /\ Outstanding("recv", c) = IF hc[c] = "recv" THEN 1 ELSE 0
          /\ Outstanding("send", c) <= IF hc[c] = "send" THEN 1 ELSE 0
       \/ /\ hc[c] = "gone" /\ c \in threw
          /\ Outstanding("recv", c) + Outstanding("send", c) <= 1
    /\ hc[c] = "send" /\ Outstanding("send", c) = 0 => dii[c] = "gone" \/ peer[c] = "gone"
    /\ \/ Outstanding("timer", c) = IF dii[c] = "timer" THEN 1 ELSE 0
       \/ dii[c] = "lost" /\ c \in threw /\ Outstanding("timer", c) <= 1

(* disconnect_if_idle uses cs, lastMessageTime and stopped of the frame of  *)
(* handle_client by reference: while it is suspended that frame is alive,   *)
(* unless a submit() that threw at a wait of handle_client destroyed it.    *)
MonitorOutlived ==
  \A c \in Conns :
    dii[c] = "timer" => hc[c] \in {"recv", "send", "await"} \/ (hc[c] = "gone" /\ c \in threw)

(* The kernel reuses descriptors at once.  No receive or send is ever       *)
(* started on the connection of another client.                             *)
OwnConnection == \A o \in ops : o.file \in {o.conn, NoFile}

(* Every open descriptor is held by exactly one socket_t, or is still on    *)
(* its way in an accept completion: none leaks, none is closed twice.       *)
Holders(x) ==
  {c \in Conns : fd[c] = x} \cup {cq[i].conn : i \in {j \in DOMAIN cq : cq[j].kind = "accept" /\ cq[j].res = x}}

DescriptorsHeldOnce ==
  \A x \in Fds : Holders(x) = IF file[x] = NoFile THEN {} ELSE {file[x]}

(* As long as no accept failed, a server that is up is listening: a         *)
(* multishot accept is armed, or a completion of one is queued, whose       *)
(* handler is to arm the next one.                                          *)
Listening == armed > 0 \/ \E cqe \in Range(cq) : cqe.kind = "accept"
ListensUnlessFailed == server = "up" /\ fails = 0 => Listening

(* As long as the server keeps up, no connection stays open for longer than *)
(* Limit + Period seconds after its last message, but for those whose own   *)
(* monitor or close() met a submit() that threw.                            *)
IdleBound ==
  prompt /\ ~aborted =>
    \A c \in Conns \ threw : fd[c] # NoFd => age[c] <= Limit + Period

(* Unless a submit() for it throws or the program aborts, every connection  *)
(* is closed some time after its peer stopped sending (a peer sends at most *)
(* MaxBytes), be it still there or gone, and even if its handle_client will *)
(* never run again.                                                         *)
EveryConnectionClosed ==
  \A c \in Conns : (accepted >= c) ~> (Closed(c) \/ c \in threw \/ aborted)

(* Each peer gets what EchoService promises.                                *)
Number(c, b) == IF b[1] = c THEN b[2] ELSE 0
Service == INSTANCE EchoService WITH
  Clients <- Conns,
  echoed  <- [c \in Conns |-> [i \in DOMAIN echoed[c] |-> Number(c, echoed[c][i])]]
ImplementsService == Service!Spec

(* What handle_client is written for: a send that fails is reported to it.  *)
FailedSendReported ==
  \A c \in Conns : hc[c] = "send" => Outstanding("send", c) = 1

(* What an accepting coroutine is written for: an accept that fails is      *)
(* reported to it, and it can accept again.                                 *)
AlwaysListening == server = "up" => Listening
=============================================================================
