----------------------------- MODULE NetworkTest -----------------------------
(***************************************************************************)
(* The network test (iouring-cpp/tests/iouring_test_network.cpp): a server *)
(* that accepts one connection and echoes, and the echo client (the same   *)
(* code as iouring-cpp/examples/echo_client), on one ring and one thread.  *)
(* test_run_server_and_client has called both and is suspended at          *)
(* co_await c, which never returns (see Tasks); so are run_server and      *)
(* run_client once they await handle_client and handle_server.             *)
(*                                                                         *)
(* As in EchoServer one step is a handler with the coroutine code that it  *)
(* resumes, and the handlers are called in the order of cq.  The bytes of  *)
(* the client are numbered as it sends them.  Somebody else may connect as *)
(* well, once the client is accepted: run_server awaits handle_client then,*)
(* but its multishot accept is still armed, on an event that is gone.      *)
(***************************************************************************)
EXTENDS Integers, Sequences, FiniteSets, SequencesExt

CONSTANTS
  Words,    \* the words the client has to send (5)
  WordLen,  \* bytes of the first word
  MaxFails  \* bound: operations that end with an error of their own

ASSUME NetworkTestAssumption ==
  /\ Words \in Nat \ {0}
  /\ WordLen \in Nat \ {0}
  /\ MaxFails \in Nat

Sides == {"client", "server"}
Other(side) == IF side = "client" THEN "server" ELSE "client"

VARIABLES
  run_server,    \* the wait it is suspended at: "accept" or "await"; or "gone"
  handle_client, \* "none", "recv", "send" or "gone"
  run_client,    \* "connect", "await" or "gone"
  handle_server, \* "none", "send", "recv" or "gone"
  link,          \* the connection: "none", "backlog" or "accepted"
  open,          \* the ends of it that have an open descriptor
  wire,          \* per side, the bytes on their way to it
  buffer,        \* what handle_client received last
  stray,         \* another connection: "none", "backlog", "accepted" or "leaked"
  aborted,       \* the program was ended by a use of memory that is gone
  armed,         \* the multishot accept is armed
  ops,           \* the other operations the kernel works on
  cq,            \* completions whose handler was not called yet
  sent,          \* bytes the client sent
  got,           \* bytes the client received
  cut,           \* history: a send to the client was short
  words,         \* history: words the client began to send
  fails          \* history: operations that ended with an error of their own

tasks == <<run_server, handle_client, run_client, handle_server>>
net == <<link, stray, wire, buffer, sent, got, cut>>
vars == <<tasks, net, aborted, open, armed, ops, cq, words, fails>>

Op(kind, side) == [kind |-> kind, side |-> side]
Cqe(op, res) == [op |-> op, res |-> res]

Init ==
  /\ run_server = "accept" /\ handle_client = "none"
  /\ run_client = "connect" /\ handle_server = "none"
  /\ link = "none" /\ stray = "none"
  /\ aborted = FALSE
  /\ open = {"client"}
  /\ wire = [side \in Sides |-> <<>>]
  /\ buffer = <<>>
  /\ armed = TRUE
  /\ ops = {Op("connect", "client")}
  /\ cq = <<>>
  /\ sent = 0
  /\ got = <<>> /\ cut = {}
  /\ words = 0
  /\ fails = 0

-----------------------------------------------------------------------------
(* The kernel.                                                              *)

Post(op, res) == cq' = Append(cq, Cqe(op, res))

KernelConnects(o) ==
  /\ o.kind = "connect"
  /\ link' = "backlog"
  /\ Post(o, 0)
  /\ ops' = ops \ {o}
  /\ UNCHANGED <<tasks, stray, wire, buffer, sent, got, cut, open, armed, words, fails, aborted>>

KernelAccepts ==
  /\ armed /\ link = "backlog"
  /\ link' = "accepted"
  /\ open' = open \cup {"server"}
  /\ Post(Op("accept", "server"), 1)
  /\ UNCHANGED <<tasks, stray, wire, buffer, sent, got, cut, armed, ops, words, fails, aborted>>

StrayArrives ==
  /\ link = "accepted" /\ run_server # "gone"
  /\ stray = "none"
  /\ stray' = "backlog"
  /\ UNCHANGED <<tasks, link, wire, buffer, sent, got, cut, open, armed, ops, cq, words, fails, aborted>>

KernelAcceptsStray ==
  /\ armed /\ stray = "backlog"
  /\ stray' = "accepted"
  /\ Post(Op("accept", "server"), 2)
  /\ UNCHANGED <<tasks, link, wire, buffer, sent, got, cut, open, armed, ops, words, fails, aborted>>

KernelAcceptFails ==
  /\ armed /\ fails < MaxFails
  /\ armed' = FALSE
  /\ fails' = fails + 1
  /\ Post(Op("accept", "server"), -1)
  /\ UNCHANGED <<tasks, net, open, ops, words, aborted>>

(* What a side sends: the first word, or what the server received.          *)
(* Variant: the word with its terminating null.                             *)
OutgoingWithNull(side) ==
  IF side = "client" THEN [i \in 1 .. WordLen + 1 |-> i] ELSE buffer

Outgoing(side) ==
  IF side = "client" THEN [i \in 1 .. WordLen |-> i] ELSE buffer

(* The send may be short.                                                   *)
KernelSends(o) ==
  /\ o.kind = "send"
  /\ \E k \in 1 .. Len(Outgoing(o.side)) :
       /\ wire' = [wire EXCEPT ![Other(o.side)] = @ \o SubSeq(Outgoing(o.side), 1, k)]
       /\ sent' = IF o.side = "client" THEN sent + k ELSE sent
       /\ cut' = IF o.side = "server" /\ k < Len(buffer) THEN {"client"} ELSE cut
       /\ Post(o, k)
  /\ ops' = ops \ {o}
  /\ UNCHANGED <<tasks, link, stray, buffer, got, open, armed, words, fails, aborted>>

KernelReceives(o) ==
  /\ o.kind = "recv"
  /\ \E k \in 1 .. Len(wire[o.side]) :
       LET data == SubSeq(wire[o.side], 1, k) IN
       /\ wire' = [wire EXCEPT ![o.side] = SubSeq(@, k + 1, Len(@))]
       /\ buffer' = IF o.side = "server" THEN data ELSE buffer
       /\ got' = IF o.side = "client" THEN got \o data ELSE got
       /\ Post(o, k)
  /\ ops' = ops \ {o}
  /\ UNCHANGED <<tasks, link, stray, sent, cut, open, armed, words, fails, aborted>>

(* End of file: the other end was closed and nothing is left to receive.    *)
KernelEnds(o) ==
  /\ o.kind = "recv"
  /\ link = "accepted" /\ Other(o.side) \notin open
  /\ wire[o.side] = <<>>
  /\ Post(o, 0)
  /\ ops' = ops \ {o}
  /\ UNCHANGED <<tasks, net, open, armed, words, fails, aborted>>

(* A connection refused or reset, or an operation the kernel cannot do.     *)
KernelFails(o) ==
  /\ fails < MaxFails
  /\ fails' = fails + 1
  /\ Post(o, -1)
  /\ ops' = ops \ {o}
  /\ UNCHANGED <<tasks, net, open, armed, words, aborted>>

-----------------------------------------------------------------------------
(* The handlers, each with the coroutine code it resumes.                   *)

Handles(kind, side, cqe) ==
  /\ cq # <<>>
  /\ cqe = Head(cq)
  /\ cqe.op = Op(kind, side)
  /\ cq' = Tail(cq)

(* on_connect always resumes run_client, which calls and awaits             *)
(* handle_server, or ends and closes its socket.  Variant: it forgets to.   *)
EndClientKeeping == UNCHANGED open
EndClient == open' = open \ {"client"}

OnConnect(cqe) ==
  /\ Handles("connect", "client", cqe)
  /\ \/ /\ cqe.res = 0
        /\ run_client' = "await"
        /\ handle_server' = "send"
        /\ words' = 1
        /\ ops' = ops \cup {Op("send", "client")}
        /\ UNCHANGED open
     \/ /\ cqe.res # 0
        /\ run_client' = "gone"
        /\ EndClient
        /\ UNCHANGED <<handle_server, words, ops>>
  /\ UNCHANGED <<run_server, handle_client, net, armed, fails, aborted>>

(* on_send resumes a coroutine only if something was sent; it does not      *)
(* look at how much.                                                        *)
OnClientSend(cqe) ==
  /\ Handles("send", "client", cqe)
  /\ \/ /\ cqe.res > 0
        /\ handle_server' = "recv"
        /\ ops' = ops \cup {Op("recv", "client")}
     \/ /\ cqe.res <= 0
        /\ UNCHANGED <<handle_server, ops>>
  /\ UNCHANGED <<run_server, handle_client, run_client, net, open, armed, words, fails, aborted>>

(* Whatever on_recv brings, the line that logs it has a placeholder without *)
(* an argument and throws std::format_error: handle_server ends, and its    *)
(* socket is closed with its frame.                                         *)
OnClientRecv(cqe) ==
  /\ Handles("recv", "client", cqe)
  /\ handle_server' = "gone"
  /\ EndClient
  /\ UNCHANGED <<run_server, handle_client, run_client, net, armed, ops, words, fails, aborted>>

(* run_server calls and awaits handle_client.  An error resumes nobody.     *)
OnAccept(cqe) ==
  /\ Handles("accept", "server", cqe)
  /\ run_server = "accept"
  /\ \/ /\ cqe.res > 0
        /\ run_server' = "await"
        /\ handle_client' = "recv"
        /\ ops' = ops \cup {Op("recv", "server")}
     \/ /\ cqe.res <= 0
        /\ UNCHANGED <<run_server, handle_client, ops>>
  /\ UNCHANGED <<run_client, handle_server, net, open, armed, words, fails, aborted>>

(* After that the event lies in a temporary of run_server, or in its frame, *)
(* that is gone.  The handler is called through that memory: the program    *)
(* may abort.  If it is still as it was, an error does nothing, and a       *)
(* connection resumes run_server at its wait for handle_client: it ends and *)
(* closes the listening socket, which cancels the accept.  The descriptor   *)
(* lies in the old event and is never closed.                               *)
OnStaleAccept(cqe) ==
  /\ cq # <<>> /\ cqe = Head(cq)
  /\ cqe.op = Op("accept", "server")
  /\ run_server # "accept"
  /\ \/ /\ aborted' = TRUE
        /\ cq' = Tail(cq)
        /\ UNCHANGED <<run_server, stray, armed>>
     \/ /\ cqe.res <= 0
        /\ cq' = Tail(cq)
        /\ UNCHANGED <<run_server, stray, armed, aborted>>
     \/ /\ cqe.res > 0
        /\ run_server' = "gone"
        /\ stray' = "leaked"
        /\ armed' = FALSE
        /\ cq' = IF armed THEN Append(Tail(cq), Cqe(cqe.op, -1)) ELSE Tail(cq)
        /\ UNCHANGED aborted
  /\ UNCHANGED <<handle_client, run_client, handle_server, link, wire, buffer, sent, got, cut,
                 open, ops, words, fails>>

(* Variants: an end of file resumes nobody, as in on_send; the next receive *)
(* is started along with the send.                                          *)
OnServerRecvData(cqe) ==
  /\ Handles("recv", "server", cqe)
  /\ \/ /\ cqe.res > 0
        /\ handle_client' = "send"
        /\ ops' = ops \cup {Op("send", "server")}
     \/ /\ cqe.res <= 0
        /\ UNCHANGED <<handle_client, ops>>
  /\ UNCHANGED <<run_server, run_client, handle_server, net, open, armed, words, fails, aborted>>

OnServerRecvBoth(cqe) ==
  /\ Handles("recv", "server", cqe)
  /\ cqe.res > 0
  /\ handle_client' = "send"
  /\ ops' = ops \cup {Op("send", "server"), Op("recv", "server")}
  /\ UNCHANGED <<run_server, run_client, handle_server, net, open, armed, words, fails, aborted>>

(* handle_client sends back what it received, or ends with its socket.      *)
OnServerRecv(cqe) ==
  /\ Handles("recv", "server", cqe)
  /\ \/ /\ cqe.res > 0
        /\ handle_client' = "send"
        /\ ops' = ops \cup {Op("send", "server")}
        /\ UNCHANGED open
     \/ /\ cqe.res <= 0
        /\ handle_client' = "gone"
        /\ open' = open \ {"server"}
        /\ UNCHANGED ops
  /\ UNCHANGED <<run_server, run_client, handle_server, net, armed, words, fails, aborted>>

(* Variant: a short send is repeated from the start.                        *)
OnServerSendRepeated(cqe) ==
  /\ Handles("send", "server", cqe)
  /\ cqe.res > 0
  /\ IF cqe.res < Len(buffer)
     THEN /\ ops' = ops \cup {Op("send", "server")}
          /\ UNCHANGED handle_client
     ELSE /\ ops' = ops \cup {Op("recv", "server")}
          /\ handle_client' = "recv"
  /\ UNCHANGED <<run_server, run_client, handle_server, net, open, armed, words, fails, aborted>>

OnServerSend(cqe) ==
  /\ Handles("send", "server", cqe)
  /\ \/ /\ cqe.res > 0
        /\ handle_client' = "recv"
        /\ ops' = ops \cup {Op("recv", "server")}
     \/ /\ cqe.res <= 0
        /\ UNCHANGED <<handle_client, ops>>
  /\ UNCHANGED <<run_server, run_client, handle_server, net, open, armed, words, fails, aborted>>

-----------------------------------------------------------------------------
Completes(side) ==
  ~aborted /\ \E o \in ops :
    o.side = side /\ (KernelConnects(o) \/ KernelSends(o) \/ KernelReceives(o) \/ KernelEnds(o))

Kernel ==
  \/ \E side \in Sides : Completes(side)
  \/ KernelAccepts
  \/ StrayArrives
  \/ KernelAcceptsStray
  \/ KernelAcceptFails
  \/ \E o \in ops : KernelFails(o)

Dispatch ==
  \E cqe \in ToSet(cq) :
    \/ OnConnect(cqe) \/ OnClientSend(cqe) \/ OnClientRecv(cqe)
    \/ OnAccept(cqe) \/ OnStaleAccept(cqe) \/ OnServerRecv(cqe) \/ OnServerSend(cqe)

Next == ~aborted /\ (Kernel \/ Dispatch)

Spec == Init /\ [][Next]_vars

(* run(stopped) dispatches until it is stopped, which never happens, and    *)
(* the kernel finishes what can finish.                                     *)
FairSpec ==
  /\ Spec
  /\ WF_vars(~aborted /\ Dispatch) /\ WF_vars(~aborted /\ KernelAccepts)
  /\ \A side \in Sides : WF_vars(Completes(side))

-----------------------------------------------------------------------------
Ops == [kind : {"connect", "accept", "send", "recv"}, side : Sides]

TypeOK ==
  /\ run_server \in {"accept", "await", "gone"}
  /\ handle_client \in {"none", "recv", "send", "gone"}
  /\ run_client \in {"connect", "await", "gone"}
  /\ handle_server \in {"none", "send", "recv", "gone"}
  /\ link \in {"none", "backlog", "accepted"}
  /\ stray \in {"none", "backlog", "accepted", "leaked"}
  /\ aborted \in BOOLEAN
  /\ cut \subseteq {"client"}
  /\ open \subseteq Sides
  /\ \A side \in Sides : wire[side] \in Seq(1 .. WordLen)
  /\ buffer \in Seq(1 .. WordLen)
  /\ armed \in BOOLEAN
  /\ ops \subseteq Ops
  /\ \A i \in DOMAIN cq : cq[i].op \in Ops /\ cq[i].res \in -1 .. WordLen + 1
  /\ sent \in 0 .. WordLen
  /\ got \in Seq(1 .. WordLen)
  /\ words \in 0 .. Words
  /\ fails \in 0 .. MaxFails

(* What the kernel or the queue holds of operations of one end.             *)
Outstanding(kind, side) ==
  Cardinality({o \in ops : o = Op(kind, side)})
  + Cardinality({i \in DOMAIN cq : cq[i].op = Op(kind, side)})

(* Whatever the kernel or the queue holds of a connect, a send or a receive *)
(* belongs to the wait at which its coroutine is suspended, and is the only *)
(* such thing; none is outstanding for a coroutine that ended and whose     *)
(* frame is gone.  And no coroutine is forgotten at such a wait, but for    *)
(* one that is not told of a send that failed.  The multishot accept is     *)
(* left out because the program breaks this for it: after the first         *)
(* connection it stays armed on an event that is gone (OnStaleAccept).      *)
OneShotsHaveTheirFrame ==
  /\ Outstanding("recv", "client") = IF handle_server = "recv" THEN 1 ELSE 0
  /\ Outstanding("recv", "server") = IF handle_client = "recv" THEN 1 ELSE 0
  /\ Outstanding("send", "client") <= IF handle_server = "send" THEN 1 ELSE 0
  /\ Outstanding("send", "server") <= IF handle_client = "send" THEN 1 ELSE 0
  /\ fails = 0 => /\ handle_server = "send" => Outstanding("send", "client") = 1
                  /\ handle_client = "send" => Outstanding("send", "server") = 1
  /\ Outstanding("connect", "client") = IF run_client = "connect" THEN 1 ELSE 0

(* The sockets move from coroutine to coroutine; an end of the connection   *)
(* is open exactly as long as the coroutine that owns it is there, or its   *)
(* accept completion is queued.  The accept is armed, if it did not fail,   *)
(* exactly as long as run_server has the listening socket.                  *)
OpenWhileOwned ==
  /\ "client" \in open <=> run_client = "connect" \/ handle_server \in {"send", "recv"}
  /\ "server" \in open <=> \/ handle_client \in {"recv", "send"}
                           \/ \E i \in DOMAIN cq : cq[i] = Cqe(Op("accept", "server"), 1)
  /\ armed => run_server # "gone"
  /\ fails = 0 => armed \/ run_server = "gone"

(* The server goes when the client has gone, unless it is stuck at a send   *)
(* whose failure it was not told of, and although run_server may have ended *)
(* early because of another connection.                                     *)
ServerFollows ==
  (handle_server = "gone" /\ handle_client # "none")
    ~> (handle_client = "gone" \/ (handle_client = "send" /\ Outstanding("send", "server") = 0)
        \/ aborted)

(* The client gets what EchoService promises.                               *)
Service == INSTANCE EchoService WITH
  Clients <- {"client"},
  sent    <- [c \in {"client"} |-> sent],
  echoed  <- [c \in {"client"} |-> got]
ImplementsService == Service!Spec

(* A client that met no error has sent all its words.                       *)
EveryWordSent == handle_server = "gone" /\ fails = 0 => words = Words
=============================================================================
