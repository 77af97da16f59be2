-------------------------- MODULE NetworkTestProofs --------------------------
(***************************************************************************)
(* Proofs about NetworkTest, for any number and length of words and any    *)
(* number of failures: the waits of the four coroutines, the two ends of   *)
(* the connection, and that the client gets what EchoService promises.     *)
(***************************************************************************)
EXTENDS NetworkTest, FiniteSetTheorems, SequenceTheorems, TLAPS

Queue == Range(cq)
Cqes == [op : Ops, res : -1 .. WordLen + 1]
AcceptOp == Op("accept", "server")
First == Cqe(AcceptOp, 1)
ConnectOp == Op("connect", "client")

(* In the queue there is one completion of an operation, except of the      *)
(* multishot accept, whose first connection comes before any other.         *)
Alone(s) ==
  \A i, j \in DOMAIN s : s[i].op # AcceptOp /\ s[i].op = s[j].op => i = j
FirstLeads(s) ==
  \A i, j \in DOMAIN s : s[i] = First /\ s[j].op = AcceptOp /\ s[j].res > 0 => i <= j
InQueue == cq \in Seq(Cqes) /\ Alone(cq) /\ FirstLeads(cq)

(* An operation belongs to the wait of a coroutine.                         *)
AwaitedBy(op) ==
  \/ op = ConnectOp /\ run_client = "connect"
  \/ op.side = "client" /\ op.kind \in {"send", "recv"} /\ handle_server = op.kind
  \/ op.side = "server" /\ op.kind \in {"send", "recv"} /\ handle_client = op.kind

Suspended ==
  /\ \A o \in ops : AwaitedBy(o)
  /\ \A q \in Queue : q.op # AcceptOp => AwaitedBy(q.op) /\ q.op \notin ops
  /\ run_client = "connect" => ConnectOp \in ops \/ \E q \in Queue : q.op = ConnectOp

(* Who called whom.                                                         *)
Callers ==
  /\ run_client = "await" <=> handle_server # "none"
  /\ run_server = "accept" <=> handle_client = "none"

(* The connection of the client was accepted if its completion is queued or *)
(* resumed run_server; another one comes later.                             *)
Accepts ==
  /\ ConnectOp \in ops => link = "none"
  /\ stray # "none" => link = "accepted"
  /\ link = "accepted" <=> run_server # "accept" \/ First \in Queue
  /\ First \in Queue => run_server = "accept"
  /\ \A q \in Queue : q.op = AcceptOp => q.res \in {-1, 1, 2} /\ (q.res = 2 => stray # "none")

(* What handle_client received and did not send yet, and how many bytes the *)
(* server is done with.                                                     *)
Done(kind) == \E q \in Queue : q.op = Op(kind, "server") /\ q.res > 0
Pending == Done("recv") \/ (handle_client = "send" /\ ~Done("send"))
Unsent == IF Pending THEN Len(buffer) ELSE 0
Behind == sent - Len(wire["server"]) - Unsent

(* What the client got or will get of what was sent to it.                  *)
Passed == got \o wire["client"]

Contiguous(s, n) == \A i \in 1 .. Len(s) : s[i] = n + i
InOrder(s, n) ==
  /\ \A i \in 1 .. Len(s) : s[i] <= n
  /\ \A i, j \in 1 .. Len(s) : i < j => s[i] < s[j]

(* Each byte the client sent is on the wire, in the buffer or behind, in    *)
(* the order it was sent; and none is lost before a short send.             *)
Bytes == 1 .. WordLen
Data ==
  /\ sent \in 0 .. WordLen /\ wire \in [Sides -> Seq(Bytes)]
  /\ buffer \in Seq(Bytes) /\ got \in Seq(Bytes) /\ cut \subseteq {"client"}
  /\ Len(buffer) <= WordLen
  /\ Len(Passed) <= Behind
  /\ Contiguous(wire["server"], sent - Len(wire["server"]))
  /\ Pending => Contiguous(buffer, Behind)
  /\ InOrder(Passed, Behind)
  /\ cut = {} => Contiguous(Passed, 0) /\ Len(Passed) = Behind

(* The client sends once.                                                   *)
FirstSend == handle_server = "none" \/ Op("send", "client") \in ops => sent = 0

(* What OpenWhileOwned and TypeOK say, in these terms.                      *)
Owned ==
  /\ "client" \in open <=> run_client = "connect" \/ handle_server \in {"send", "recv"}
  /\ "server" \in open <=> handle_client \in {"recv", "send"} \/ First \in Queue
  /\ armed => run_server # "gone"
  /\ fails = 0 => armed \/ run_server = "gone"

Control ==
  /\ run_server \in {"accept", "await", "gone"}
  /\ handle_client \in {"none", "recv", "send", "gone"}
  /\ run_client \in {"connect", "await", "gone"}
  /\ handle_server \in {"none", "send", "recv", "gone"}
  /\ link \in {"none", "backlog", "accepted"}
  /\ stray \in {"none", "backlog", "accepted", "leaked"}
  /\ aborted \in BOOLEAN /\ armed \in BOOLEAN
  /\ open \subseteq Sides /\ ops \subseteq Ops
  /\ words \in 0 .. Words /\ fails \in 0 .. MaxFails

(* All but what is about the bytes.                                         *)
Waits ==
  /\ Control
  /\ InQueue
  /\ Suspended
  /\ Callers
  /\ Accepts
  /\ Owned

IInv == Waits /\ FirstSend /\ Data

-----------------------------------------------------------------------------
(* The queue.                                                               *)

(* Posting adds one completion at the end of the queue.                     *)
LEMMA Posting ==
  ASSUME NEW s \in Seq(Cqes), Alone(s), FirstLeads(s), NEW q \in Cqes,
         q.op # AcceptOp => \A p \in Range(s) : p.op # q.op,
         q = First => \A p \in Range(s) : ~(p.op = AcceptOp /\ p.res > 0)
  PROVE  /\ Append(s, q) \in Seq(Cqes)
         /\ Range(Append(s, q)) = Range(s) \cup {q}
         /\ Alone(Append(s, q)) /\ FirstLeads(Append(s, q))
<1> DEFINE t == Append(s, q)
<1>1. /\ t \in Seq(Cqes) /\ Len(t) = Len(s) + 1 /\ Len(s) \in Nat
      /\ DOMAIN s = 1 .. Len(s) /\ DOMAIN t = 1 .. Len(s) + 1
      /\ t[Len(s) + 1] = q
      /\ \A i \in 1 .. Len(s) : t[i] = s[i]
  OBVIOUS
<1> HIDE DEF t
<1>2. \A i \in 1 .. Len(s) + 1 : i \in 1 .. Len(s) \/ i = Len(s) + 1
  BY <1>1
<1>3. Range(t) = Range(s) \cup {q}
  BY <1>1, <1>2 DEF Range
<1>4. \A i \in 1 .. Len(s) : s[i] \in Range(s)
  BY <1>1 DEF Range
<1>5. Alone(t)
  <2> SUFFICES ASSUME NEW i \in 1 .. Len(s) + 1, NEW j \in 1 .. Len(s) + 1,
                      t[i].op # AcceptOp, t[i].op = t[j].op
               PROVE  i = j
    BY <1>1 DEF Alone
  <2> QED BY <1>1, <1>2, <1>4 DEF Alone
<1>6. FirstLeads(t)
  <2> SUFFICES ASSUME NEW i \in 1 .. Len(s) + 1, NEW j \in 1 .. Len(s) + 1,
                      t[i] = First, t[j].op = AcceptOp, t[j].res > 0
               PROVE  i <= j
    BY <1>1 DEF FirstLeads
  <2>1. CASE i \in 1 .. Len(s) /\ j \in 1 .. Len(s)
    BY <1>1, <2>1 DEF FirstLeads
  <2>2. CASE i \in 1 .. Len(s) /\ j = Len(s) + 1
    BY <1>1, <2>2
  <2>3. CASE i = Len(s) + 1 /\ j \in 1 .. Len(s)
    BY <1>1, <1>4, <2>3
  <2> QED BY <1>1, <1>2, <2>1, <2>2, <2>3
<1> QED BY <1>1, <1>3, <1>5, <1>6 DEF t

(* Handling takes the first completion out.  No other of its operation is   *)
(* left, and after a connection was handled the first one is not.           *)
LEMMA Taking ==
  ASSUME NEW s \in Seq(Cqes), s # <<>>, Alone(s), FirstLeads(s)
  PROVE  /\ Tail(s) \in Seq(Cqes) /\ Head(s) \in Cqes
         /\ Range(s) = Range(Tail(s)) \cup {Head(s)}
         /\ Alone(Tail(s)) /\ FirstLeads(Tail(s))
         /\ Head(s).op # AcceptOp => \A p \in Range(Tail(s)) : p.op # Head(s).op
         /\ Head(s).op = AcceptOp /\ Head(s).res > 0 => First \notin Range(Tail(s))
<1> DEFINE t == Tail(s)
<1>1. /\ t \in Seq(Cqes) /\ Head(s) \in Cqes /\ Head(s) = s[1]
      /\ Len(s) \in Nat \ {0} /\ Len(t) = Len(s) - 1
      /\ DOMAIN s = 1 .. Len(s) /\ DOMAIN t = 1 .. Len(s) - 1
      /\ \A i \in 1 .. Len(s) - 1 : t[i] = s[i + 1]
  BY HeadTailProperties
<1> HIDE DEF t
<1>2. \A i \in 1 .. Len(s) : i = 1 \/ (i - 1 \in 1 .. Len(s) - 1 /\ s[i] = t[i - 1])
  BY <1>1
<1>3. \A i \in 1 .. Len(s) - 1 : i + 1 \in 1 .. Len(s) /\ i + 1 # 1 /\ i + 1 > 1
  BY <1>1
<1>4. 1 \in 1 .. Len(s)
  BY <1>1
<1>5. Range(s) = Range(t) \cup {Head(s)}
  <2>1. ASSUME NEW x \in Range(s) PROVE x \in Range(t) \cup {Head(s)}
    <3>1. PICK i \in 1 .. Len(s) : x = s[i]
      BY <1>1 DEF Range
    <3> QED BY <1>1, <1>2, <3>1 DEF Range
  <2>2. ASSUME NEW x \in Range(t) PROVE x \in Range(s)
    <3>1. PICK i \in 1 .. Len(s) - 1 : x = s[i + 1]
      BY <1>1 DEF Range
    <3> QED BY <1>1, <1>3, <3>1 DEF Range
  <2>3. Head(s) \in Range(s)
    BY <1>1, <1>4 DEF Range
  <2> QED BY <2>1, <2>2, <2>3
<1>6. Alone(t)
  <2> SUFFICES ASSUME NEW i \in 1 .. Len(s) - 1, NEW j \in 1 .. Len(s) - 1,
                      t[i].op # AcceptOp, t[i].op = t[j].op
               PROVE  i = j
    BY <1>1 DEF Alone
  <2>1. /\ i + 1 \in DOMAIN s /\ s[i + 1] = t[i]
        /\ j + 1 \in DOMAIN s /\ s[j + 1] = t[j]
    BY <1>1, <1>3
  <2>2. i + 1 = j + 1
    BY ONLY <2>1, Alone(s), t[i].op # AcceptOp, t[i].op = t[j].op DEF Alone
  <2> QED BY ONLY <2>2, i \in 1 .. Len(s) - 1, j \in 1 .. Len(s) - 1, Len(s) \in Nat
<1>7. FirstLeads(t)
  <2> SUFFICES ASSUME NEW i \in 1 .. Len(s) - 1, NEW j \in 1 .. Len(s) - 1,
                      t[i] = First, t[j].op = AcceptOp, t[j].res > 0
               PROVE  i <= j
    BY <1>1 DEF FirstLeads
  <2>1. /\ i + 1 \in DOMAIN s /\ s[i + 1] = t[i]
        /\ j + 1 \in DOMAIN s /\ s[j + 1] = t[j]
    BY <1>1, <1>3
  <2>2. i + 1 <= j + 1
    BY ONLY <2>1, FirstLeads(s), t[i] = First, t[j].op = AcceptOp, t[j].res > 0 DEF FirstLeads
  <2> QED BY ONLY <2>2, i \in 1 .. Len(s) - 1, j \in 1 .. Len(s) - 1, Len(s) \in Nat
<1>8. ASSUME Head(s).op # AcceptOp, NEW p \in Range(t)
      PROVE  p.op # Head(s).op
  <2>1. PICK i \in 1 .. Len(s) - 1 : p = s[i + 1]
    BY <1>1 DEF Range
  <2> QED BY <1>1, <1>3, <1>4, <1>8, <2>1 DEF Alone
<1>9. ASSUME Head(s).op = AcceptOp, Head(s).res > 0, First \in Range(t)
      PROVE  FALSE
  <2>1. PICK i \in 1 .. Len(s) - 1 : First = s[i + 1]
    BY <1>1, <1>9 DEF Range
  <2>2. i + 1 <= 1
    BY <1>1, <1>3, <1>4, <1>9, <2>1 DEF FirstLeads
  <2> QED BY <1>3, <2>2
<1> QED BY <1>1, <1>5, <1>6, <1>7, <1>8, <1>9 DEF t

(* A queue of completions is typed as TypeOK says.                          *)
LEMMA QueueTyped ==
  ASSUME NEW s \in Seq(Cqes)
  PROVE  \A i \in DOMAIN s : s[i].op \in Ops /\ s[i].res \in -1 .. WordLen + 1
<1>1. \A i \in DOMAIN s : s[i] \in Cqes
  OBVIOUS
<1>2. \A q \in Cqes : q.op \in Ops /\ q.res \in -1 .. WordLen + 1
  BY DEF Cqes
<1> QED BY <1>1, <1>2

(* The operations are known by their kind and side.                         *)
LEMMA OpFacts ==
  /\ AcceptOp \in Ops /\ ConnectOp \in Ops
  /\ \A kind \in {"connect", "accept", "send", "recv"}, side \in Sides :
       /\ Op(kind, side) \in Ops
       /\ Op(kind, side).kind = kind /\ Op(kind, side).side = side
  /\ \A o \in Ops : o = Op(o.kind, o.side)
  /\ \A op, res : Cqe(op, res).op = op /\ Cqe(op, res).res = res
  /\ \A op \in Ops, res \in -1 .. WordLen + 1 : Cqe(op, res) \in Cqes
  /\ First.op = AcceptOp /\ First.res = 1
  /\ \A q \in Cqes : q = Cqe(q.op, q.res)
<1>1. /\ \A kind \in {"connect", "accept", "send", "recv"}, side \in Sides :
           /\ Op(kind, side) \in Ops
           /\ Op(kind, side).kind = kind /\ Op(kind, side).side = side
  BY DEF Op, Ops
<1>2. AcceptOp \in Ops /\ ConnectOp \in Ops
  BY <1>1 DEF AcceptOp, ConnectOp, Sides
<1>3. \A o \in Ops : o = Op(o.kind, o.side)
  BY DEF Op, Ops
<1>4. \A op, res : Cqe(op, res).op = op /\ Cqe(op, res).res = res
  BY DEF Cqe
<1>5. \A op \in Ops, res \in -1 .. WordLen + 1 : Cqe(op, res) \in Cqes
  BY DEF Cqe, Cqes
<1>6. First.op = AcceptOp /\ First.res = 1
  BY DEF Cqe, First
<1>7. \A q \in Cqes : q = Cqe(q.op, q.res)
  BY DEF Cqe, Cqes
<1> QED BY <1>1, <1>2, <1>3, <1>4, <1>5, <1>6, <1>7

-----------------------------------------------------------------------------
(* The waits.                                                               *)

(* What is taken from the queue was awaited, and nothing else of its kind   *)
(* is there.                                                                *)
LEMMA Handled ==
  ASSUME Waits, NEW q, cq # <<>>, q = Head(cq)
  PROVE  /\ q \in Cqes /\ Queue = Range(Tail(cq)) \cup {q}
         /\ Tail(cq) \in Seq(Cqes) /\ Alone(Tail(cq)) /\ FirstLeads(Tail(cq))
         /\ q.op # AcceptOp =>
              /\ AwaitedBy(q.op) /\ q.op \notin ops
              /\ \A p \in Range(Tail(cq)) : p.op # q.op
         /\ q.op = AcceptOp /\ q.res > 0 => First \notin Range(Tail(cq))
<1>1. /\ q \in Cqes /\ Queue = Range(Tail(cq)) \cup {q}
      /\ Tail(cq) \in Seq(Cqes) /\ Alone(Tail(cq)) /\ FirstLeads(Tail(cq))
      /\ q.op # AcceptOp => \A p \in Range(Tail(cq)) : p.op # q.op
      /\ q.op = AcceptOp /\ q.res > 0 => First \notin Range(Tail(cq))
  BY Taking DEF Waits, InQueue, Queue
<1> QED BY <1>1 DEF Waits, Suspended

(* An operation the kernel works on becomes a completion of it.             *)
LEMMA Completed ==
  ASSUME Waits, NEW o \in ops, NEW res \in -1 .. WordLen + 1, Post(o, res),
         ops' = ops \ {o}, fails' \in 0 .. MaxFails, fails' = 0 => fails = 0,
         UNCHANGED <<tasks, stray, open, armed, words, aborted>>,
         link' = link \/ (o = ConnectOp /\ link' = "backlog")
  PROVE  /\ Waits'
         /\ Queue' = Queue \cup {Cqe(o, res)}
         /\ o \in Ops /\ AwaitedBy(o) /\ o # AcceptOp
         /\ \A q \in Queue : q.op # o
<1> USE DEF tasks
<1>1. o \in Ops /\ AwaitedBy(o) /\ o # AcceptOp
  BY OpFacts DEF Waits, Control, Suspended, AwaitedBy, AcceptOp, ConnectOp, Op
<1>2. \A q \in Queue : q.op # o
  BY <1>1 DEF Waits, Suspended
<1>3. cq' = Append(cq, Cqe(o, res)) /\ Cqe(o, res) \in Cqes /\ Cqe(o, res).op = o
  BY <1>1, OpFacts DEF Post
<1>4. InQueue' /\ Queue' = Queue \cup {Cqe(o, res)}
  BY <1>1, <1>2, <1>3, OpFacts, Posting DEF Waits, InQueue, Queue
<1>5. Control'
  BY DEF Waits, Control
<1>6. First \in Queue' <=> First \in Queue
  BY <1>1, <1>3, <1>4, OpFacts
<1>7. Suspended'
  <2>1. \A op : AwaitedBy(op)' <=> AwaitedBy(op)
    BY DEF AwaitedBy
  <2>2. \A p \in ops' : AwaitedBy(p)'
    BY <2>1 DEF Waits, Suspended
  <2>3. \A q \in Queue' : q.op # AcceptOp => AwaitedBy(q.op)' /\ q.op \notin ops'
    BY <1>1, <1>3, <1>4, <2>1 DEF Waits, Suspended
  <2>4. run_client' = "connect" => ConnectOp \in ops' \/ \E q \in Queue' : q.op = ConnectOp
    BY <1>3, <1>4 DEF Waits, Suspended
  <2> QED BY <2>2, <2>3, <2>4 DEF Suspended
<1>8. Callers'
  BY DEF Waits, Callers
<1>9. Accepts'
  <2>1. \A q \in Queue' : q.op = AcceptOp => q \in Queue
    BY <1>1, <1>3, <1>4
  <2>2. o = ConnectOp => link = "none"
    BY DEF Waits, Accepts
  <2>3. ConnectOp \in ops' => link' = "none"
    BY DEF Waits, Accepts
  <2> QED BY <1>6, <2>1, <2>2, <2>3 DEF Waits, Accepts
<1>10. Owned'
  BY <1>6 DEF Waits, Owned
<1> QED BY <1>1, <1>2, <1>4, <1>5, <1>7, <1>8, <1>9, <1>10 DEF Waits

(* A completion of the multishot accept leaves the other waits as they are. *)
LEMMA AcceptPosted ==
  ASSUME Waits, NEW res \in {-1, 1, 2}, Post(AcceptOp, res),
         res = 1 => \A q \in Queue : ~(q.op = AcceptOp /\ q.res > 0),
         UNCHANGED <<tasks, ops, words, aborted>>
  PROVE  /\ InQueue' /\ Queue' = Queue \cup {Cqe(AcceptOp, res)}
         /\ Suspended' /\ Callers'
         /\ Cqe(AcceptOp, res).op = AcceptOp /\ Cqe(AcceptOp, res).res = res
         /\ Cqe(AcceptOp, res) = First <=> res = 1
<1> USE DEF tasks
<1>1. /\ cq' = Append(cq, Cqe(AcceptOp, res)) /\ Cqe(AcceptOp, res) \in Cqes
      /\ Cqe(AcceptOp, res).op = AcceptOp /\ Cqe(AcceptOp, res).res = res
  BY OpFacts, NetworkTestAssumption DEF Post
<1>2. Cqe(AcceptOp, res) = First <=> res = 1
  BY <1>1, OpFacts DEF First
<1>3. InQueue' /\ Queue' = Queue \cup {Cqe(AcceptOp, res)}
  BY <1>1, <1>2, Posting DEF Waits, InQueue, Queue
<1>4. \A op : AwaitedBy(op)' <=> AwaitedBy(op)
  BY DEF AwaitedBy
<1>5. Suspended'
  BY <1>1, <1>3, <1>4 DEF Waits, Suspended
<1>6. Callers'
  BY DEF Waits, Callers
<1> QED BY <1>1, <1>2, <1>3, <1>5, <1>6

(* The connection of the client is accepted, before any other.              *)
LEMMA AcceptsStep == Waits /\ KernelAccepts => Waits' /\ Queue' = Queue \cup {First}
<1> SUFFICES ASSUME Waits, KernelAccepts PROVE Waits' /\ Queue' = Queue \cup {First}
  OBVIOUS
<1> USE DEF tasks
<1>1. /\ link = "backlog" /\ link' = "accepted" /\ open' = open \cup {"server"}
      /\ Post(AcceptOp, 1)
      /\ UNCHANGED <<tasks, stray, armed, ops, words, fails, aborted>>
  BY DEF KernelAccepts, AcceptOp
<1>2. /\ stray = "none" /\ First \notin Queue /\ run_server = "accept"
      /\ handle_client = "none"
      /\ ConnectOp \notin ops
  BY <1>1 DEF Waits, Accepts, Callers
<1>3. \A q \in Queue : q.op = AcceptOp => q.res = -1
  <2>1. \A q \in Queue : q.op = AcceptOp /\ q.res = 1 => q = First
    BY OpFacts DEF Waits, InQueue, Queue, Range, First
  <2> QED BY <1>2, <2>1 DEF Waits, Accepts
<1>4. /\ InQueue' /\ Queue' = Queue \cup {First} /\ Suspended' /\ Callers'
  BY <1>1, <1>3, AcceptPosted
<1>5. Control'
  BY <1>1 DEF Waits, Control, Sides
<1>6. Accepts'
  <2>1. \A q \in Queue' : q.op = AcceptOp => q.res \in {-1, 1, 2} /\ (q.res = 2 => stray' # "none")
    BY <1>3, <1>4, OpFacts
  <2>2. First \in Queue' /\ run_server' = "accept" /\ stray' = "none" /\ ConnectOp \notin ops'
    BY <1>1, <1>2, <1>4
  <2> QED BY <1>1, <2>1, <2>2 DEF Accepts
<1>7. Owned'
  BY <1>1, <1>4 DEF Waits, Owned
<1> QED BY <1>4, <1>5, <1>6, <1>7 DEF Waits

(* Another connection arrives, or is accepted, or the accept fails.         *)
LEMMA StrayStep ==
  Waits /\ (StrayArrives \/ KernelAcceptsStray \/ KernelAcceptFails)
    => Waits' /\ \E res \in {-1, 2} : Queue' \in {Queue, Queue \cup {Cqe(AcceptOp, res)}}
<1> USE DEF tasks, net
<1>1. ASSUME Waits, StrayArrives PROVE Waits' /\ Queue' = Queue
  <2>1. /\ link = "accepted" /\ stray' = "backlog"
        /\ UNCHANGED <<tasks, link, open, armed, ops, cq, words, fails, aborted>>
    BY <1>1 DEF StrayArrives
  <2>2. Queue' = Queue /\ InQueue'
    BY <1>1, <2>1 DEF Queue, Waits, InQueue
  <2>3. Suspended' /\ Callers'
    BY <1>1, <2>1, <2>2 DEF Waits, Suspended, Callers, AwaitedBy
  <2>4. Control' /\ Accepts' /\ Owned'
    BY <1>1, <2>1, <2>2 DEF Waits, Control, Accepts, Owned
  <2> QED BY <2>2, <2>3, <2>4 DEF Waits
<1>2. ASSUME Waits, KernelAcceptsStray
      PROVE  Waits' /\ Queue' = Queue \cup {Cqe(AcceptOp, 2)}
  <2>1. /\ stray' = "accepted" /\ stray = "backlog" /\ Post(AcceptOp, 2)
        /\ UNCHANGED <<tasks, link, open, armed, ops, words, fails, aborted>>
    BY <1>2 DEF KernelAcceptsStray, AcceptOp
  <2>2. /\ InQueue' /\ Queue' = Queue \cup {Cqe(AcceptOp, 2)} /\ Suspended' /\ Callers'
        /\ Cqe(AcceptOp, 2).res = 2 /\ Cqe(AcceptOp, 2) # First
    BY <1>2, <2>1, AcceptPosted
  <2>3. Control' /\ Accepts' /\ Owned'
    BY <1>2, <2>1, <2>2 DEF Waits, Control, Accepts, Owned
  <2> QED BY <2>2, <2>3 DEF Waits
<1>3. ASSUME Waits, KernelAcceptFails
      PROVE  Waits' /\ Queue' = Queue \cup {Cqe(AcceptOp, -1)}
  <2>1. /\ armed' = FALSE /\ fails < MaxFails /\ fails' = fails + 1 /\ Post(AcceptOp, -1)
        /\ UNCHANGED <<tasks, link, stray, open, ops, words, aborted>>
    BY <1>3 DEF KernelAcceptFails, AcceptOp
  <2>2. /\ InQueue' /\ Queue' = Queue \cup {Cqe(AcceptOp, -1)} /\ Suspended' /\ Callers'
        /\ Cqe(AcceptOp, -1).res = -1 /\ Cqe(AcceptOp, -1) # First
    BY <1>3, <2>1, AcceptPosted
  <2>3. fails' \in 0 .. MaxFails /\ fails' # 0
    BY <1>3, <2>1, NetworkTestAssumption DEF Waits, Control
  <2>4. Control'
    <3>1. armed' \in BOOLEAN
      BY <2>1
    <3> QED BY <1>3, <2>1, <2>3, <3>1 DEF Waits, Control
  <2>5. Accepts'
    BY <1>3, <2>1, <2>2 DEF Waits, Accepts
  <2>6. Owned'
    BY <1>3, <2>1, <2>2, <2>3 DEF Waits, Owned
  <2> QED BY <2>2, <2>4, <2>5, <2>6 DEF Waits
<1> QED BY <1>1, <1>2, <1>3

(* run_client starts handle_server, which sends, or ends with its socket.   *)
LEMMA ConnectStep ==
  ASSUME Waits, NEW q, OnConnect(q)
  PROVE  Waits' /\ Queue = Queue' \cup {q} /\ q.op = ConnectOp
<1> USE DEF tasks, net
<1> DEFINE new == Op("send", "client")
<1>1. /\ cq # <<>> /\ q = Head(cq) /\ q.op = ConnectOp /\ cq' = Tail(cq)
      /\ UNCHANGED <<run_server, handle_client, link, stray, armed, fails, aborted>>
      /\ \/ /\ run_client' = "await" /\ handle_server' = "send" /\ words' = 1
            /\ ops' = ops \cup {new} /\ open' = open
         \/ /\ run_client' = "gone" /\ open' = open \ {"client"}
            /\ UNCHANGED <<handle_server, words, ops>>
  BY DEF OnConnect, Handles, EndClient, ConnectOp
<1>2. /\ q \in Cqes /\ Queue = Queue' \cup {q} /\ InQueue'
      /\ AwaitedBy(ConnectOp) /\ ConnectOp \notin ops
      /\ \A p \in Queue' : p.op # ConnectOp
  BY <1>1, Handled DEF ConnectOp, AcceptOp, Op, Queue, InQueue
<1>3. run_client = "connect" /\ handle_server = "none"
  BY <1>2 DEF AwaitedBy, ConnectOp, Op, Waits, Callers
<1>4. \A op : AwaitedBy(op) /\ op # ConnectOp => AwaitedBy(op)' /\ op.side = "server"
  BY <1>1, <1>3 DEF AwaitedBy
<1>5. new.side = "client" /\ new.kind = "send" /\ new # AcceptOp /\ new # ConnectOp /\ new \in Ops
  BY DEF Op, AcceptOp, ConnectOp, Ops, Sides
<1> HIDE DEF new
<1>6. new \in ops' => AwaitedBy(new)'
  <2>1. new \notin ops
    BY <1>2, <1>4, <1>5 DEF Waits, Suspended
  <2>2. new \in ops' => handle_server' = "send"
    BY <1>1, <2>1
  <2> QED BY <1>5, <2>2 DEF AwaitedBy
<1>7. \A p \in Queue' : p.op # AcceptOp => AwaitedBy(p.op) /\ p.op # ConnectOp /\ p.op \notin ops
  BY <1>2 DEF Waits, Suspended
<1>8. Suspended'
  <2>1. \A o \in ops' : AwaitedBy(o)'
    BY <1>1, <1>2, <1>4, <1>6 DEF Waits, Suspended
  <2>2. \A p \in Queue' : p.op # AcceptOp => AwaitedBy(p.op)' /\ p.op \notin ops'
    BY <1>1, <1>4, <1>5, <1>7
  <2>3. run_client' # "connect"
    BY <1>1
  <2> QED BY <2>1, <2>2, <2>3 DEF Suspended
<1>9. Control'
  BY <1>1, <1>5, NetworkTestAssumption DEF Waits, Control
<1>10. Callers'
  BY <1>1, <1>3 DEF Waits, Callers
<1>11. q # First
  BY <1>1, OpFacts DEF ConnectOp, AcceptOp, Op
<1>12. Accepts'
  <2>1. ConnectOp \notin ops'
    BY <1>1, <1>2, <1>5
  <2> QED BY <1>1, <1>2, <1>11, <2>1 DEF Waits, Accepts
<1>13. Owned'
  BY <1>1, <1>2, <1>3, <1>11 DEF Waits, Owned
<1> QED BY <1>1, <1>2, <1>8, <1>9, <1>10, <1>12, <1>13 DEF Waits

(* A completion of a send or a receive resumes the coroutine of its side:   *)
(* it waits for another operation, ends with its socket, or stays.          *)
Resumes(side, kind, q, w) ==
  /\ Handles(kind, side, q)
  /\ IF side = "client" THEN handle_server' = w /\ UNCHANGED handle_client
                        ELSE handle_client' = w /\ UNCHANGED handle_server
  /\ UNCHANGED <<run_server, run_client, link, stray, armed, words, fails, aborted>>
  /\ \/ w \in {"send", "recv"} /\ ops' = ops \cup {Op(w, side)} /\ open' = open
     \/ w = kind /\ ops' = ops /\ open' = open
     \/ w = "gone" /\ ops' = ops /\ open' = open \ {side}

(* The waits of the other coroutines are left as they are.                  *)
LEMMA ResumedStep ==
  ASSUME Waits, NEW side \in Sides, NEW kind \in {"send", "recv"}, NEW q, NEW w,
         Resumes(side, kind, q, w)
  PROVE  /\ Waits' /\ Queue = Queue' \cup {q}
         /\ q.op = Op(kind, side) /\ q \in Cqes
         /\ q.op \notin ops /\ \A p \in Queue' : p.op # q.op
         /\ IF side = "client" THEN handle_server = kind ELSE handle_client = kind
<1> DEFINE new == Op(w, side)
<1>1. /\ cq # <<>> /\ q = Head(cq) /\ q.op = Op(kind, side) /\ cq' = Tail(cq)
      /\ UNCHANGED <<run_server, run_client, link, stray, armed, words, fails, aborted>>
      /\ w \in {"send", "recv", "gone"}
  BY DEF Resumes, Handles
<1>2. /\ Op(kind, side).kind = kind /\ Op(kind, side).side = side /\ Op(kind, side) # AcceptOp
      /\ Op(kind, side) # ConnectOp /\ side \in {"client", "server"}
  BY DEF Op, AcceptOp, ConnectOp, Sides
<1>3. /\ q \in Cqes /\ Queue = Queue' \cup {q} /\ InQueue'
      /\ AwaitedBy(q.op) /\ q.op \notin ops
      /\ \A p \in Queue' : p.op # q.op
  BY <1>1, <1>2, Handled DEF Queue, InQueue
<1>4. IF side = "client" THEN handle_server = kind ELSE handle_client = kind
  BY <1>1, <1>2, <1>3 DEF AwaitedBy
<1>5. \A op \in Ops : AwaitedBy(op) /\ op # q.op => AwaitedBy(op)' /\ ~(op.side = side /\ op.kind \in {"send", "recv"})
  <2> SUFFICES ASSUME NEW op \in Ops, AwaitedBy(op), op # q.op
               PROVE  AwaitedBy(op)' /\ ~(op.side = side /\ op.kind \in {"send", "recv"})
    OBVIOUS
  <2>1. ~(op.side = side /\ op.kind = kind)
    BY <1>1, OpFacts
  <2>2. CASE op = ConnectOp /\ run_client = "connect"
    <3>1. op.kind = "connect"
      BY <2>2 DEF ConnectOp, Op
    <3> QED BY <1>1, <2>2, <3>1 DEF AwaitedBy
  <2>3. CASE op.side = "client" /\ op.kind \in {"send", "recv"} /\ handle_server = op.kind
    BY <1>2, <1>4, <2>1, <2>3 DEF AwaitedBy, Resumes
  <2>4. CASE op.side = "server" /\ op.kind \in {"send", "recv"} /\ handle_client = op.kind
    BY <1>2, <1>4, <2>1, <2>4 DEF AwaitedBy, Resumes
  <2> QED BY <2>2, <2>3, <2>4 DEF AwaitedBy
<1>6. ops' # ops => /\ w \in {"send", "recv"} /\ ops' = ops \cup {new}
                    /\ new \in Ops /\ new.side = side /\ new.kind = w
  BY <1>1, OpFacts DEF Resumes
<1> HIDE DEF new
<1>7. /\ \A o \in ops : o \in Ops /\ AwaitedBy(o) /\ o # q.op
      /\ \A p \in Queue' : p.op # AcceptOp =>
           p.op \in Ops /\ AwaitedBy(p.op) /\ p.op # q.op /\ p.op \notin ops
  <2>1. \A p \in Queue' : p.op \in Ops
    <3>1. \A p \in Queue : p.op \in Ops
      BY QueueTyped DEF Waits, InQueue, Queue, Range
    <3> QED BY <1>3, <3>1
  <2> QED BY <1>3, <2>1 DEF Waits, Suspended, Control
<1>8. Suspended'
  <2>1. \A o \in ops' : AwaitedBy(o)'
    <3>1. ops' # ops => AwaitedBy(new)'
      BY <1>2, <1>6 DEF AwaitedBy, Resumes
    <3> QED BY <1>5, <1>6, <1>7, <3>1
  <2>2. \A p \in Queue' : p.op # AcceptOp => AwaitedBy(p.op)' /\ p.op \notin ops'
    BY <1>5, <1>6, <1>7
  <2>3. run_client' = "connect" => ConnectOp \in ops' \/ \E p \in Queue' : p.op = ConnectOp
    <3>1. ops \subseteq ops'
      BY <1>6
    <3> QED BY <1>1, <1>2, <1>3, <3>1 DEF Waits, Suspended
  <2> QED BY <2>1, <2>2, <2>3 DEF Suspended
<1>9. Control'
  BY <1>1, <1>2, <1>6 DEF Waits, Control, Resumes
<1>10. Callers'
  BY <1>1, <1>2, <1>4 DEF Waits, Callers, Resumes
<1>11. q # First
  BY <1>1, <1>2, OpFacts
<1>12. Accepts'
  <2>1. ConnectOp \in ops' => ConnectOp \in ops
    BY <1>6 DEF ConnectOp, Op
  <2> QED BY <1>1, <1>3, <1>11, <2>1 DEF Waits, Accepts
<1>13. Owned'
  <2>1. side = "client" => run_client # "connect" /\ "client" \in open
    BY <1>2, <1>4 DEF Waits, Callers, Owned
  <2>2. side = "server" => First \notin Queue
    BY <1>2, <1>4 DEF Waits, Callers, Accepts
  <2> QED BY <1>1, <1>2, <1>3, <1>4, <1>11, <2>1, <2>2 DEF Waits, Owned, Resumes
<1> QED BY <1>1, <1>3, <1>4, <1>8, <1>9, <1>10, <1>12, <1>13 DEF Waits

(* The first connection resumes run_server, which starts handle_client.     *)
LEMMA AcceptedStep ==
  ASSUME Waits, NEW q, OnAccept(q)
  PROVE  Waits' /\ Queue = Queue' \cup {q} /\ q.op = AcceptOp /\ handle_client = "none"
<1> USE DEF tasks, net
<1> DEFINE new == Op("recv", "server")
<1>1. /\ cq # <<>> /\ q = Head(cq) /\ q.op = AcceptOp /\ cq' = Tail(cq) /\ run_server = "accept"
      /\ UNCHANGED <<run_client, handle_server, link, stray, open, armed, words, fails, aborted>>
      /\ \/ /\ q.res > 0 /\ run_server' = "await" /\ handle_client' = "recv"
            /\ ops' = ops \cup {new}
         \/ ~(q.res > 0) /\ UNCHANGED <<run_server, handle_client, ops>>
  <2>1. q.op = AcceptOp /\ cq # <<>> /\ q = Head(cq) /\ cq' = Tail(cq)
    BY DEF OnAccept, Handles, AcceptOp
  <2>2. q \in Cqes
    BY <2>1, Handled
  <2>3. q.res <= 0 => ~(q.res > 0)
    BY <2>2, NetworkTestAssumption DEF Cqes
  <2> QED BY <2>1, <2>3 DEF OnAccept
<1>2. /\ q \in Cqes /\ Queue = Queue' \cup {q} /\ InQueue'
      /\ q.res > 0 => First \notin Queue'
  BY <1>1, Handled DEF Queue, InQueue
<1>3. handle_client = "none"
  BY <1>1 DEF Waits, Callers
<1>4. new \in Ops /\ new.side = "server" /\ new.kind = "recv" /\ new # AcceptOp /\ new # ConnectOp
  BY DEF Op, Ops, Sides, AcceptOp, ConnectOp
<1> HIDE DEF new
<1>5. \A op : AwaitedBy(op) => AwaitedBy(op)' /\ op # new
  BY <1>1, <1>3, <1>4 DEF AwaitedBy
<1>6. CASE ~(q.res > 0)
  <2>1. q # First
    BY <1>6, OpFacts
  <2>2. \A op : AwaitedBy(op)' <=> AwaitedBy(op)
    BY <1>1, <1>6 DEF AwaitedBy
  <2>3. Suspended'
    <3>1. \A p \in Queue' : p.op # AcceptOp => AwaitedBy(p.op)' /\ p.op \notin ops'
      BY <1>1, <1>2, <1>6, <2>2 DEF Waits, Suspended
    <3>2. \A o \in ops' : AwaitedBy(o)'
      BY <1>1, <1>6, <2>2 DEF Waits, Suspended
    <3>3. run_client' = "connect" => ConnectOp \in ops' \/ \E p \in Queue' : p.op = ConnectOp
      BY <1>1, <1>2, <1>6 DEF Waits, Suspended, AcceptOp, ConnectOp, Op
    <3> QED BY <3>1, <3>2, <3>3 DEF Suspended
  <2>4. Control' /\ Callers' /\ Accepts' /\ Owned'
    BY <1>1, <1>2, <1>6, <2>1 DEF Waits, Control, Callers, Accepts, Owned
  <2> QED BY <1>1, <1>2, <1>3, <2>3, <2>4 DEF Waits
<1>7. CASE q.res > 0
  <2>1. First \in Queue /\ link = "accepted" /\ First \notin Queue'
    <3>1. q.res \in {1, 2} /\ (q.res = 2 => link = "accepted")
      BY <1>1, <1>2, <1>7 DEF Waits, Accepts
    <3>2. q.res = 1 => q = First
      BY <1>1, <1>2, OpFacts DEF First
    <3> QED BY <1>1, <1>2, <1>7, <3>1, <3>2 DEF Waits, Accepts
  <2>2. Suspended'
    <3>1. \A p \in Queue' : p.op # AcceptOp => AwaitedBy(p.op)' /\ p.op \notin ops'
      BY <1>1, <1>2, <1>5, <1>7 DEF Waits, Suspended
    <3>2. \A o \in ops' : AwaitedBy(o)'
      <4>1. AwaitedBy(new)'
        BY <1>1, <1>4, <1>7 DEF AwaitedBy
      <4> QED BY <1>1, <1>5, <1>7, <4>1 DEF Waits, Suspended
    <3>3. run_client' = "connect" => ConnectOp \in ops' \/ \E p \in Queue' : p.op = ConnectOp
      BY <1>1, <1>2, <1>7 DEF Waits, Suspended, AcceptOp, ConnectOp, Op
    <3> QED BY <3>1, <3>2, <3>3 DEF Suspended
  <2>3. Control' /\ Callers'
    BY <1>1, <1>4, <1>7 DEF Waits, Control, Callers
  <2>4. Accepts'
    BY <1>1, <1>2, <1>4, <1>7, <2>1 DEF Waits, Accepts
  <2>5. Owned'
    BY <1>1, <1>7, <2>1 DEF Waits, Owned
  <2> QED BY <1>1, <1>2, <1>3, <2>2, <2>3, <2>4, <2>5 DEF Waits
<1> QED BY <1>6, <1>7

(* A later one finds the event gone: the program aborts, or nothing happens,*)
(* or run_server ends.                                                      *)
LEMMA StaleStep ==
  ASSUME Waits, NEW q, OnStaleAccept(q)
  PROVE  /\ Waits' /\ q.op = AcceptOp
         /\ Queue \subseteq Queue' \cup {q}
         /\ Queue' \subseteq Queue \cup {Cqe(AcceptOp, -1)}
<1> USE DEF tasks, net
<1> DEFINE last == Cqe(AcceptOp, -1)
<1>1. /\ cq # <<>> /\ q = Head(cq) /\ q.op = AcceptOp /\ run_server # "accept"
      /\ UNCHANGED <<handle_client, run_client, handle_server, link, open, ops, words, fails>>
      /\ run_server' \in {run_server, "gone"}
      /\ cq' = Tail(cq) \/ cq' = Append(Tail(cq), last)
      /\ stray' \in {stray, "leaked"}
      /\ \/ UNCHANGED <<run_server, armed>>
         \/ run_server' = "gone" /\ armed' = FALSE
      /\ armed' \in BOOLEAN /\ aborted' \in BOOLEAN
  <2>0. armed \in BOOLEAN /\ aborted \in BOOLEAN
    BY DEF Waits, Control
  <2>1. /\ cq # <<>> /\ q = Head(cq) /\ q.op = AcceptOp /\ run_server # "accept"
        /\ UNCHANGED <<handle_client, run_client, handle_server, link, open, ops, words, fails>>
    BY DEF OnStaleAccept, AcceptOp
  <2>2. CASE aborted' = TRUE /\ cq' = Tail(cq) /\ UNCHANGED <<run_server, stray, armed>>
    BY <2>0, <2>1, <2>2
  <2>3. CASE cq' = Tail(cq) /\ UNCHANGED <<run_server, stray, armed, aborted>>
    BY <2>0, <2>1, <2>3
  <2>4. CASE /\ q.res > 0 /\ run_server' = "gone" /\ stray' = "leaked" /\ armed' = FALSE
             /\ cq' = (IF armed THEN Append(Tail(cq), Cqe(q.op, -1)) ELSE Tail(cq))
             /\ UNCHANGED aborted
    BY <2>0, <2>1, <2>4
  <2> QED BY <2>2, <2>3, <2>4 DEF OnStaleAccept
<1>2. /\ q \in Cqes /\ Queue = Range(Tail(cq)) \cup {q}
      /\ Tail(cq) \in Seq(Cqes) /\ Alone(Tail(cq)) /\ FirstLeads(Tail(cq))
  BY <1>1, Handled
<1>3. last \in Cqes /\ last.op = AcceptOp /\ last.res = -1 /\ last # First
  <2>1. -1 \in -1 .. WordLen + 1
    BY NetworkTestAssumption
  <2>2. last \in Cqes
    BY <2>1, OpFacts
  <2>3. last.op = AcceptOp /\ last.res = -1
    BY OpFacts
  <2> QED BY <2>2, <2>3, OpFacts
<1> HIDE DEF last
<1>4. First \notin Queue /\ link = "accepted"
  BY <1>1 DEF Waits, Accepts
<1>5. InQueue' /\ (Queue' = Range(Tail(cq)) \/ Queue' = Range(Tail(cq)) \cup {last})
  BY <1>1, <1>2, <1>3, Posting DEF InQueue, Queue
<1>6. Suspended'
  <2>1. \A op : AwaitedBy(op)' <=> AwaitedBy(op)
    BY <1>1 DEF AwaitedBy
  <2>2. \A p \in Queue' : p.op # AcceptOp => AwaitedBy(p.op)' /\ p.op \notin ops'
    BY <1>1, <1>2, <1>3, <1>5, <2>1 DEF Waits, Suspended
  <2>3. \A o \in ops' : AwaitedBy(o)'
    BY <1>1, <2>1 DEF Waits, Suspended
  <2>4. run_client' = "connect" => ConnectOp \in ops' \/ \E p \in Queue' : p.op = ConnectOp
    BY <1>1, <1>2, <1>5 DEF Waits, Suspended, AcceptOp, ConnectOp, Op
  <2> QED BY <2>2, <2>3, <2>4 DEF Suspended
<1>7. Control' /\ Callers'
  <2>1. /\ run_server' \in {"accept", "await", "gone"} /\ run_server' # "accept"
        /\ stray' \in {"none", "backlog", "accepted", "leaked"}
        /\ aborted' \in BOOLEAN /\ armed' \in BOOLEAN
    BY <1>1 DEF Waits, Control
  <2> QED BY <1>1, <2>1 DEF Waits, Control, Callers
<1>8. Accepts'
  <2>1. \A p \in Queue' : p.op = AcceptOp => p.res \in {-1, 1, 2} /\ (p.res = 2 => stray' # "none")
    <3>1. \A p \in Queue : p.op = AcceptOp => p.res \in {-1, 1, 2} /\ (p.res = 2 => stray # "none")
      BY DEF Waits, Accepts
    <3>2. stray # "none" => stray' # "none"
      BY <1>1
    <3> QED BY <1>2, <1>3, <1>5, <3>1, <3>2
  <2>2. First \notin Queue'
    BY <1>2, <1>3, <1>4, <1>5
  <2>3. run_server' # "accept"
    BY <1>1
  <2> QED BY <1>1, <1>4, <2>1, <2>2, <2>3 DEF Waits, Accepts
<1>9. Owned'
  BY <1>1, <1>2, <1>3, <1>4, <1>5 DEF Waits, Owned
<1>10. Queue \subseteq Queue' \cup {q} /\ Queue' \subseteq Queue \cup {last}
  BY <1>2, <1>5
<1> QED BY <1>1, <1>5, <1>6, <1>7, <1>8, <1>9, <1>10 DEF Waits, last

-----------------------------------------------------------------------------
(* The bytes.                                                               *)

(* The two parts of a sequence without gaps.                                *)
LEMMA Parts ==
  ASSUME NEW s \in Seq(Bytes), NEW k \in 1 .. Len(s)
  PROVE  /\ SubSeq(s, 1, k) \in Seq(Bytes) /\ Len(SubSeq(s, 1, k)) = k
         /\ SubSeq(s, k + 1, Len(s)) \in Seq(Bytes)
         /\ Len(SubSeq(s, k + 1, Len(s))) = Len(s) - k
         /\ \A i \in 1 .. k : SubSeq(s, 1, k)[i] = s[i]
         /\ \A i \in 1 .. Len(s) - k : SubSeq(s, k + 1, Len(s))[i] = s[k + i]
         /\ SubSeq(s, 1, k) \o SubSeq(s, k + 1, Len(s)) = s
<1> DEFINE l == Len(s)
<1>1. l \in Nat /\ k \in 1 .. l
  OBVIOUS
<1>2. \A i \in 1 .. l : s[i] \in Bytes
  OBVIOUS
<1> HIDE DEF l
<1>3. /\ SubSeq(s, 1, k) \in Seq(Bytes)
      /\ Len(SubSeq(s, 1, k)) = IF 1 <= k THEN k - 1 + 1 ELSE 0
      /\ \A i \in 1 .. k - 1 + 1 : SubSeq(s, 1, k)[i] = s[1 + i - 1]
  <2>1. \A i \in 1 .. k : s[i] \in Bytes
    BY <1>1, <1>2
  <2> QED BY <1>1, <2>1, SubSeqProperties
<1>4. /\ SubSeq(s, k + 1, l) \in Seq(Bytes)
      /\ Len(SubSeq(s, k + 1, l)) = IF k + 1 <= l THEN l - (k + 1) + 1 ELSE 0
      /\ \A i \in 1 .. l - (k + 1) + 1 : SubSeq(s, k + 1, l)[i] = s[k + 1 + i - 1]
  <2>1. \A i \in k + 1 .. l : s[i] \in Bytes
    BY <1>1, <1>2
  <2>2. k + 1 \in Int /\ l \in Int
    BY <1>1
  <2> QED BY <2>1, <2>2, SubSeqProperties
<1>5. SubSeq(s, 1, k) \o SubSeq(s, k + 1, l) = SubSeq(s, 1, l)
  <2>1. 1 \in 1 .. Len(s) + 1 /\ k \in 1 - 1 .. Len(s) /\ l \in k .. Len(s)
    BY <1>1 DEF l
  <2> QED BY <2>1, ConcatAdjacentSubSeq
<1>6. SubSeq(s, 1, l) = s
  BY SubSeqFull DEF l
<1>7. /\ k - 1 + 1 = k /\ 1 <= k /\ l - (k + 1) + 1 = l - k
      /\ (IF k + 1 <= l THEN l - (k + 1) + 1 ELSE 0) = l - k
      /\ \A i \in 1 .. k : 1 + i - 1 = i
      /\ \A i \in 1 .. l - k : k + 1 + i - 1 = k + i
  BY <1>1
<1>8. \A i \in 1 .. k : SubSeq(s, 1, k)[i] = s[i]
  BY <1>3, <1>7
<1>9. \A i \in 1 .. l - k : SubSeq(s, k + 1, l)[i] = s[k + i]
  BY <1>4, <1>7
<1> QED BY <1>3, <1>4, <1>5, <1>6, <1>7, <1>8, <1>9 DEF l

(* To bytes in order is added the beginning of a block that follows them.   *)
LEMMA Block ==
  ASSUME NEW s \in Seq(Bytes), NEW b \in Seq(Bytes), NEW k \in 1 .. Len(b),
         NEW n \in Nat, Contiguous(b, n), InOrder(s, n)
  PROVE  LET t == s \o SubSeq(b, 1, k) IN
         /\ t \in Seq(Bytes) /\ Len(t) = Len(s) + k
         /\ InOrder(t, n + Len(b))
         /\ Contiguous(s, 0) /\ Len(s) = n => Contiguous(t, 0)
<1> DEFINE p == SubSeq(b, 1, k)
           t == s \o p
<1>1. Len(s) \in Nat /\ Len(b) \in Nat /\ k \in 1 .. Len(b)
  OBVIOUS
<1>2. p \in Seq(Bytes) /\ Len(p) = k /\ \A i \in 1 .. k : p[i] = n + i
  BY <1>1, Parts DEF Contiguous
<1> HIDE DEF p
<1>3. /\ t \in Seq(Bytes) /\ Len(t) = Len(s) + k
      /\ \A i \in 1 .. Len(s) + k : t[i] = IF i <= Len(s) THEN s[i] ELSE p[i - Len(s)]
  BY <1>2, ConcatProperties
<1> HIDE DEF t
<1>4. \A i \in 1 .. Len(s) : t[i] = s[i] /\ t[i] \in Int /\ t[i] <= n
  <2>1. \A i \in 1 .. Len(s) : s[i] \in Int /\ s[i] <= n
    BY NetworkTestAssumption DEF InOrder, Bytes
  <2>2. \A i \in 1 .. Len(s) : t[i] = s[i]
    BY <1>1, <1>3
  <2> QED BY <2>1, <2>2
<1>5. \A i \in 1 .. Len(t) : i \notin 1 .. Len(s) => t[i] = n + (i - Len(s)) /\ i - Len(s) \in 1 .. k
  <2> SUFFICES ASSUME NEW i \in 1 .. Len(t), i \notin 1 .. Len(s)
               PROVE  t[i] = n + (i - Len(s)) /\ i - Len(s) \in 1 .. k
    OBVIOUS
  <2>1. ~(i <= Len(s)) /\ i - Len(s) \in 1 .. k /\ i \in 1 .. Len(s) + k
    BY <1>1, <1>3
  <2> QED BY <1>2, <1>3, <2>1
<1>6. InOrder(t, n + Len(b))
  <2>1. ASSUME NEW i \in 1 .. Len(t)
        PROVE  t[i] <= n + Len(b)
    <3>1. CASE i \in 1 .. Len(s)
      BY <1>1, <1>4, <3>1
    <3>2. CASE i \notin 1 .. Len(s)
      BY <1>1, <1>5, <3>2
    <3> QED BY <3>1, <3>2
  <2>2. ASSUME NEW i \in 1 .. Len(t), NEW j \in 1 .. Len(t), i < j
        PROVE  t[i] < t[j]
    <3>0. i \in Int /\ j \in Int
      BY <1>1, <1>3
    <3>1. CASE j \in 1 .. Len(s)
      <4>1. i \in 1 .. Len(s)
        BY <1>1, <1>3, <2>2, <3>1
      <4> QED BY <1>4, <2>2, <3>1, <4>1 DEF InOrder
    <3>2. CASE j \notin 1 .. Len(s) /\ i \in 1 .. Len(s)
      BY <1>1, <1>4, <1>5, <3>2
    <3>3. CASE j \notin 1 .. Len(s) /\ i \notin 1 .. Len(s)
      <4>1. t[i] = n + (i - Len(s)) /\ t[j] = n + (j - Len(s))
        BY <1>5, <3>3
      <4> QED BY <1>1, <2>2, <3>0, <4>1
    <3> QED BY <3>1, <3>2, <3>3
  <2> QED BY <2>1, <2>2 DEF InOrder
<1>7. ASSUME Contiguous(s, 0), Len(s) = n PROVE Contiguous(t, 0)
  <2> SUFFICES ASSUME NEW i \in 1 .. Len(t) PROVE t[i] = 0 + i
    BY DEF Contiguous
  <2>0. i \in Int
    BY <1>1, <1>3
  <2>1. CASE i \in 1 .. Len(s)
    BY <1>4, <1>7, <2>1 DEF Contiguous
  <2>2. CASE i \notin 1 .. Len(s)
    BY <1>1, <1>5, <1>7, <2>0, <2>2
  <2> QED BY <2>1, <2>2
<1> QED BY <1>3, <1>6, <1>7 DEF t, p

(* Concatenation of bytes is associative.                                   *)
LEMMA Associative ==
  \A s, t, u \in Seq(Bytes) : (s \o t) \o u = s \o (t \o u)
<1> SUFFICES ASSUME NEW S, NEW s \in Seq(S), NEW t \in Seq(S), NEW u \in Seq(S)
             PROVE  (s \o t) \o u = s \o (t \o u)
  OBVIOUS
<1> QED BY ConcatAssociative

(* What is known of the bytes in a state.                                   *)
LEMMA DataFacts ==
  ASSUME Data
  PROVE  /\ wire["client"] \in Seq(Bytes) /\ wire["server"] \in Seq(Bytes)
         /\ Passed \in Seq(Bytes) /\ Len(Passed) \in Nat
         /\ sent \in Nat /\ sent <= WordLen /\ Len(wire["server"]) \in Nat
         /\ Unsent \in Nat /\ Behind \in Nat
         /\ Behind = sent - Len(wire["server"]) - Unsent
         /\ Behind <= sent /\ Len(wire["server"]) <= sent /\ Unsent <= sent
<1>1. /\ wire["client"] \in Seq(Bytes) /\ wire["server"] \in Seq(Bytes)
      /\ buffer \in Seq(Bytes) /\ got \in Seq(Bytes)
  BY DEF Data, Sides
<1>2. Passed \in Seq(Bytes)
  BY <1>1, ConcatProperties DEF Passed
<1>3. /\ Len(Passed) \in Nat /\ Len(wire["server"]) \in Nat /\ Len(buffer) \in Nat
  BY <1>1, <1>2
<1>4. Unsent \in Nat
  BY <1>3 DEF Unsent
<1>5. sent \in Nat /\ sent <= WordLen
  BY NetworkTestAssumption DEF Data
<1>6. Len(Passed) <= Behind /\ Behind = sent - Len(wire["server"]) - Unsent
  BY DEF Data, Behind
<1>7. \A s, l, u, n \in Nat : n <= s - l - u
        => s - l - u \in Nat /\ s - l - u <= s /\ l <= s /\ u <= s
  OBVIOUS
<1>8. Behind \in Nat /\ Behind <= sent /\ Len(wire["server"]) <= sent /\ Unsent <= sent
  <2> DEFINE l == Len(wire["server"])
             n == Len(Passed)
  <2>1. l \in Nat /\ n \in Nat /\ n <= sent - l - Unsent
    BY <1>3, <1>6
  <2> HIDE DEF l, n
  <2>2. sent - l - Unsent \in Nat /\ sent - l - Unsent <= sent /\ l <= sent /\ Unsent <= sent
    BY ONLY <1>4, <1>5, <1>7, <2>1
  <2> QED BY <1>6, <2>2 DEF l
<1> QED BY <1>1, <1>2, <1>3, <1>4, <1>5, <1>6, <1>8

(* A step that moves no bytes and after which what handle_client received   *)
(* is to be sent as before.                                                 *)
LEMMA DataStay ==
  ASSUME Data, UNCHANGED <<sent, wire, buffer, got, cut>>, Pending' <=> Pending
  PROVE  Data'
<1>1. Unsent' = Unsent
  BY DEF Unsent
<1>2. Behind' = Behind /\ Passed' = Passed
  BY <1>1 DEF Behind, Passed
<1> QED BY <1>2 DEF Data, Contiguous, InOrder

(* handle_client is suspended at what is done.                              *)
DoneIsAwaited == \A kind \in {"recv", "send"} : Done(kind) => handle_client = kind

(* It is so because what is queued is awaited.                              *)
LEMMA DoneAwaited == Waits => DoneIsAwaited
<1> SUFFICES ASSUME Waits, NEW kind \in {"recv", "send"}, NEW q \in Queue, q.op = Op(kind, "server")
             PROVE  handle_client = kind
  BY DEF Done, DoneIsAwaited
<1>1. Op(kind, "server").side = "server" /\ Op(kind, "server").kind = kind
  BY DEF Op
<1>2. AwaitedBy(q.op)
  <2>1. q.op # AcceptOp
    BY <1>1, OpFacts DEF AcceptOp, Op
  <2> QED BY <2>1 DEF Waits, Suspended
<1> QED BY <1>1, <1>2 DEF AwaitedBy, ConnectOp, Op

(* The same after a step.                                                   *)
LEMMA DoneAwaitedNext == Waits' => DoneIsAwaited'
BY DoneAwaited, PTL

(* A completion of another side, or that failed or ended, does nothing to   *)
(* what is pending.                                                         *)
LEMMA DoneStays ==
  ASSUME NEW kind, NEW q, Queue' \subseteq Queue \cup {q}, Queue \subseteq Queue' \cup {q},
         q.op # Op(kind, "server") \/ ~(q.res > 0)
  PROVE  Done(kind)' <=> Done(kind)
BY DEF Done

(* The client sends its word, or the beginning of it, when nothing was sent.*)
LEMMA ClientSendsData ==
  ASSUME FirstSend, Data, Op("send", "client") \in ops, NEW k \in 1 .. Len(Outgoing("client")),
         wire' = [wire EXCEPT !["server"] = @ \o SubSeq(Outgoing("client"), 1, k)],
         sent' = sent + k, UNCHANGED <<buffer, got, cut>>, Pending' <=> Pending
  PROVE  Data'
<1> DEFINE out == Outgoing("client")
           p == SubSeq(out, 1, k)
           w == wire["server"] \o p
<1>1. /\ out \in Seq(Bytes) /\ Len(out) = WordLen
      /\ \A i \in 1 .. WordLen : out[i] = i
  BY NetworkTestAssumption DEF Outgoing, Bytes
<1>2. k \in 1 .. WordLen /\ k \in Nat /\ WordLen \in Nat
  BY <1>1, NetworkTestAssumption
<1> HIDE DEF out
<1>3. p \in Seq(Bytes) /\ Len(p) = k /\ \A i \in 1 .. k : p[i] = i
  BY <1>1, <1>2, Parts
<1> HIDE DEF p
<1>4. /\ sent = 0 /\ Len(wire["server"]) = 0 /\ wire["server"] = <<>> /\ Unsent = 0 /\ Behind = 0
  <2>1. sent = 0
    BY DEF FirstSend
  <2>2. Len(wire["server"]) = 0 /\ Unsent = 0 /\ Behind = 0 /\ wire["server"] \in Seq(Bytes)
    BY <2>1, DataFacts
  <2> QED BY <2>1, <2>2
<1>5. w = p
  BY <1>3, <1>4, ConcatEmptySeq
<1> HIDE DEF w
<1>6. wire' = [wire EXCEPT !["server"] = p] /\ sent' = k
  BY <1>2, <1>4, <1>5 DEF w, p, out
<1>7. wire \in [Sides -> Seq(Bytes)]
  BY DEF Data
<1>8. wire' \in [Sides -> Seq(Bytes)] /\ wire'["server"] = p /\ wire'["client"] = wire["client"]
  BY <1>3, <1>6, <1>7 DEF Sides
<1>9. Unsent' = 0
  BY <1>4 DEF Unsent
<1>10. Behind' = 0 /\ Passed' = Passed
  BY <1>2, <1>3, <1>6, <1>8, <1>9 DEF Behind, Passed
<1>11. Contiguous(p, 0)
  BY <1>3 DEF Contiguous
<1>12. /\ Len(Passed) <= Behind' /\ InOrder(Passed, Behind')
       /\ cut = {} => Contiguous(Passed, 0) /\ Len(Passed) = Behind'
       /\ Pending => Contiguous(buffer, Behind')
       /\ buffer \in Seq(Bytes) /\ got \in Seq(Bytes) /\ cut \subseteq {"client"}
       /\ Len(buffer) <= WordLen
  BY <1>4, <1>10 DEF Data
<1>13. sent' - Len(wire'["server"]) = 0 /\ sent' \in 0 .. WordLen
  BY <1>2, <1>3, <1>6, <1>8
<1>14. Contiguous(wire["server"], sent - Len(wire["server"]))'
  BY <1>8, <1>11, <1>13 DEF Contiguous
<1>15. InOrder(Passed, Behind)' /\ (cut = {} => Contiguous(Passed, 0))' /\ (Pending => Contiguous(buffer, Behind))'
  BY <1>10, <1>12 DEF InOrder, Contiguous
<1> QED BY <1>8, <1>10, <1>12, <1>13, <1>14, <1>15 DEF Data

(* The server sends back what it received, or the beginning of it.          *)
LEMMA ServerSendsData ==
  ASSUME Data, Pending, ~Pending', NEW k \in 1 .. Len(buffer),
         wire' = [wire EXCEPT !["client"] = @ \o SubSeq(buffer, 1, k)],
         cut' = IF k < Len(buffer) THEN {"client"} ELSE cut,
         UNCHANGED <<sent, buffer, got>>
  PROVE  Data'
<1> DEFINE p == SubSeq(buffer, 1, k)
<1>1. /\ wire \in [Sides -> Seq(Bytes)] /\ buffer \in Seq(Bytes) /\ got \in Seq(Bytes)
      /\ wire["client"] \in Seq(Bytes) /\ wire["server"] \in Seq(Bytes)
      /\ Len(buffer) \in Nat /\ k \in 1 .. Len(buffer)
  BY DEF Data, Sides
<1>2. p \in Seq(Bytes) /\ Len(p) = k
  BY <1>1, Parts
<1> HIDE DEF p
<1>3. wire' = [wire EXCEPT !["client"] = wire["client"] \o p]
  BY DEF p
<1>4. wire["client"] \o p \in Seq(Bytes)
  BY <1>1, <1>2, ConcatProperties
<1>5. /\ wire' \in [Sides -> Seq(Bytes)]
      /\ wire'["client"] = wire["client"] \o p /\ wire'["server"] = wire["server"]
  BY <1>1, <1>3, <1>4 DEF Sides
<1>6. Passed' = Passed \o p
  <2>1. Passed' = got \o (wire["client"] \o p) /\ Passed = got \o wire["client"]
    BY <1>5 DEF Passed
  <2>2. (got \o wire["client"]) \o p = got \o (wire["client"] \o p)
    <3>1. got \in Seq(Bytes) /\ wire["client"] \in Seq(Bytes)
      BY <1>1
    <3> QED BY ONLY <1>2, <3>1, Associative, Zenon
  <2> QED BY <2>1, <2>2
<1>7. Unsent = Len(buffer) /\ Unsent' = 0
  BY DEF Unsent
<1>8. Behind' = Behind + Len(buffer)
  BY <1>1, <1>5, <1>7, DataFacts DEF Behind
<1>9. /\ Passed' \in Seq(Bytes) /\ Len(Passed') = Len(Passed) + k
      /\ InOrder(Passed', Behind + Len(buffer))
      /\ Contiguous(Passed, 0) /\ Len(Passed) = Behind => Contiguous(Passed', 0)
  BY <1>1, <1>6, DataFacts, Block DEF Data, p
<1>10. Len(Passed') <= Behind'
  <2>1. Len(Passed) <= Behind /\ Len(Passed) \in Nat /\ Behind \in Nat
    BY DataFacts DEF Data
  <2> QED BY <1>1, <1>8, <1>9, <2>1
<1>11. cut' = {} => Contiguous(Passed', 0) /\ Len(Passed') = Behind'
  <2> SUFFICES ASSUME cut' = {} PROVE Contiguous(Passed', 0) /\ Len(Passed') = Behind'
    OBVIOUS
  <2>1. cut = {} /\ k = Len(buffer)
    <3>1. {"client"} # {}
      OBVIOUS
    <3>2. ~(k < Len(buffer))
      BY <3>1
    <3>3. cut = {}
      BY <3>2
    <3>4. k = Len(buffer)
      BY ONLY <1>1, <3>2
    <3> QED BY <3>3, <3>4
  <2>2. Contiguous(Passed, 0) /\ Len(Passed) = Behind
    BY <2>1 DEF Data
  <2> QED BY <1>8, <1>9, <2>1, <2>2
<1>12. InOrder(Passed, Behind)' /\ (cut = {} => Contiguous(Passed, 0))'
  BY <1>8, <1>9, <1>11 DEF InOrder, Contiguous
<1>13. Contiguous(wire["server"], sent - Len(wire["server"]))'
  BY <1>5 DEF Data, Contiguous
<1>14. cut' \subseteq {"client"}
  BY DEF Data
<1> QED BY <1>1, <1>5, <1>10, <1>11, <1>12, <1>13, <1>14 DEF Data

(* The server receives some of what is on its way to it.                    *)
LEMMA ServerReceivesData ==
  ASSUME Data, ~Pending, Pending', NEW k \in 1 .. Len(wire["server"]),
         wire' = [wire EXCEPT !["server"] = SubSeq(@, k + 1, Len(@))],
         buffer' = SubSeq(wire["server"], 1, k), UNCHANGED <<sent, got, cut>>
  PROVE  Data'
<1> DEFINE w == wire["server"]
           p == SubSeq(w, 1, k)
           r == SubSeq(w, k + 1, Len(w))
<1>1. /\ wire \in [Sides -> Seq(Bytes)] /\ w \in Seq(Bytes) /\ Len(w) \in Nat
      /\ k \in 1 .. Len(w) /\ sent \in Nat /\ Len(w) <= sent /\ sent <= WordLen
  BY DataFacts DEF Data
<1>2. Contiguous(w, sent - Len(w))
  BY DEF Data
<1>3. wire' = [wire EXCEPT !["server"] = r] /\ buffer' = p
  OBVIOUS
<1> HIDE DEF w
<1>4. /\ p \in Seq(Bytes) /\ Len(p) = k /\ r \in Seq(Bytes) /\ Len(r) = Len(w) - k
      /\ \A i \in 1 .. k : p[i] = w[i]
      /\ \A i \in 1 .. Len(w) - k : r[i] = w[k + i]
  BY <1>1, Parts
<1> HIDE DEF p, r
<1>5. Contiguous(p, sent - Len(w))
  <2>1. \A i \in 1 .. k : i \in 1 .. Len(w)
    BY <1>1
  <2> QED BY <1>2, <1>4, <2>1 DEF Contiguous
<1>6. Contiguous(r, sent - Len(r))
  <2> SUFFICES ASSUME NEW i \in 1 .. Len(w) - k PROVE r[i] = sent - Len(r) + i
    BY <1>4 DEF Contiguous
  <2>1. k + i \in 1 .. Len(w) /\ sent - Len(w) + (k + i) = sent - (Len(w) - k) + i
    BY <1>1
  <2>2. w[k + i] = sent - Len(w) + (k + i)
    BY <1>2, <2>1 DEF Contiguous
  <2> QED BY <1>4, <2>1, <2>2
<1>7. /\ wire' \in [Sides -> Seq(Bytes)]
      /\ wire'["server"] = r /\ wire'["client"] = wire["client"]
  BY <1>1, <1>3, <1>4 DEF Sides
<1>8. Unsent = 0 /\ Unsent' = k
  BY <1>3, <1>4 DEF Unsent
<1>9. Behind' = Behind /\ Behind = sent - Len(w)
  <2>1. Behind = sent - Len(w) - 0
    BY <1>8 DEF Behind, w
  <2>2. Behind' = sent - (Len(w) - k) - k
    BY <1>4, <1>7, <1>8 DEF Behind
  <2> QED BY <1>1, <2>1, <2>2
<1>10. Passed' = Passed
  BY <1>7 DEF Passed
<1>11. Len(buffer') <= WordLen
  BY <1>1, <1>3, <1>4, NetworkTestAssumption
<1>12. (Pending => Contiguous(buffer, Behind))'
  BY <1>3, <1>5, <1>9 DEF Contiguous
<1>13. Contiguous(wire["server"], sent - Len(wire["server"]))'
  BY <1>6, <1>7 DEF Contiguous
<1>14. /\ Len(Passed) <= Behind /\ InOrder(Passed, Behind)
       /\ cut = {} => Contiguous(Passed, 0) /\ Len(Passed) = Behind
       /\ got \in Seq(Bytes) /\ cut \subseteq {"client"} /\ sent \in 0 .. WordLen
  BY DEF Data
<1>15. InOrder(Passed, Behind)' /\ (cut = {} => Contiguous(Passed, 0))'
  BY <1>9, <1>10, <1>14 DEF InOrder, Contiguous
<1> QED BY <1>3, <1>4, <1>7, <1>9, <1>10, <1>11, <1>12, <1>13, <1>14, <1>15 DEF Data

(* The client receives some of what is on its way to it.                    *)
LEMMA ClientReceivesData ==
  ASSUME Data, Pending' <=> Pending, NEW k \in 1 .. Len(wire["client"]),
         wire' = [wire EXCEPT !["client"] = SubSeq(@, k + 1, Len(@))],
         got' = got \o SubSeq(wire["client"], 1, k), UNCHANGED <<sent, buffer, cut>>
  PROVE  /\ Data' /\ got' \in Seq(Bytes) /\ Len(got') = Len(got) + k
         /\ \A i \in 1 .. Len(got) : got'[i] = got[i]
         /\ Len(got') <= Len(Passed) /\ \A i \in 1 .. Len(got') : got'[i] = Passed[i]
<1> DEFINE w == wire["client"]
           p == SubSeq(w, 1, k)
           r == SubSeq(w, k + 1, Len(w))
<1>1. /\ wire \in [Sides -> Seq(Bytes)] /\ w \in Seq(Bytes) /\ got \in Seq(Bytes)
      /\ Len(w) \in Nat /\ Len(got) \in Nat /\ k \in 1 .. Len(w)
  BY DataFacts DEF Data
<1>2. wire' = [wire EXCEPT !["client"] = r] /\ got' = got \o p /\ Passed = got \o w
  BY DEF Passed
<1> HIDE DEF w
<1>3. /\ p \in Seq(Bytes) /\ Len(p) = k /\ r \in Seq(Bytes) /\ Len(r) = Len(w) - k /\ p \o r = w
  BY <1>1, Parts
<1> HIDE DEF p, r
<1>4. /\ wire' \in [Sides -> Seq(Bytes)]
      /\ wire'["client"] = r /\ wire'["server"] = wire["server"]
  BY <1>1, <1>2, <1>3 DEF Sides
<1>5. /\ got' \in Seq(Bytes) /\ Len(got') = Len(got) + k
      /\ \A i \in 1 .. Len(got) + k : (got \o p)[i] = IF i <= Len(got) THEN got[i] ELSE p[i - Len(got)]
  <2>1. /\ got \o p \in Seq(Bytes) /\ Len(got \o p) = Len(got) + Len(p)
        /\ \A i \in 1 .. Len(got) + Len(p) : (got \o p)[i] = IF i <= Len(got) THEN got[i] ELSE p[i - Len(got)]
    BY <1>1, <1>3, ConcatProperties
  <2> QED BY <1>2, <1>3, <2>1
<1>6. \A i \in 1 .. Len(got) : got'[i] = got[i]
  BY <1>1, <1>2, <1>5
<1>7. Passed' = got' \o r /\ Passed = got' \o r
  <2>1. (got \o p) \o r = got \o (p \o r)
    BY ONLY <1>1, <1>3, Associative, Zenon
  <2>2. Passed' = got' \o r
    BY <1>4 DEF Passed
  <2> QED BY <1>2, <1>3, <2>1, <2>2
<1>8. Len(got') <= Len(Passed) /\ \A i \in 1 .. Len(got') : got'[i] = Passed[i]
  <2> DEFINE g == got'
  <2>1. g \in Seq(Bytes) /\ Passed = g \o r
    BY <1>5, <1>7
  <2> HIDE DEF g
  <2>2. /\ Len(g \o r) = Len(g) + Len(r)
        /\ \A i \in 1 .. Len(g) + Len(r) : (g \o r)[i] = IF i <= Len(g) THEN g[i] ELSE r[i - Len(g)]
    BY <1>3, <2>1, ConcatProperties
  <2>3. Len(g) \in Nat /\ Len(r) \in Nat
    BY <1>3, <2>1
  <2>4. Len(g) <= Len(Passed) /\ \A i \in 1 .. Len(g) : g[i] = Passed[i]
    BY <2>1, <2>2, <2>3
  <2> QED BY <2>4 DEF g
<1>9. Behind' = Behind
  BY <1>4 DEF Behind, Unsent
<1>10. Passed' = Passed
  BY <1>7
<1>11. /\ Len(Passed) <= Behind /\ InOrder(Passed, Behind)
       /\ cut = {} => Contiguous(Passed, 0) /\ Len(Passed) = Behind
       /\ Contiguous(wire["server"], sent - Len(wire["server"]))
       /\ Pending => Contiguous(buffer, Behind)
       /\ buffer \in Seq(Bytes) /\ Len(buffer) <= WordLen
       /\ cut \subseteq {"client"} /\ sent \in 0 .. WordLen
  BY DEF Data
<1>12. /\ InOrder(Passed, Behind)' /\ (cut = {} => Contiguous(Passed, 0))'
       /\ Contiguous(wire["server"], sent - Len(wire["server"]))'
       /\ (Pending => Contiguous(buffer, Behind))'
  BY <1>4, <1>9, <1>10, <1>11 DEF InOrder, Contiguous
<1>13. Data'
  BY <1>4, <1>5, <1>9, <1>10, <1>11, <1>12 DEF Data
<1> QED BY <1>5, <1>6, <1>8, <1>13

-----------------------------------------------------------------------------
(* The invariant.                                                           *)

(* The program starts with its accept armed and its connect under way.      *)
LEMMA InitIInv == Init => IInv
<1> SUFFICES ASSUME Init PROVE IInv
  OBVIOUS
<1>1. /\ run_server = "accept" /\ handle_client = "none" /\ run_client = "connect"
      /\ handle_server = "none" /\ link = "none" /\ stray = "none" /\ aborted = FALSE
      /\ open = {"client"} /\ wire = [side \in Sides |-> <<>>] /\ buffer = <<>> /\ armed = TRUE
      /\ ops = {ConnectOp} /\ cq = <<>> /\ sent = 0 /\ got = <<>> /\ cut = {}
      /\ words = 0 /\ fails = 0
  BY DEF Init, ConnectOp
<1>2. Queue = {}
  BY <1>1 DEF Queue, Range
<1>3. Control
  <2>1. ops \subseteq Ops /\ open \subseteq Sides
    BY <1>1, OpFacts DEF Sides
  <2>2. words \in 0 .. Words /\ fails \in 0 .. MaxFails
    BY <1>1, NetworkTestAssumption
  <2>3. aborted \in BOOLEAN /\ armed \in BOOLEAN
    BY <1>1
  <2> QED BY <1>1, <2>1, <2>2, <2>3 DEF Control
<1>4. InQueue
  BY <1>1 DEF InQueue, Alone, FirstLeads
<1>5. Suspended
  BY <1>1, <1>2 DEF Suspended, AwaitedBy
<1>6. Callers /\ Accepts /\ Owned
  BY <1>1, <1>2 DEF Callers, Accepts, Owned
<1>7. FirstSend
  BY <1>1 DEF FirstSend
<1>8. Data
  <2>1. ~Pending
    BY <1>1, <1>2 DEF Pending, Done
  <2>2. Unsent = 0
    BY <2>1 DEF Unsent
  <2>3. wire["server"] = <<>> /\ wire["client"] = <<>> /\ wire \in [Sides -> Seq(Bytes)]
    BY <1>1 DEF Sides
  <2>4. Behind = 0
    <3>1. Len(wire["server"]) = 0
      BY <2>3
    <3>2. sent = 0
      BY <1>1
    <3> QED BY ONLY <2>2, <3>1, <3>2 DEF Behind
  <2>5. Passed = <<>>
    BY <1>1, <2>3 DEF Passed
  <2>6. 0 \in 0 .. WordLen /\ WordLen \in Nat
    BY NetworkTestAssumption
  <2> QED BY <1>1, <2>1, <2>3, <2>4, <2>5, <2>6 DEF Data, Contiguous, InOrder
<1> QED BY <1>3, <1>4, <1>5, <1>6, <1>7, <1>8 DEF Waits, IInv

(* The client begins to send only once, when it has sent nothing.           *)
LEMMA FirstSendStays ==
  ASSUME FirstSend, sent' = sent,
         handle_server' = "none" => handle_server = "none",
         Op("send", "client") \in ops' => Op("send", "client") \in ops \/ handle_server = "none"
  PROVE  FirstSend'
BY DEF FirstSend

(* An operation that is about no bytes, ends or fails.                      *)
LEMMA EndsStep ==
  ASSUME IInv, NEW o \in ops,
         KernelConnects(o) \/ KernelEnds(o) \/ KernelFails(o)
  PROVE  IInv'
<1> USE DEF tasks, net
<1>1. \E res \in {0, -1} : Post(o, res)
  BY DEF KernelConnects, KernelEnds, KernelFails
<1>2. PICK res \in {0, -1} : Post(o, res)
  BY <1>1
<1>3. /\ ops' = ops \ {o}
      /\ UNCHANGED <<tasks, stray, wire, buffer, sent, got, cut, open, armed, words, aborted>>
  BY DEF KernelConnects, KernelEnds, KernelFails
<1>4. fails' \in 0 .. MaxFails /\ (fails' = 0 => fails = 0)
  <2>1. fails \in 0 .. MaxFails
    BY DEF IInv, Waits, Control
  <2>2. CASE fails' = fails
    BY <2>1, <2>2
  <2>3. CASE fails < MaxFails /\ fails' = fails + 1
    BY <2>1, <2>3, NetworkTestAssumption
  <2> QED BY <2>2, <2>3 DEF KernelConnects, KernelEnds, KernelFails
<1>5. link' = link \/ (o = ConnectOp /\ link' = "backlog")
  <2>1. o.kind = "connect" => o = ConnectOp
    BY DEF IInv, Waits, Suspended, AwaitedBy
  <2> QED BY <2>1 DEF KernelConnects, KernelEnds, KernelFails
<1>6. res \in -1 .. WordLen + 1
  BY NetworkTestAssumption
<1>7. /\ Waits' /\ Queue' = Queue \cup {Cqe(o, res)}
  BY <1>2, <1>3, <1>4, <1>5, <1>6, Completed DEF IInv
<1>8. Cqe(o, res).op = o /\ Cqe(o, res).res = res /\ ~(res > 0)
  BY OpFacts
<1>9. \A kind : Done(kind)' <=> Done(kind)
  BY <1>7, <1>8 DEF Done
<1>10. Pending' <=> Pending
  BY <1>3, <1>9 DEF Pending
<1>11. Data'
  BY <1>3, <1>10, DataStay DEF IInv
<1>12. FirstSend'
  BY <1>3, FirstSendStays DEF IInv
<1> QED BY <1>7, <1>11, <1>12 DEF IInv

(* A side sends.                                                            *)
LEMMA SendsStep ==
  ASSUME IInv, NEW o \in ops, KernelSends(o)
  PROVE  IInv'
<1> USE DEF tasks, net
<1>1. /\ o.kind = "send" /\ ops' = ops \ {o}
      /\ UNCHANGED <<tasks, link, stray, buffer, got, open, armed, words, fails, aborted>>
  BY DEF KernelSends
<1>2. PICK k \in 1 .. Len(Outgoing(o.side)) :
        /\ wire' = [wire EXCEPT ![Other(o.side)] = @ \o SubSeq(Outgoing(o.side), 1, k)]
        /\ sent' = IF o.side = "client" THEN sent + k ELSE sent
        /\ cut' = IF o.side = "server" /\ k < Len(buffer) THEN {"client"} ELSE cut
        /\ Post(o, k)
  BY DEF KernelSends
<1>3. o \in Ops /\ o.side \in Sides /\ o = Op("send", o.side) /\ AwaitedBy(o)
  BY <1>1, OpFacts DEF IInv, Waits, Control, Suspended, Ops
<1>4. k \in 1 .. WordLen /\ k > 0 /\ k \in -1 .. WordLen + 1
  <2>1. Len(Outgoing("client")) = WordLen /\ Len(Outgoing("server")) = Len(buffer)
    BY NetworkTestAssumption DEF Outgoing
  <2>2. Len(buffer) \in Nat /\ Len(buffer) <= WordLen /\ WordLen \in Nat
    BY NetworkTestAssumption DEF IInv, Data
  <2>3. Len(Outgoing(o.side)) \in Nat /\ Len(Outgoing(o.side)) <= WordLen
    BY <1>3, <2>1, <2>2 DEF Sides
  <2> QED BY <2>2, <2>3
<1>5. fails' \in 0 .. MaxFails
  BY <1>1 DEF IInv, Waits, Control
<1>6. Waits' /\ Queue' = Queue \cup {Cqe(o, k)} /\ \A q \in Queue : q.op # o
  BY <1>1, <1>2, <1>4, <1>5, Completed DEF IInv
<1>7. Cqe(o, k).op = o /\ Cqe(o, k).res = k
  BY OpFacts
<1>8. CASE o.side = "client"
  <2>1. \A kind : Done(kind)' <=> Done(kind)
    <3>1. \A kind : Op(kind, "server") # o
      BY <1>8 DEF Op
    <3> QED BY <1>6, <1>7, <3>1 DEF Done
  <2>2. Pending' <=> Pending
    BY <1>1, <2>1 DEF Pending
  <2>3. Data'
    BY <1>1, <1>2, <1>3, <1>8, <2>2, ClientSendsData DEF IInv, Other
  <2>4. FirstSend'
    <3>1. handle_server' = "send"
      BY <1>1, <1>3, <1>8 DEF AwaitedBy, ConnectOp, Op
    <3>2. Op("send", "client") \notin ops'
      BY <1>1, <1>3, <1>8
    <3> QED BY <3>1, <3>2 DEF FirstSend
  <2> QED BY <1>6, <2>3, <2>4 DEF IInv
<1>9. CASE o.side = "server"
  <2>1. handle_client = "send"
    BY <1>1, <1>3, <1>9 DEF AwaitedBy, ConnectOp, Op
  <2>2. ~Done("send")
    BY <1>3, <1>6, <1>9 DEF Done
  <2>3. Pending
    BY <2>1, <2>2 DEF Pending
  <2>4. Done("send")'
    BY <1>3, <1>4, <1>6, <1>7, <1>9 DEF Done
  <2>5. ~Done("recv")'
    BY <1>1, <1>6, <2>1, DoneAwaitedNext DEF DoneIsAwaited
  <2>6. ~Pending'
    BY <2>4, <2>5 DEF Pending
  <2>7. Data'
    BY <1>1, <1>2, <1>9, <2>3, <2>6, ServerSendsData DEF IInv, Other, Outgoing
  <2>8. FirstSend'
    BY <1>1, <1>2, <1>9, FirstSendStays DEF IInv
  <2> QED BY <1>6, <2>7, <2>8 DEF IInv
<1> QED BY <1>3, <1>8, <1>9 DEF Sides

(* A side receives.  What it is about the client is for the refinement.     *)
LEMMA ReceivesStep ==
  ASSUME IInv, NEW o \in ops, KernelReceives(o)
  PROVE  /\ IInv'
         /\ UNCHANGED <<sent, cut>>
         /\ \/ got' = got
            \/ /\ got' \in Seq(Bytes) /\ Len(got) < Len(got') /\ Len(got') <= Len(Passed)
               /\ \A i \in 1 .. Len(got) : got'[i] = got[i]
               /\ \A i \in 1 .. Len(got') : got'[i] = Passed[i]
<1> USE DEF tasks, net
<1>1. /\ o.kind = "recv" /\ ops' = ops \ {o}
      /\ UNCHANGED <<tasks, link, stray, sent, cut, open, armed, words, fails, aborted>>
  BY DEF KernelReceives
<1>2. PICK k \in 1 .. Len(wire[o.side]) :
        /\ wire' = [wire EXCEPT ![o.side] = SubSeq(@, k + 1, Len(@))]
        /\ buffer' = IF o.side = "server" THEN SubSeq(wire[o.side], 1, k) ELSE buffer
        /\ got' = IF o.side = "client" THEN got \o SubSeq(wire[o.side], 1, k) ELSE got
        /\ Post(o, k)
  BY DEF KernelReceives
<1>3. o \in Ops /\ o.side \in Sides /\ o = Op("recv", o.side) /\ AwaitedBy(o)
  BY <1>1, OpFacts DEF IInv, Waits, Control, Suspended, Ops
<1>4. k > 0 /\ k \in Nat /\ k \in -1 .. WordLen + 1
  <2>1. Len(wire["server"]) \in Nat /\ Len(wire["server"]) <= WordLen
    BY DataFacts, NetworkTestAssumption DEF IInv
  <2>2. Len(wire["client"]) \in Nat /\ Len(wire["client"]) <= Len(Passed)
    <3>1. got \in Seq(Bytes) /\ wire["client"] \in Seq(Bytes)
      BY DataFacts DEF IInv, Data
    <3>2. Len(Passed) = Len(got) + Len(wire["client"])
      BY <3>1, ConcatProperties DEF Passed
    <3> QED BY <3>1, <3>2
  <2>3. Len(Passed) \in Nat /\ Len(Passed) <= WordLen
    <3>1. Len(Passed) <= Behind
      BY DEF IInv, Data
    <3> QED BY <3>1, DataFacts, NetworkTestAssumption DEF IInv
  <2>4. Len(wire[o.side]) \in Nat /\ Len(wire[o.side]) <= WordLen
    BY <1>3, <2>1, <2>2, <2>3, NetworkTestAssumption DEF Sides
  <2> QED BY <2>4, NetworkTestAssumption
<1>5. fails' \in 0 .. MaxFails
  BY <1>1 DEF IInv, Waits, Control
<1>6. Waits' /\ Queue' = Queue \cup {Cqe(o, k)} /\ \A q \in Queue : q.op # o
  BY <1>1, <1>2, <1>4, <1>5, Completed DEF IInv
<1>7. Cqe(o, k).op = o /\ Cqe(o, k).res = k
  BY OpFacts
<1>8. FirstSend'
  BY <1>1, FirstSendStays DEF IInv
<1>9. CASE o.side = "client"
  <2>1. \A kind : Done(kind)' <=> Done(kind)
    <3>1. \A kind : Op(kind, "server") # o
      BY <1>9 DEF Op
    <3> QED BY <1>6, <1>7, <3>1 DEF Done
  <2>2. Pending' <=> Pending
    BY <1>1, <2>1 DEF Pending
  <2>3. /\ Data' /\ got' \in Seq(Bytes) /\ Len(got') = Len(got) + k
        /\ \A i \in 1 .. Len(got) : got'[i] = got[i]
        /\ Len(got') <= Len(Passed) /\ \A i \in 1 .. Len(got') : got'[i] = Passed[i]
    BY <1>1, <1>2, <1>9, <2>2, ClientReceivesData DEF IInv
  <2>4. Len(got) < Len(got')
    <3>1. Len(got) \in Nat
      BY DEF IInv, Data
    <3> QED BY <1>4, <2>3, <3>1
  <2> QED BY <1>1, <1>6, <1>8, <2>3, <2>4 DEF IInv
<1>10. CASE o.side = "server"
  <2>1. handle_client = "recv"
    BY <1>1, <1>3, <1>10 DEF AwaitedBy, ConnectOp, Op
  <2>2. ~Done("recv")
    BY <1>3, <1>6, <1>10 DEF Done
  <2>3. ~Pending
    BY <2>1, <2>2 DEF Pending
  <2>4. Done("recv")'
    BY <1>3, <1>4, <1>6, <1>7, <1>10 DEF Done
  <2>5. Pending'
    BY <2>4 DEF Pending
  <2>6. Data' /\ got' = got
    BY <1>1, <1>2, <1>10, <2>3, <2>5, ServerReceivesData DEF IInv
  <2> QED BY <1>1, <1>6, <1>8, <2>6 DEF IInv
<1> QED BY <1>3, <1>9, <1>10 DEF Sides

(* A handler that leaves what is pending as it is.                          *)
LEMMA DispatchStep ==
  ASSUME IInv, NEW cqe \in ToSet(cq),
         \/ OnConnect(cqe) \/ OnClientSend(cqe) \/ OnClientRecv(cqe)
         \/ OnAccept(cqe) \/ OnStaleAccept(cqe) \/ OnServerRecv(cqe) \/ OnServerSend(cqe)
  PROVE  IInv' /\ UNCHANGED <<sent, wire, buffer, got, cut>>
<1> USE DEF tasks, net
<1> DEFINE q == cqe
<1>0. UNCHANGED <<sent, wire, buffer, got, cut>>
  BY DEF OnConnect, OnClientSend, OnClientRecv, OnAccept, OnStaleAccept, OnServerRecv, OnServerSend
<1>1. ASSUME Waits', Pending' <=> Pending,
             handle_server' = "none" => handle_server = "none",
             Op("send", "client") \in ops' => Op("send", "client") \in ops \/ handle_server = "none"
      PROVE  IInv'
  BY <1>0, <1>1, DataStay, FirstSendStays DEF IInv
<1>2. CASE OnConnect(q)
  <2>1. Waits' /\ Queue = Queue' \cup {q} /\ q.op = ConnectOp
    BY <1>2, ConnectStep DEF IInv
  <2>2. \A kind : Done(kind)' <=> Done(kind)
    BY <2>1 DEF Done, ConnectOp, Op
  <2>3. handle_client' = handle_client
    BY <1>2 DEF OnConnect
  <2>4. handle_server = "none"
    <3>1. AwaitedBy(ConnectOp)
      BY <1>2, <2>1, Handled DEF IInv, OnConnect, Handles, ConnectOp, AcceptOp, Op
    <3> QED BY <3>1 DEF AwaitedBy, ConnectOp, Op, IInv, Waits, Callers
  <2> QED BY <1>0, <1>1, <2>1, <2>2, <2>3, <2>4 DEF Pending
<1>3. CASE OnAccept(q)
  <2>1. Waits' /\ Queue = Queue' \cup {q} /\ q.op = AcceptOp /\ handle_client = "none"
    BY <1>3, AcceptedStep DEF IInv
  <2>2. \A kind \in {"recv", "send"} : Done(kind)' <=> Done(kind)
    BY <2>1 DEF Done, AcceptOp, Op
  <2>3. handle_client' \in {"none", "recv"} /\ handle_server' = handle_server
        /\ (Op("send", "client") \in ops' => Op("send", "client") \in ops)
    BY <1>3, <2>1 DEF OnAccept, Op
  <2> QED BY <1>0, <1>1, <2>1, <2>2, <2>3 DEF Pending
<1>4. CASE OnStaleAccept(q)
  <2>1. /\ Waits' /\ q.op = AcceptOp
        /\ Queue \subseteq Queue' \cup {q} /\ Queue' \subseteq Queue \cup {Cqe(AcceptOp, -1)}
    BY <1>4, StaleStep DEF IInv
  <2>2. \A kind \in {"recv", "send"} : Done(kind)' <=> Done(kind)
    <3>1. \A kind \in {"recv", "send"} : Op(kind, "server") # AcceptOp
      BY DEF AcceptOp, Op
    <3> QED BY <2>1, <3>1, OpFacts DEF Done
  <2>3. UNCHANGED <<handle_client, handle_server, ops>>
    BY <1>4 DEF OnStaleAccept
  <2> QED BY <1>0, <1>1, <2>1, <2>2, <2>3 DEF Pending
<1>5. CASE OnClientSend(q) \/ OnClientRecv(q)
  <2>1. PICK kind \in {"send", "recv"}, w \in {"send", "recv", "gone"} : Resumes("client", kind, q, w)
    <3>1. CASE OnClientSend(q) /\ handle_server' = "recv" /\ ops' = ops \cup {Op("recv", "client")}
      <4>1. Resumes("client", "send", q, "recv")
        BY <3>1 DEF OnClientSend, Resumes
      <4> QED BY <4>1
    <3>2. CASE OnClientSend(q) /\ UNCHANGED <<handle_server, ops>>
      <4>1. handle_server = "send"
        <5>1. AwaitedBy(Op("send", "client"))
          BY <3>2, Handled DEF IInv, OnClientSend, Handles, AcceptOp, Op
        <5> QED BY <5>1 DEF AwaitedBy, ConnectOp, Op
      <4>2. Resumes("client", "send", q, "send")
        BY <3>2, <4>1 DEF OnClientSend, Resumes
      <4> QED BY <4>2
    <3>3. CASE OnClientRecv(q)
      <4>1. Resumes("client", "recv", q, "gone")
        BY <3>3 DEF OnClientRecv, EndClient, Resumes
      <4> QED BY <4>1
    <3> QED BY <1>5, <3>1, <3>2, <3>3 DEF OnClientSend
  <2>2. Waits' /\ Queue = Queue' \cup {q} /\ q.op = Op(kind, "client") /\ handle_server = kind
    BY <2>1, ResumedStep DEF IInv, Sides
  <2>3. \A k : Done(k)' <=> Done(k)
    BY <2>2 DEF Done, Op
  <2>4. handle_client' = handle_client /\ handle_server' # "none"
        /\ (Op("send", "client") \in ops' => Op("send", "client") \in ops)
    BY <1>5, <2>2 DEF OnClientSend, OnClientRecv, Op
  <2> QED BY <1>0, <1>1, <2>2, <2>3, <2>4 DEF Pending
<1>6. CASE OnServerRecv(q)
  <2>1. PICK w \in {"send", "gone"} : /\ Resumes("server", "recv", q, w)
                                      /\ w = "send" <=> q.res > 0
    <3>1. CASE q.res > 0
      <4>1. Resumes("server", "recv", q, "send")
        BY <1>6, <3>1, Handled DEF OnServerRecv, Resumes, IInv, Handles, Cqes
      <4> QED BY <3>1, <4>1
    <3>2. CASE ~(q.res > 0)
      <4>1. Resumes("server", "recv", q, "gone")
        BY <1>6, <3>2 DEF OnServerRecv, Resumes
      <4> QED BY <3>2, <4>1
    <3> QED BY <3>1, <3>2
  <2>2. /\ Waits' /\ Queue = Queue' \cup {q} /\ q.op = Op("recv", "server")
        /\ handle_client = "recv" /\ \A p \in Queue' : p.op # q.op
    BY <2>1, ResumedStep DEF IInv, Sides
  <2>3. handle_client' = w /\ handle_server' = handle_server
        /\ (Op("send", "client") \in ops' => Op("send", "client") \in ops)
    BY <2>1 DEF Resumes, Op
  <2>4. Pending <=> q.res > 0
    BY <2>2 DEF Pending, Done
  <2>5. ~Done("recv")' /\ ~Done("send")'
    <3>1. ~Done("send")
      BY <2>2, DoneAwaited DEF DoneIsAwaited, IInv
    <3> QED BY <2>2, <3>1 DEF Done
  <2>6. Pending' <=> Pending
    BY <2>1, <2>3, <2>4, <2>5 DEF Pending
  <2> QED BY <1>0, <1>1, <2>2, <2>3, <2>6
<1>7. CASE OnServerSend(q)
  <2>1. PICK w \in {"send", "recv"} : /\ Resumes("server", "send", q, w)
                                      /\ w = "recv" <=> q.res > 0
    <3>1. CASE q.res > 0
      <4>1. Resumes("server", "send", q, "recv")
        BY <1>7, <3>1, Handled DEF OnServerSend, Resumes, IInv, Handles, Cqes
      <4> QED BY <3>1, <4>1
    <3>2. CASE ~(q.res > 0)
      <4>1. handle_client = "send"
        <5>1. AwaitedBy(Op("send", "server"))
          BY <1>7, Handled DEF IInv, OnServerSend, Handles, AcceptOp, Op
        <5> QED BY <5>1 DEF AwaitedBy, ConnectOp, Op
      <4>2. Resumes("server", "send", q, "send")
        BY <1>7, <3>2, <4>1 DEF OnServerSend, Resumes
      <4> QED BY <3>2, <4>2
    <3> QED BY <3>1, <3>2
  <2>2. /\ Waits' /\ Queue = Queue' \cup {q} /\ q.op = Op("send", "server")
        /\ handle_client = "send" /\ \A p \in Queue' : p.op # q.op
    BY <2>1, ResumedStep DEF IInv, Sides
  <2>3. handle_client' = w /\ handle_server' = handle_server
        /\ (Op("send", "client") \in ops' => Op("send", "client") \in ops)
    BY <2>1 DEF Resumes, Op
  <2>4. ~Done("recv") /\ (Done("send") <=> q.res > 0)
    <3>1. ~Done("recv")
      BY <2>2, DoneAwaited DEF DoneIsAwaited, IInv
    <3> QED BY <2>2, <3>1 DEF Done
  <2>5. ~Done("recv")' /\ ~Done("send")'
    BY <2>2, <2>4 DEF Done
  <2>6. Pending' <=> Pending
    BY <2>1, <2>2, <2>3, <2>4, <2>5 DEF Pending
  <2> QED BY <1>0, <1>1, <2>2, <2>3, <2>6
<1> QED BY <1>0, <1>2, <1>3, <1>4, <1>5, <1>6, <1>7

(* Every step keeps the invariant.                                          *)
LEMMA NextIInv == IInv /\ [Next]_vars => IInv'
<1> SUFFICES ASSUME IInv, [Next]_vars PROVE IInv'
  OBVIOUS
<1> USE DEF tasks, net
<1>1. ASSUME NEW side \in Sides, Completes(side)
      PROVE  IInv'
  <2>1. PICK o \in ops : KernelConnects(o) \/ KernelSends(o) \/ KernelReceives(o) \/ KernelEnds(o)
    BY <1>1 DEF Completes
  <2> QED BY <2>1, EndsStep, SendsStep, ReceivesStep
<1>2. ASSUME NEW o \in ops, KernelFails(o) PROVE IInv'
  BY <1>2, EndsStep
<1>3. CASE KernelAccepts \/ StrayArrives \/ KernelAcceptsStray \/ KernelAcceptFails
  <2>1. /\ UNCHANGED <<sent, wire, buffer, got, cut, handle_client, handle_server, ops>>
    BY <1>3 DEF KernelAccepts, StrayArrives, KernelAcceptsStray, KernelAcceptFails
  <2>2. Waits' /\ \E res \in {-1, 1, 2} : Queue' \in {Queue, Queue \cup {Cqe(AcceptOp, res)}}
    BY <1>3, AcceptsStep, StrayStep DEF IInv, First
  <2>3. \A kind \in {"recv", "send"} : Done(kind)' <=> Done(kind)
    <3>1. \A kind \in {"recv", "send"} : Op(kind, "server") # AcceptOp
      BY DEF AcceptOp, Op
    <3> QED BY <2>2, <3>1, OpFacts DEF Done
  <2>4. Pending' <=> Pending
    BY <2>1, <2>3 DEF Pending
  <2> QED BY <2>1, <2>2, <2>4, DataStay, FirstSendStays DEF IInv
<1>4. CASE Dispatch
  BY <1>4, DispatchStep DEF Dispatch
<1>5. CASE UNCHANGED vars
  <2>1. Queue' = Queue /\ UNCHANGED <<tasks, net, aborted, open, armed, ops, cq, words, fails>>
    BY <1>5 DEF vars, Queue
  <2>2. Control' /\ InQueue' /\ Callers' /\ Accepts' /\ Owned' /\ FirstSend'
    BY <2>1 DEF IInv, Waits, Control, InQueue, Callers, Accepts, Owned, FirstSend
  <2>3. Suspended'
    BY <2>1 DEF IInv, Waits, Suspended, AwaitedBy
  <2>4. Pending' <=> Pending
    BY <2>1 DEF Pending, Done
  <2>5. Data'
    BY <2>1, <2>4, DataStay DEF IInv
  <2> QED BY <2>2, <2>3, <2>5 DEF IInv, Waits
<1> QED BY <1>1, <1>2, <1>3, <1>4, <1>5 DEF Next, Kernel

(* So the invariant holds in every reachable state.                         *)
LEMMA Inductive == Spec => []IInv
BY InitIInv, NextIInv, PTL DEF Spec

-----------------------------------------------------------------------------
(* No coroutine is forgotten at a receive, nor at a send as long as no      *)
(* operation failed.                                                        *)
InHand(op) == op \in ops \/ \E q \in Queue : q.op = op
Awake ==
  /\ handle_server = "recv" => InHand(Op("recv", "client"))
  /\ handle_client = "recv" => InHand(Op("recv", "server"))
  /\ fails = 0 =>
       /\ handle_server = "send" => InHand(Op("send", "client"))
       /\ handle_client = "send" => InHand(Op("send", "server"))
       /\ \A q \in Queue : q.op.kind = "send" => q.res > 0

(* It holds initially.                                                      *)
LEMMA InitAwake == Init => Awake
<1> SUFFICES ASSUME Init PROVE Awake
  OBVIOUS
<1>1. Queue = {}
  BY DEF Init, Queue, Range
<1> QED BY <1>1 DEF Init, Awake

(* The completions after a post, and after the first one was taken out.     *)
LEMMA PostedQueue ==
  ASSUME Waits, NEW op, NEW res, Post(op, res)
  PROVE  Queue' = Queue \cup {Cqe(op, res)}
<1>1. /\ cq' = Append(cq, Cqe(op, res)) /\ Len(cq) \in Nat
      /\ DOMAIN cq = 1 .. Len(cq) /\ DOMAIN cq' = 1 .. Len(cq) + 1
      /\ cq'[Len(cq) + 1] = Cqe(op, res)
      /\ \A i \in 1 .. Len(cq) : cq'[i] = cq[i]
  BY DEF Post, Waits, InQueue
<1>2. \A i \in 1 .. Len(cq) + 1 : i \in 1 .. Len(cq) \/ i = Len(cq) + 1
  BY <1>1
<1> QED BY <1>1, <1>2 DEF Queue, Range

(* A step that resumes nobody keeps it if it posts the completion of an     *)
(* operation, which is no failed send as long as nothing failed.            *)
LEMMA PostedAwake ==
  ASSUME Waits, Awake, NEW op, NEW res, Post(op, res), UNCHANGED tasks,
         ops \subseteq ops' \cup {op}, fails' = 0 => fails = 0,
         fails' = 0 /\ op.kind = "send" => res > 0
  PROVE  Awake'
<1>1. Queue' = Queue \cup {Cqe(op, res)} /\ Cqe(op, res).op = op /\ Cqe(op, res).res = res
  BY PostedQueue DEF Cqe
<1>2. \A p : InHand(p) => InHand(p)'
  BY <1>1 DEF InHand
<1> QED BY <1>1, <1>2 DEF Awake, tasks

(* What a coroutine does when completion q is handled: nothing, as q is not *)
(* the one it waits for; it starts its next operation; it ends; or it is    *)
(* forgotten, as its send failed.                                           *)
GoesOn(q, before, after, side) ==
  \/ after = before /\ q.op # Op(before, side)
  \/ after \in {"send", "recv"} /\ Op(after, side) \in ops'
  \/ after = "gone"
  \/ after = "send" /\ q \in Queue /\ q.op.kind = "send" /\ ~(q.res > 0)

(* A handler takes its own completion out and leaves the others in hand.    *)
(* The coroutine it resumes has its next operation under way.               *)
LEMMA HandledAwake ==
  ASSUME Waits, Awake, NEW q, cq # <<>>, q = Head(cq),
         Range(Tail(cq)) \subseteq Queue',
         \A p \in Queue' : p \in Queue \/ p.op.kind # "send",
         ops \subseteq ops', UNCHANGED fails,
         GoesOn(q, handle_server, handle_server', "client"),
         GoesOn(q, handle_client, handle_client', "server")
  PROVE  Awake'
<1> USE DEF GoesOn
<1>1. Queue = Range(Tail(cq)) \cup {q}
  BY Handled
<1>2. \A p : p # q.op /\ InHand(p) => InHand(p)'
  BY <1>1 DEF InHand
<1>3. \A p \in ops' : InHand(p)'
  BY DEF InHand
<1>4. fails = 0 => ~(q \in Queue /\ q.op.kind = "send" /\ ~(q.res > 0))
  BY DEF Awake
<1>5. handle_server' = "recv" => InHand(Op("recv", "client"))'
  BY <1>2, <1>3 DEF Awake
<1>6. handle_client' = "recv" => InHand(Op("recv", "server"))'
  BY <1>2, <1>3 DEF Awake
<1>7. fails = 0 /\ handle_server' = "send" => InHand(Op("send", "client"))'
  BY <1>2, <1>3, <1>4 DEF Awake
<1>8. fails = 0 /\ handle_client' = "send" => InHand(Op("send", "server"))'
  BY <1>2, <1>3, <1>4 DEF Awake
<1>9. fails = 0 => \A p \in Queue' : p.op.kind = "send" => p.res > 0
  BY DEF Awake
<1> QED BY <1>5, <1>6, <1>7, <1>8, <1>9 DEF Awake

(* Every handler does that.                                                 *)
LEMMA DispatchAwake ==
  ASSUME Waits, Awake, NEW q \in ToSet(cq),
         \/ OnConnect(q) \/ OnClientSend(q) \/ OnClientRecv(q)
         \/ OnAccept(q) \/ OnStaleAccept(q) \/ OnServerRecv(q) \/ OnServerSend(q)
  PROVE  Awake'
<1>1. /\ cq # <<>> /\ q = Head(cq) /\ q \in Queue /\ q.res \in Int
      /\ Queue = Range(Tail(cq)) \cup {q}
      /\ cq' = Tail(cq) \/ (q.op = AcceptOp /\ cq' = Append(Tail(cq), Cqe(q.op, -1)))
  <2>1. /\ cq # <<>> /\ q = Head(cq)
        /\ cq' = Tail(cq) \/ (q.op = AcceptOp /\ cq' = Append(Tail(cq), Cqe(q.op, -1)))
    BY DEF Handles, OnConnect, OnClientSend, OnClientRecv, OnAccept, OnStaleAccept,
       OnServerRecv, OnServerSend, AcceptOp
  <2>2. q \in Cqes /\ Queue = Range(Tail(cq)) \cup {q}
    BY <2>1, Handled
  <2>3. q.res \in Int
    BY <2>2, NetworkTestAssumption DEF Cqes
  <2> QED BY <2>1, <2>2, <2>3
<1>2. /\ Range(Tail(cq)) \subseteq Queue'
      /\ \A p \in Queue' : p \in Queue \/ p.op.kind # "send"
  <2>1. CASE cq' = Tail(cq)
    BY <1>1, <2>1 DEF Queue
  <2>2. CASE q.op = AcceptOp /\ cq' = Append(Tail(cq), Cqe(q.op, -1))
    <3>1. Tail(cq) \in Seq(Cqes) /\ Cqe(q.op, -1).op.kind = "accept"
      BY <1>1, <2>2, Handled DEF Cqe, AcceptOp, Op
    <3>2. Queue' = Range(Tail(cq)) \cup {Cqe(q.op, -1)}
      <4> DEFINE t == Tail(cq)
      <4>1. /\ Len(t) \in Nat /\ DOMAIN t = 1 .. Len(t) /\ DOMAIN cq' = 1 .. Len(t) + 1
            /\ cq'[Len(t) + 1] = Cqe(q.op, -1)
            /\ \A i \in 1 .. Len(t) : cq'[i] = t[i]
        BY <2>2, <3>1
      <4>2. \A i \in 1 .. Len(t) + 1 : i \in 1 .. Len(t) \/ i = Len(t) + 1
        BY <4>1
      <4> HIDE DEF t
      <4>3. Queue' = Range(t) \cup {Cqe(q.op, -1)}
        BY <4>1, <4>2 DEF Queue, Range
      <4> QED BY <4>3 DEF t
    <3> QED BY <1>1, <3>1, <3>2
  <2> QED BY <1>1, <2>1, <2>2
<1>3. \A kind, other, side \in {"connect", "accept", "send", "recv", "none", "gone", "client", "server"} :
        /\ Op(kind, "client") # Op(other, "server")
        /\ Op(kind, side) = Op(other, side) <=> kind = other
        /\ Op(kind, side).kind = kind
  BY DEF Op
<1>4. /\ handle_server \in {"none", "send", "recv", "gone"}
      /\ handle_client \in {"none", "send", "recv", "gone"}
  BY DEF Waits, Control
<1>5. q.op = Op("send", "client") => handle_server = "send"
  <2>1. q.op = Op("send", "client") => AwaitedBy(q.op)
    BY <1>1, Handled DEF AcceptOp, Op
  <2> QED BY <2>1 DEF AwaitedBy, ConnectOp, Op
<1>6. q.op = Op("send", "server") => handle_client = "send"
  <2>1. q.op = Op("send", "server") => AwaitedBy(q.op)
    BY <1>1, Handled DEF AcceptOp, Op
  <2> QED BY <2>1 DEF AwaitedBy, ConnectOp, Op
<1>7. CASE OnConnect(q)
  <2>1. /\ q.op = Op("connect", "client") /\ handle_client' = handle_client
        /\ \/ handle_server' = "send" /\ Op("send", "client") \in ops'
           \/ handle_server' = handle_server
    BY <1>1, <1>7 DEF OnConnect, Handles
  <2>2. GoesOn(q, handle_client, handle_client', "server")
    BY <1>3, <1>4, <2>1 DEF GoesOn
  <2>3. GoesOn(q, handle_server, handle_server', "client")
    BY <1>3, <1>4, <2>1 DEF GoesOn
  <2>4. ops \subseteq ops' /\ UNCHANGED fails
    BY <1>7 DEF OnConnect
  <2> QED BY <1>1, <1>2, <2>2, <2>3, <2>4, HandledAwake
<1>8. CASE OnClientSend(q)
  <2>1. /\ q.op = Op("send", "client") /\ handle_client' = handle_client
        /\ \/ handle_server' = "recv" /\ Op("recv", "client") \in ops'
           \/ handle_server' = "send" /\ ~(q.res > 0)
    BY <1>1, <1>5, <1>8 DEF OnClientSend, Handles
  <2>2. GoesOn(q, handle_client, handle_client', "server")
    BY <1>3, <1>4, <2>1 DEF GoesOn
  <2>3. GoesOn(q, handle_server, handle_server', "client")
    BY <1>1, <1>3, <2>1 DEF GoesOn
  <2>4. ops \subseteq ops' /\ UNCHANGED fails
    BY <1>8 DEF OnClientSend
  <2> QED BY <1>1, <1>2, <2>2, <2>3, <2>4, HandledAwake
<1>9. CASE OnClientRecv(q)
  <2>1. /\ q.op = Op("recv", "client") /\ handle_client' = handle_client
        /\ handle_server' = "gone"
    BY <1>1, <1>9 DEF OnClientRecv, Handles
  <2>2. GoesOn(q, handle_client, handle_client', "server")
    BY <1>3, <1>4, <2>1 DEF GoesOn
  <2>3. GoesOn(q, handle_server, handle_server', "client")
    BY <1>3, <1>4, <2>1 DEF GoesOn
  <2>4. ops \subseteq ops' /\ UNCHANGED fails
    BY <1>9 DEF OnClientRecv
  <2> QED BY <1>1, <1>2, <2>2, <2>3, <2>4, HandledAwake
<1>10. CASE OnAccept(q)
  <2>1. /\ q.op = Op("accept", "server") /\ handle_server' = handle_server
        /\ \/ handle_client' = "recv" /\ Op("recv", "server") \in ops'
           \/ handle_client' = handle_client
    BY <1>1, <1>10 DEF OnAccept, Handles
  <2>2. GoesOn(q, handle_server, handle_server', "client")
    BY <1>3, <1>4, <2>1 DEF GoesOn
  <2>3. GoesOn(q, handle_client, handle_client', "server")
    BY <1>3, <1>4, <2>1 DEF GoesOn
  <2>4. ops \subseteq ops' /\ UNCHANGED fails
    BY <1>10 DEF OnAccept
  <2> QED BY <1>1, <1>2, <2>2, <2>3, <2>4, HandledAwake
<1>11. CASE OnStaleAccept(q)
  <2>1. /\ q.op = Op("accept", "server") /\ handle_server' = handle_server
        /\ handle_client' = handle_client
    BY <1>1, <1>11 DEF OnStaleAccept
  <2>2. GoesOn(q, handle_server, handle_server', "client")
    BY <1>3, <1>4, <2>1 DEF GoesOn
  <2>3. GoesOn(q, handle_client, handle_client', "server")
    BY <1>3, <1>4, <2>1 DEF GoesOn
  <2>4. ops \subseteq ops' /\ UNCHANGED fails
    BY <1>11 DEF OnStaleAccept
  <2> QED BY <1>1, <1>2, <2>2, <2>3, <2>4, HandledAwake
<1>12. CASE OnServerRecv(q)
  <2>1. /\ q.op = Op("recv", "server") /\ handle_server' = handle_server
        /\ \/ handle_client' = "send" /\ Op("send", "server") \in ops'
           \/ handle_client' = "gone"
    BY <1>1, <1>12 DEF OnServerRecv, Handles
  <2>2. GoesOn(q, handle_server, handle_server', "client")
    BY <1>3, <1>4, <2>1 DEF GoesOn
  <2>3. GoesOn(q, handle_client, handle_client', "server")
    BY <1>3, <1>4, <2>1 DEF GoesOn
  <2>4. ops \subseteq ops' /\ UNCHANGED fails
    BY <1>12 DEF OnServerRecv
  <2> QED BY <1>1, <1>2, <2>2, <2>3, <2>4, HandledAwake
<1>13. CASE OnServerSend(q)
  <2>1. /\ q.op = Op("send", "server") /\ handle_server' = handle_server
        /\ \/ handle_client' = "recv" /\ Op("recv", "server") \in ops'
           \/ handle_client' = "send" /\ ~(q.res > 0)
    BY <1>1, <1>6, <1>13 DEF OnServerSend, Handles
  <2>2. GoesOn(q, handle_server, handle_server', "client")
    BY <1>3, <1>4, <2>1 DEF GoesOn
  <2>3. GoesOn(q, handle_client, handle_client', "server")
    BY <1>1, <1>3, <2>1 DEF GoesOn
  <2>4. ops \subseteq ops' /\ UNCHANGED fails
    BY <1>13 DEF OnServerSend
  <2> QED BY <1>1, <1>2, <2>2, <2>3, <2>4, HandledAwake
<1> QED BY <1>7, <1>8, <1>9, <1>10, <1>11, <1>12, <1>13

(* Every step keeps it.                                                     *)
LEMMA NextAwake == IInv /\ Awake /\ [Next]_vars => Awake'
<1> SUFFICES ASSUME IInv, Awake, [Next]_vars PROVE Awake'
  OBVIOUS
<1>1. Waits /\ fails \in Nat
  BY NetworkTestAssumption DEF IInv, Waits, Control
<1>2. ASSUME NEW side \in Sides, Completes(side)
      PROVE  Awake'
  <2>1. PICK o \in ops : KernelConnects(o) \/ KernelSends(o) \/ KernelReceives(o) \/ KernelEnds(o)
    BY <1>2 DEF Completes
  <2>2. CASE KernelConnects(o)
    BY <1>1, <2>2, PostedAwake DEF KernelConnects
  <2>3. CASE KernelSends(o)
    <3>1. PICK k \in 1 .. Len(Outgoing(o.side)) : Post(o, k)
      BY <2>3 DEF KernelSends
    <3>2. k > 0
      BY <3>1
    <3> QED BY <1>1, <2>3, <3>1, <3>2, PostedAwake DEF KernelSends
  <2>4. CASE KernelReceives(o)
    <3>1. PICK k \in 1 .. Len(wire[o.side]) : Post(o, k)
      BY <2>4 DEF KernelReceives
    <3> QED BY <1>1, <2>4, <3>1, PostedAwake DEF KernelReceives
  <2>5. CASE KernelEnds(o)
    BY <1>1, <2>5, PostedAwake DEF KernelEnds
  <2> QED BY <2>1, <2>2, <2>3, <2>4, <2>5
<1>3. ASSUME NEW o \in ops, KernelFails(o) PROVE Awake'
  BY <1>1, <1>3, PostedAwake DEF KernelFails
<1>4. CASE KernelAccepts \/ KernelAcceptsStray \/ KernelAcceptFails
  <2>1. Op("accept", "server").kind # "send"
    BY DEF Op
  <2> QED BY <1>1, <1>4, <2>1, PostedAwake DEF KernelAccepts, KernelAcceptsStray, KernelAcceptFails
<1>5. CASE StrayArrives \/ UNCHANGED vars
  <2>1. Queue' = Queue /\ UNCHANGED <<tasks, ops, fails>>
    BY <1>5 DEF StrayArrives, vars, Queue
  <2> QED BY <2>1 DEF Awake, InHand, tasks
<1>6. CASE Dispatch
  BY <1>1, <1>6, DispatchAwake DEF Dispatch
<1> QED BY <1>2, <1>3, <1>4, <1>5, <1>6 DEF Next, Kernel

(* And so it holds in every reachable state.                                *)
LEMMA InductiveAwake == Spec => [](IInv /\ Awake)
<1>1. Init => IInv /\ Awake
  BY InitIInv, InitAwake
<1>2. (IInv /\ Awake) /\ [Next]_vars => (IInv /\ Awake)'
  BY NextIInv, NextAwake
<1> QED BY <1>1, <1>2, PTL DEF Spec

-----------------------------------------------------------------------------
(* The type invariant follows.                                              *)
LEMMA InvTypeOK == IInv => TypeOK
<1> SUFFICES ASSUME IInv PROVE TypeOK
  OBVIOUS
<1>1. \A i \in DOMAIN cq : cq[i].op \in Ops /\ cq[i].res \in -1 .. WordLen + 1
  BY QueueTyped DEF IInv, Waits, InQueue
<1>2. \A side \in Sides : wire[side] \in Seq(Bytes)
  BY DEF IInv, Data
<1> QED BY <1>1, <1>2 DEF IInv, Waits, Control, Data, Bytes, TypeOK

(* The first completion of the accept is in the queue at some place.        *)
LEMMA InvOwned == IInv => OpenWhileOwned
<1>1. First \in Queue <=> \E i \in DOMAIN cq : cq[i] = Cqe(Op("accept", "server"), 1)
  BY DEF Queue, Range, First, AcceptOp
<1> QED BY <1>1 DEF IInv, Waits, Owned, OpenWhileOwned

(* The number of things of which there are no two.                          *)
LEMMA AtMostOne ==
  ASSUME NEW S, \A x, y \in S : x = y
  PROVE  Cardinality(S) = IF S = {} THEN 0 ELSE 1
<1>1. CASE S = {}
  BY <1>1, FS_EmptySet
<1>2. CASE S # {}
  <2>1. PICK x : S = {x}
    BY <1>2
  <2> QED BY <1>2, <2>1, FS_Singleton
<1> QED BY <1>1, <1>2

(* What is outstanding is counted by what is under way and what is queued.  *)
LEMMA OneOutstanding ==
  ASSUME IInv, NEW kind, NEW side, Op(kind, side) # AcceptOp
  PROVE  Outstanding(kind, side) =
           IF Op(kind, side) \in ops \/ \E q \in Queue : q.op = Op(kind, side) THEN 1 ELSE 0
<1> DEFINE op == Op(kind, side)
           under == {o \in ops : o = op}
           queued == {i \in DOMAIN cq : cq[i].op = op}
<1>1. Cardinality(under) = IF op \in ops THEN 1 ELSE 0
  <2>1. \A x, y \in under : x = y
    OBVIOUS
  <2>2. under = {} <=> op \notin ops
    OBVIOUS
  <2> QED BY <2>1, <2>2, AtMostOne
<1>2. Cardinality(queued) = IF \E q \in Queue : q.op = op THEN 1 ELSE 0
  <2>1. \A i, j \in queued : i = j
    BY DEF IInv, Waits, InQueue, Alone
  <2>2. queued = {} <=> ~ \E q \in Queue : q.op = op
    BY DEF Queue, Range
  <2> QED BY <2>1, <2>2, AtMostOne
<1>3. (\E q \in Queue : q.op = op) => op \notin ops
  BY DEF IInv, Waits, Suspended
<1>4. Outstanding(kind, side) = Cardinality(under) + Cardinality(queued)
  BY DEF Outstanding
<1> QED BY <1>1, <1>2, <1>3, <1>4

(* And it belongs to a wait.                                                *)
LEMMA InvFramed == IInv /\ Awake => OneShotsHaveTheirFrame
<1> SUFFICES ASSUME IInv, Awake PROVE OneShotsHaveTheirFrame
  OBVIOUS
<1>1. \A op : op # AcceptOp /\ (op \in ops \/ \E q \in Queue : q.op = op) => AwaitedBy(op)
  BY DEF IInv, Waits, Suspended
<1>2. ASSUME NEW kind \in {"send", "recv"}
      PROVE  /\ Outstanding(kind, "client") = (IF InHand(Op(kind, "client")) THEN 1 ELSE 0)
             /\ Outstanding(kind, "server") = (IF InHand(Op(kind, "server")) THEN 1 ELSE 0)
             /\ InHand(Op(kind, "client")) => handle_server = kind
             /\ InHand(Op(kind, "server")) => handle_client = kind
  <2>1. /\ Op(kind, "client") # AcceptOp /\ Op(kind, "server") # AcceptOp
    BY DEF Op, AcceptOp
  <2>2. /\ AwaitedBy(Op(kind, "client")) => handle_server = kind
        /\ AwaitedBy(Op(kind, "server")) => handle_client = kind
    BY DEF AwaitedBy, ConnectOp, Op
  <2> QED BY <1>1, <2>1, <2>2, OneOutstanding DEF InHand
<1>3. Outstanding("connect", "client") = IF run_client = "connect" THEN 1 ELSE 0
  <2>1. ConnectOp # AcceptOp
    BY DEF ConnectOp, Op, AcceptOp
  <2>2. AwaitedBy(ConnectOp) => run_client = "connect"
    BY DEF AwaitedBy, ConnectOp, Op
  <2>3. run_client = "connect" <=> ConnectOp \in ops \/ \E q \in Queue : q.op = ConnectOp
    BY <1>1, <2>1, <2>2 DEF IInv, Waits, Suspended
  <2> QED BY <2>1, <2>3, OneOutstanding DEF ConnectOp
<1> QED BY <1>2, <1>3 DEF OneShotsHaveTheirFrame, Awake

-----------------------------------------------------------------------------
(* The refinement.                                                          *)

(* Longer bytes that begin with others are an extension of them.            *)
LEMMA Extends ==
  ASSUME NEW s \in Seq(Bytes), NEW t \in Seq(Bytes), Len(s) < Len(t),
         \A i \in 1 .. Len(s) : t[i] = s[i]
  PROVE  Service!IsStrictPrefix(s, t)
<1>1. Len(s) \in Nat /\ Len(t) \in Nat
  OBVIOUS
<1>2. s = SubSeq(t, 1, Len(s))
  <2>1. CASE Len(s) = 0
    <3>1. s = <<>>
      BY <2>1
    <3>2. SubSeq(t, 1, 0) = <<>>
      BY SubSeqEmpty
    <3> QED BY <2>1, <3>1, <3>2
  <2>2. CASE Len(s) # 0
    <3> DEFINE n == Len(s)
               u == SubSeq(t, 1, n)
    <3>1. n \in 1 .. Len(t)
      BY <1>1, <2>2
    <3> HIDE DEF n
    <3>2. u \in Seq(Bytes) /\ Len(u) = n /\ \A i \in 1 .. n : u[i] = t[i]
      BY <3>1, Parts
    <3> HIDE DEF u
    <3>3. Len(s) = Len(u) /\ \A i \in 1 .. Len(s) : s[i] = u[i]
      BY <3>2 DEF n
    <3>4. s = u
      BY <3>2, <3>3, SeqEqual
    <3> QED BY <3>4 DEF u, n
  <2> QED BY <2>1, <2>2
<1>3. SubSeq(s, 1, Len(s)) = s
  BY SubSeqFull
<1>4. s # t
  BY <1>1
<1> QED BY <1>1, <1>2, <1>3, <1>4 DEF Service!IsStrictPrefix, Service!IsPrefix

(* A receive of the client is an Echo of the service.                       *)
LEMMA ReceiveIsEcho ==
  ASSUME IInv, NEW o \in ops, KernelReceives(o)
  PROVE  [Service!Next]_(Service!vars)
<1>1. /\ UNCHANGED <<sent, cut>>
      /\ \/ got' = got
         \/ /\ got' \in Seq(Bytes) /\ Len(got) < Len(got') /\ Len(got') <= Len(Passed)
            /\ \A i \in 1 .. Len(got) : got'[i] = got[i]
            /\ \A i \in 1 .. Len(got') : got'[i] = Passed[i]
  BY ReceivesStep
<1>2. CASE got' = got
  BY <1>1, <1>2 DEF Service!vars
<1>3. CASE got' # got
  <2> DEFINE t == got'
  <2>1. /\ t \in Seq(Bytes) /\ Len(got) < Len(t) /\ Len(t) <= Len(Passed)
        /\ \A i \in 1 .. Len(got) : t[i] = got[i]
        /\ \A i \in 1 .. Len(t) : t[i] = Passed[i]
    BY <1>1, <1>3
  <2> HIDE DEF t
  <2>2. /\ got \in Seq(Bytes) /\ InOrder(Passed, Behind)
        /\ cut = {} => Contiguous(Passed, 0)
        /\ Len(Passed) \in Nat /\ Behind \in Nat /\ Behind <= sent /\ sent \in Nat
    BY DataFacts DEF IInv, Data
  <2>3. DOMAIN t = 1 .. Len(t) /\ Len(t) \in Nat /\ \A i \in 1 .. Len(t) : i \in 1 .. Len(Passed)
    BY <2>1, <2>2
  <2>4. Service!IsStrictPrefix(got, t)
    BY <2>1, <2>2, Extends
  <2>5. Service!Range(t) \subseteq 1 .. sent
    <3> SUFFICES ASSUME NEW i \in 1 .. Len(t) PROVE t[i] \in 1 .. sent
      BY <2>3 DEF Service!Range
    <3>1. t[i] \in Nat /\ t[i] >= 1
      BY <2>1, NetworkTestAssumption DEF Bytes
    <3>2. t[i] <= Behind
      BY <2>1, <2>2, <2>3 DEF InOrder
    <3> QED BY <2>2, <3>1, <3>2
  <2>6. Service!Increasing(t)
    BY <2>1, <2>2, <2>3 DEF Service!Increasing, InOrder
  <2>7. "client" \notin cut => Service!Complete(t)
    <3> SUFFICES ASSUME "client" \notin cut, NEW i \in 1 .. Len(t) PROVE t[i] = i
      BY <2>3 DEF Service!Complete
    <3>1. cut = {}
      BY DEF IInv, Data
    <3>2. Passed[i] = 0 + i
      BY <2>2, <2>3, <3>1 DEF Contiguous
    <3> QED BY <2>1, <2>3, <3>2
  <2>8. /\ [c \in {"client"} |-> t] = [[c \in {"client"} |-> got] EXCEPT !["client"] = t]
        /\ [c \in {"client"} |-> t]["client"] = t /\ [c \in {"client"} |-> got]["client"] = got
        /\ [c \in {"client"} |-> sent]["client"] = sent
    OBVIOUS
  <2>9. Service!Echo("client")
    BY <1>1, <2>4, <2>5, <2>6, <2>7, <2>8 DEF Service!Echo, t
  <2> QED BY <2>9 DEF Service!Next
<1> QED BY <1>2, <1>3

(* A send of the client is a Send of the service, one of the server that is *)
(* short a Cut.                                                             *)
LEMMA SendIsSend ==
  ASSUME IInv, NEW o \in ops, KernelSends(o)
  PROVE  [Service!Next]_(Service!vars)
<1>1. PICK k \in 1 .. Len(Outgoing(o.side)) :
        /\ sent' = IF o.side = "client" THEN sent + k ELSE sent
        /\ cut' = IF o.side = "server" /\ k < Len(buffer) THEN {"client"} ELSE cut
  BY DEF KernelSends
<1>2. got' = got
  BY DEF KernelSends
<1>3. cut \subseteq {"client"} /\ sent \in Nat
  BY NetworkTestAssumption DEF IInv, Data
<1>4. CASE o.side = "client"
  <2>1. Len(Outgoing("client")) = WordLen /\ WordLen \in Nat
    BY NetworkTestAssumption DEF Outgoing
  <2>2. k \in Nat /\ k > 0
    BY <1>4, <2>1
  <2>3. sent' = sent + k /\ sent' > sent /\ sent' \in Nat /\ cut' = cut
    BY <1>1, <1>3, <1>4, <2>2
  <2>4. Service!Send("client")
    BY <1>2, <2>3 DEF Service!Send
  <2> QED BY <2>4 DEF Service!Next
<1>5. CASE o.side # "client"
  <2>1. sent' = sent /\ (cut' = cut \/ cut' = cut \cup {"client"})
    BY <1>1, <1>3, <1>5
  <2>2. CASE cut' = cut
    BY <1>2, <2>1, <2>2 DEF Service!vars
  <2>3. CASE cut' = cut \cup {"client"}
    <3>1. Service!Cut("client")
      BY <1>2, <2>1, <2>3 DEF Service!Cut
    <3> QED BY <3>1 DEF Service!Next
  <2> QED BY <2>1, <2>2, <2>3
<1> QED BY <1>4, <1>5

(* Every step is a step of the service or none.                             *)
LEMMA ServiceStep ==
  IInv /\ [Next]_vars => [Service!Next]_(Service!vars)
<1> SUFFICES ASSUME IInv, [Next]_vars PROVE [Service!Next]_(Service!vars)
  OBVIOUS
<1> USE DEF tasks, net
<1>1. CASE UNCHANGED <<sent, got, cut>>
  BY <1>1 DEF Service!vars
<1>2. ASSUME NEW side \in Sides, Completes(side)
      PROVE  [Service!Next]_(Service!vars)
  <2>1. PICK o \in ops : KernelConnects(o) \/ KernelSends(o) \/ KernelReceives(o) \/ KernelEnds(o)
    BY <1>2 DEF Completes
  <2> QED BY <1>1, <2>1, SendIsSend, ReceiveIsEcho DEF KernelConnects, KernelEnds
<1>3. CASE Dispatch
  BY <1>1, <1>3, DispatchStep DEF Dispatch
<1>4. CASE UNCHANGED vars
  BY <1>1, <1>4 DEF vars
<1> QED BY <1>1, <1>2, <1>3, <1>4 DEF Next, Kernel, KernelAccepts, StrayArrives,
       KernelAcceptsStray, KernelAcceptFails, KernelFails

-----------------------------------------------------------------------------
(* Every variable keeps its type; that no receive brings more than a word   *)
(* needs the account of the bytes.                                          *)
THEOREM TypeCorrect == Spec => []TypeOK
BY Inductive, InvTypeOK, PTL

(* A connect, a send or a receive that is outstanding belongs to the wait   *)
(* of the coroutine it is for: no completion of one finds a frame that is   *)
(* gone; and none is forgotten at its wait unless an operation failed.      *)
(* Nothing of the kind holds for the multishot accept (OnStaleAccept).      *)
THEOREM OneShotsFramed == Spec => []OneShotsHaveTheirFrame
BY InductiveAwake, InvFramed, PTL

(* Each end of the connection is open exactly as long as it has an owner,   *)
(* and an accept that did not fail is armed as long as run_server is there. *)
THEOREM OwnedEnds == Spec => []OpenWhileOwned
BY Inductive, InvOwned, PTL

(* The client gets back what it sent, in order and once, and without a gap  *)
(* until a send of the server is short, for words of every length.          *)
THEOREM RefinesService == Spec => ImplementsService
<1>1. Init => Service!Init
  BY DEF Init, Service!Init
<1> QED BY <1>1, ServiceStep, Inductive, PTL DEF ImplementsService, Service!Spec, Spec

=============================================================================
