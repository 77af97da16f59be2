-------------------------- MODULE EchoServerProofs --------------------------
(***************************************************************************)
(* Proofs about EchoServer, for any number of connections, bytes and       *)
(* failures and for any Period and Limit: the coroutines, the descriptors  *)
(* and the time.  What the peers get back is in EchoServiceProofs.         *)
(***************************************************************************)
EXTENDS EchoServer, FiniteSetTheorems, SequenceTheorems, TLAPS

Queue == Range(cq)
Cqes == [kind : {"accept", "recv", "send", "timer"},
         conn : Conns \cup {NoFile}, res : -1 .. MaxConns + MaxBytes]

(* What TypeOK leaves open: the queue is a sequence, the maps are functions *)
(* and a buffer holds no more than a peer sends.                            *)
Shapes ==
  /\ cq \in Seq(Cqes)
  /\ taken \in [Conns -> 0 .. MaxBytes]
  /\ echoed \in [Conns -> Seq(Conns \X (1 .. MaxBytes))]
  /\ buf \in [Conns -> Seq(Conns \X (1 .. MaxBytes))]
  /\ \A c \in Conns : Len(buf[c]) <= MaxBytes

(* No two completions of one kind are queued for a connection, a receive    *)
(* and a send being of one kind here.                                       *)
Io == {"recv", "send"}
Alike(p, q) ==
  /\ p.conn # NoFile /\ p.conn = q.conn
  /\ p.kind = q.kind \/ (p.kind \in Io /\ q.kind \in Io)
OneOfAKind == \A i, j \in DOMAIN cq : Alike(cq[i], cq[j]) => i = j

(* What the kernel or the queue holds of receives and sends is for a        *)
(* handle_client suspended at that wait, or left by one whose submit()      *)
(* threw, and there is one thing for each.                                  *)
Waits(c, kind) == hc[c] \in {kind, "gone"}
Suspended ==
  /\ \A o, p \in ops : o.conn = p.conn => o = p
  /\ \A o \in ops : Waits(o.conn, o.kind)
  /\ \A q \in Queue : q.kind \in Io =>
       /\ q.conn \in Conns
       /\ Waits(q.conn, q.kind)
       /\ \A o \in ops : o.conn # q.conn
  /\ \A c \in Conns : hc[c] = "gone" => c \in threw

(* disconnect_if_idle waits for its timer or for the completion of it, or   *)
(* left it when its submit() threw.                                         *)
TimerQueued(c) == \E q \in Queue : q.kind = "timer" /\ q.conn = c
Monitored ==
  /\ \A q \in Queue : q.kind = "timer" => q.conn \in Conns
  /\ \A c \in Conns :
       /\ dii[c] = "timer" => timer[c] # NoTimer \/ TimerQueued(c)
       /\ timer[c] # NoTimer \/ TimerQueued(c) => dii[c] \in {"timer", "lost"}
       /\ timer[c] # NoTimer => ~TimerQueued(c)
       /\ dii[c] = "lost" => c \in threw
       /\ hc[c] = "none" <=> dii[c] = "none"

(* A descriptor is open for the connection whose socket_t has it, or for    *)
(* the one whose accept completion carries it; of those that were not       *)
(* accepted yet there is no trace.                                          *)
AcceptQueued(c, x) == \E q \in Queue : q.kind = "accept" /\ q.conn = c /\ q.res = x
Descriptors ==
  /\ \A c \in Conns : fd[c] # NoFd => file[fd[c]] = c
  /\ \A x \in Fds : file[x] # NoFile => fd[file[x]] = x \/ AcceptQueued(file[x], x)
  /\ \A q \in Queue : q.kind = "accept" => q.conn <= accepted
  /\ \A q \in Queue : q.kind = "accept" /\ q.res > 0 =>
       /\ q.conn \in Conns /\ q.res \in Fds
       /\ file[q.res] = q.conn
       /\ hc[q.conn] = "none"
  /\ \A x \in Fds : file[x] <= accepted
  /\ \A c \in Conns :
       /\ hc[c] = "none" => fd[c] = NoFd
       /\ c > accepted => hc[c] = "none"
       /\ peer[c] = "away" => c > accepted

(* Each accept that was handled started a handle_client and armed one more. *)
Started == {c \in Conns : hc[c] # "none"}
ArmedByAccepts == armed <= 1 + Cardinality(Started)

(* A server that is listening has an accept armed, or a completion of one   *)
(* that it will go on with.                                                 *)
Accepting ==
  fails = 0 =>
    /\ \A q \in Queue : q.kind = "accept" => q.res > 0
    /\ ListensUnlessFailed

(* An open connection is monitored, unless a submit() for it threw; and if  *)
(* the server keeps up the timer fires in time.                             *)
InTime ==
  /\ \A c \in Conns : fd[c] # NoFd => dii[c] = "timer" \/ c \in threw
  /\ prompt /\ ~aborted => \A c \in Conns : dii[c] = "timer" =>
       /\ timer[c] # NoTimer => age[c] + timer[c] <= Limit + Period
       /\ TimerQueued(c) => age[c] <= Limit + Period

IInv ==
  /\ TypeOK
  /\ Shapes
  /\ OneOfAKind
  /\ Suspended
  /\ Monitored
  /\ MonitorOutlived
  /\ OwnConnection
  /\ Descriptors
  /\ ArmedByAccepts
  /\ Accepting
  /\ InTime

-----------------------------------------------------------------------------
(* The queue.                                                               *)

(* Posting adds one completion to the queue, and if none of its kind was    *)
(* there for its connection none is there twice.                            *)
LEMMA Posted ==
  ASSUME cq \in Seq(Cqes), OneOfAKind, NEW q \in Cqes, Post(q),
         \A p \in Queue : ~Alike(p, q)
  PROVE  /\ cq' \in Seq(Cqes)
         /\ Queue' = Queue \cup {q}
         /\ OneOfAKind'
<1>1. /\ cq' = Append(cq, q) /\ cq' \in Seq(Cqes)
      /\ Len(cq') = Len(cq) + 1 /\ Len(cq) \in Nat
      /\ DOMAIN cq = 1 .. Len(cq) /\ DOMAIN cq' = 1 .. Len(cq) + 1
      /\ cq'[Len(cq) + 1] = q
      /\ \A i \in 1 .. Len(cq) : cq'[i] = cq[i]
  BY DEF Post
<1>2. \A i \in 1 .. Len(cq) + 1 : i \in 1 .. Len(cq) \/ i = Len(cq) + 1
  BY <1>1
<1>3. Queue' = Queue \cup {q}
  BY <1>1, <1>2 DEF Queue, Range
<1>4. OneOfAKind'
  <2> SUFFICES ASSUME NEW i \in 1 .. Len(cq) + 1, NEW j \in 1 .. Len(cq) + 1,
                      Alike(cq'[i], cq'[j])
               PROVE  i = j
    BY <1>1 DEF OneOfAKind, Alike
  <2>1. \A k \in 1 .. Len(cq) : cq[k] \in Queue
    BY <1>1 DEF Queue, Range
  <2>2. Alike(cq'[j], cq'[i])
    BY DEF Alike
  <2>3. CASE i \in 1 .. Len(cq) /\ j \in 1 .. Len(cq)
    BY <1>1, <2>3 DEF OneOfAKind
  <2> QED BY <1>1, <1>2, <2>1, <2>2, <2>3
<1> QED BY <1>1, <1>3, <1>4

(* Handling takes the first completion out, and none of its kind is left    *)
(* for its connection.                                                      *)
LEMMA Taken ==
  ASSUME cq \in Seq(Cqes), OneOfAKind, NEW kind, NEW q, Handles(kind, q)
  PROVE  /\ cq' \in Seq(Cqes)
         /\ q \in Cqes /\ q.kind = kind
         /\ Queue = Queue' \cup {q}
         /\ \A p \in Queue' : ~Alike(p, q)
         /\ OneOfAKind'
<1>1. /\ cq # <<>> /\ q = Head(cq) /\ q.kind = kind /\ cq' = Tail(cq)
  BY DEF Handles
<1>2. /\ cq' \in Seq(Cqes) /\ q \in Cqes /\ q = cq[1]
      /\ Len(cq) \in Nat \ {0} /\ Len(cq') = Len(cq) - 1
      /\ DOMAIN cq = 1 .. Len(cq) /\ DOMAIN cq' = 1 .. Len(cq) - 1
      /\ \A i \in 1 .. Len(cq) - 1 : cq'[i] = cq[i + 1]
  BY <1>1, HeadTailProperties
<1>3. \A i \in 1 .. Len(cq) : i = 1 \/ (i - 1 \in 1 .. Len(cq) - 1 /\ cq[i] = cq'[i - 1])
  BY <1>2
<1>4. \A i \in 1 .. Len(cq) - 1 : i + 1 \in 1 .. Len(cq) /\ i + 1 # 1
  BY <1>2
<1>5. Queue = Queue' \cup {q}
  <2>1. /\ Queue = {cq[i] : i \in 1 .. Len(cq)}
        /\ Queue' = {cq'[i] : i \in 1 .. Len(cq) - 1}
    BY <1>2 DEF Queue, Range
  <2>2. Queue \subseteq Queue' \cup {q}
    BY <1>2, <1>3, <2>1
  <2>3. Queue' \subseteq Queue
    BY <1>2, <1>4, <2>1
  <2>4. q \in Queue
    BY <1>2, <2>1
  <2> QED BY <2>2, <2>3, <2>4
<1>6. \A p \in Queue' : ~Alike(p, q)
  <2> SUFFICES ASSUME NEW i \in 1 .. Len(cq) - 1, Alike(cq'[i], q)
               PROVE  FALSE
    BY <1>2 DEF Queue, Range
  <2>1. Alike(cq[i + 1], cq[1]) /\ i + 1 \in DOMAIN cq /\ 1 \in DOMAIN cq
    BY <1>2, <1>4
  <2> QED BY <1>4, <2>1 DEF OneOfAKind
<1>7. OneOfAKind'
  <2> SUFFICES ASSUME NEW i \in 1 .. Len(cq) - 1, NEW j \in 1 .. Len(cq) - 1,
                      Alike(cq'[i], cq'[j])
               PROVE  i = j
    BY <1>2 DEF OneOfAKind
  <2>1. /\ i + 1 \in DOMAIN cq /\ cq[i + 1] = cq'[i]
        /\ j + 1 \in DOMAIN cq /\ cq[j + 1] = cq'[j]
    BY <1>2, <1>4
  <2>2. i + 1 = j + 1
    BY ONLY <2>1, OneOfAKind, Alike(cq'[i], cq'[j]) DEF OneOfAKind
  <2> QED BY <2>2
<1> QED BY <1>1, <1>2, <1>5, <1>6, <1>7

-----------------------------------------------------------------------------
(* Min returns the smallest of some numbers.  Of 0 .. n let T be those that *)
(* all of the numbers exceed: it has as many members as Min says.           *)
LEMMA SmallestIsMin ==
  ASSUME NEW n \in Nat, NEW S \in SUBSET (1 .. n), S # {}
  PROVE  Min(S) \in S /\ \A y \in S : Min(S) <= y
<1> DEFINE T == {m \in 0 .. n : \A x \in S : m < x}
           k == Cardinality(T)
<1>1. IsFiniteSet(T) /\ k \in Nat
  <2>1. IsFiniteSet(0 .. n) /\ T \subseteq 0 .. n
    BY FS_Interval
  <2>2. IsFiniteSet(T)
    BY <2>1, FS_Subset
  <2> QED BY <2>2, FS_CardinalityType
<1>2. ASSUME NEW m \in T
      PROVE  m < k
  <2>1. 0 .. m \subseteq T
    OBVIOUS
  <2>2. IsFiniteSet(0 .. m) /\ Cardinality(0 .. m) = m + 1
    BY FS_Interval
  <2> QED BY <1>1, <2>1, <2>2, FS_Subset
<1>3. ASSUME NEW m \in 0 .. n, m \notin T
      PROVE  k <= m
  <2>1. T \subseteq 0 .. m - 1
    BY <1>3
  <2>2. IsFiniteSet(0 .. m - 1) /\ Cardinality(0 .. m - 1) = m
    BY FS_Interval
  <2> QED BY <1>1, <2>1, <2>2, FS_Subset
<1>4. n \notin T /\ k \in 0 .. n /\ k \notin T
  <2>1. n \notin T
    <3>1. PICK x : x \in S
      OBVIOUS
    <3> QED BY <3>1
  <2> QED BY <1>1, <1>2, <1>3, <2>1
<1>5. 0 \in T /\ k - 1 \in T
  <2>1. 0 \in T
    OBVIOUS
  <2>2. k - 1 \in 0 .. n
    BY <1>2, <1>4, <2>1
  <2> QED BY <1>1, <1>3, <2>1, <2>2
<1>6. k \in S /\ \A y \in S : k <= y
  <2>1. \A y \in S : k <= y
    BY <1>1, <1>5
  <2>2. PICK x \in S : x <= k
    BY <1>1, <1>4
  <2> QED BY <1>1, <2>1, <2>2
<1> QED BY <1>6 DEF Min

(* As long as a connection may still be accepted there is a descriptor for  *)
(* it: the open ones are for different connections, all accepted before.    *)
LEMMA FreeFdProperties ==
  ASSUME IInv, accepted < MaxConns
  PROVE  FreeFd \in Fds /\ file[FreeFd] = NoFile
<1> DEFINE Free == {x \in Fds : file[x] = NoFile}
<1>1. /\ MaxConns \in Nat /\ accepted \in Nat
      /\ file \in [Fds -> Conns \cup {NoFile}]
  BY EchoAssumption DEF IInv, TypeOK
<1>2. ASSUME NEW x \in Fds, NEW y \in Fds, file[x] # NoFile, file[x] = file[y]
      PROVE  x = y
  <2>1. /\ fd[file[x]] = x \/ AcceptQueued(file[x], x)
        /\ fd[file[x]] = y \/ AcceptQueued(file[x], y)
    BY <1>2 DEF IInv, Descriptors
  <2>2. ASSUME NEW z \in Fds, AcceptQueued(file[x], z)
        PROVE  fd[file[x]] = NoFd
    BY <2>2, <1>1, <1>2 DEF AcceptQueued, IInv, Descriptors, Fds, Conns, NoFile
  <2>3. ASSUME AcceptQueued(file[x], x), AcceptQueued(file[x], y)
        PROVE  x = y
    <3>1. PICK p \in Queue : p.kind = "accept" /\ p.conn = file[x] /\ p.res = x
      BY <2>3 DEF AcceptQueued
    <3>2. PICK q \in Queue : q.kind = "accept" /\ q.conn = file[x] /\ q.res = y
      BY <2>3 DEF AcceptQueued
    <3>3. PICK i \in DOMAIN cq : p = cq[i]
      BY DEF Queue, Range
    <3>4. PICK j \in DOMAIN cq : q = cq[j]
      BY DEF Queue, Range
    <3>5. i = j
      BY <3>1, <3>2, <3>3, <3>4, <1>2 DEF IInv, OneOfAKind, Alike
    <3> QED BY <3>1, <3>2, <3>3, <3>4, <3>5
  <2>4. x # NoFd /\ y # NoFd
    BY DEF Fds, NoFd
  <2> QED BY <2>1, <2>2, <2>3, <2>4
<1>3. Free # {}
  <2> SUFFICES ASSUME Free = {} PROVE FALSE
    OBVIOUS
  <2>1. /\ IsFiniteSet(Fds) /\ Cardinality(Fds) = MaxConns
        /\ IsFiniteSet(1 .. accepted) /\ Cardinality(1 .. accepted) = accepted
    BY <1>1, FS_Interval, EchoAssumption DEF Fds
  <2>2. \A x \in Fds : file[x] \in 1 .. accepted
    BY <1>1 DEF IInv, Descriptors, Conns, NoFile
  <2>3. file \in [Fds -> 1 .. accepted]
    BY <1>1, <2>2
  <2>4. \E x, y \in Fds : x # y /\ file[x] = file[y]
    <3>1. Cardinality(1 .. accepted) < Cardinality(Fds)
      BY <1>1, <2>1
    <3> QED BY ONLY <2>1, <2>3, <3>1, FS_PigeonHole
  <2> QED BY <1>2, <2>4
<1>4. Free \in SUBSET (1 .. MaxConns)
  BY DEF Fds
<1>5. FreeFd \in Free
  BY <1>1, <1>3, <1>4, SmallestIsMin DEF FreeFd
<1> QED BY <1>5

(* Some connections are finitely many, at most MaxConns.                    *)
LEMMA SomeConns ==
  ASSUME NEW S \in SUBSET Conns
  PROVE  IsFiniteSet(S) /\ Cardinality(S) \in 0 .. MaxConns
<1>1. IsFiniteSet(Conns) /\ Cardinality(Conns) = MaxConns
  BY EchoAssumption, FS_Interval DEF Conns
<1>2. IsFiniteSet(S) /\ Cardinality(S) <= MaxConns
  BY <1>1, FS_Subset
<1> QED BY <1>2, FS_CardinalityType, EchoAssumption

(* So are those whose handle_client was started.                            *)
LEMMA StartedFinite ==
  IsFiniteSet(Started) /\ Cardinality(Started) \in 0 .. MaxConns
BY SomeConns DEF Started

(* The inductive invariant holds initially.                                 *)
LEMMA InitIInv == Init => IInv
<1> SUFFICES ASSUME Init PROVE IInv
  OBVIOUS
<1> USE EchoAssumption DEF Init
<1>1. TypeOK
  <2>1. Range(cq) = {}
    BY DEF Range
  <2>2. <<>> \in Seq(Conns \X (1 .. MaxBytes))
    OBVIOUS
  <2>3. /\ timer \in [Conns -> NoTimer .. Period] /\ age \in [Conns -> 0 .. OldAge]
        /\ fd \in [Conns -> Fds \cup {NoFd}] /\ file \in [Fds -> Conns \cup {NoFile}]
    BY DEF NoTimer, OldAge
  <2>4. /\ accepted \in 0 .. MaxConns /\ fails \in 0 .. MaxFails
        /\ armed \in 0 .. MaxConns + 1 /\ throws \in 0 .. MaxThrows
    OBVIOUS
  <2>5. /\ peer \in [Conns -> {"away", "here", "gone"}]
        /\ sent \in [Conns -> 0 .. MaxBytes]
        /\ \A c \in Conns : taken[c] \in 0 .. sent[c]
        /\ \A c \in Conns : echoed[c] \in Seq(Conns \X (1 .. MaxBytes))
        /\ \A c \in Conns : buf[c] \in Seq(Conns \X (1 .. MaxBytes))
    BY <2>2
  <2> QED BY <2>1, <2>3, <2>4, <2>5 DEF TypeOK
<1>2. Shapes /\ OneOfAKind
  BY DEF Shapes, OneOfAKind
<1>3. Queue = {}
  BY DEF Queue, Range
<1>4. Suspended /\ Monitored /\ MonitorOutlived /\ OwnConnection
  BY <1>3 DEF Suspended, Monitored, MonitorOutlived, OwnConnection, TimerQueued, NoTimer
<1>5. Descriptors
  BY <1>3 DEF Descriptors, NoFd, NoFile, Conns, Fds
<1>6. ArmedByAccepts
  <2>1. Started = {}
    BY DEF Started
  <2> QED BY <2>1, FS_EmptySet DEF ArmedByAccepts
<1>7. Accepting /\ InTime
  BY <1>3 DEF Accepting, ListensUnlessFailed, InTime, TimerQueued, NoFd, NoTimer
<1> QED BY <1>1, <1>2, <1>4, <1>5, <1>6, <1>7 DEF IInv

-----------------------------------------------------------------------------
(* Peers.                                                                   *)

(* What the peers do preserves the invariant: a peer that connects was not  *)
(* accepted before.                                                         *)
LEMMA PeersStep ==
  ASSUME IInv, Peers
  PROVE  IInv'
<1> USE DEF tables, frames, program
<1>1. /\ UNCHANGED <<taken, echoed, cut, tables, armed, ops, timer, cq, frames, buf, program>>
      /\ \A c \in Conns : peer'[c] = "away" => peer[c] = "away"
      /\ peer' \in [Conns -> {"away", "here", "gone"}]
      /\ sent' \in [Conns -> 0 .. MaxBytes]
      /\ \A c \in Conns : sent[c] <= sent'[c]
  <2>1. /\ peer \in [Conns -> {"away", "here", "gone"}]
        /\ sent \in [Conns -> 0 .. MaxBytes]
    BY DEF IInv, TypeOK
  <2>2. PICK c \in Conns : Connect(c) \/ PeerSends(c) \/ PeerLeaves(c)
    BY DEF Peers
  <2>3. CASE Connect(c)
    BY <2>1, <2>3 DEF Connect
  <2>4. CASE PeerSends(c)
    BY <2>1, <2>4, EchoAssumption DEF PeerSends
  <2>5. CASE PeerLeaves(c)
    BY <2>1, <2>5 DEF PeerLeaves
  <2> QED BY <2>2, <2>3, <2>4, <2>5
<1>2. TypeOK'
  <2>1. \A c \in Conns : taken[c] \in 0 .. sent'[c]
    BY <1>1 DEF IInv, TypeOK
  <2> QED BY <1>1, <2>1 DEF IInv, TypeOK
<1>3. Shapes' /\ OneOfAKind' /\ OwnConnection' /\ ArmedByAccepts'
  BY <1>1 DEF IInv, Shapes, OneOfAKind, OwnConnection, ArmedByAccepts, Started
<1>4. Suspended' /\ Monitored' /\ MonitorOutlived' /\ InTime'
  BY <1>1 DEF IInv, Suspended, Waits, Monitored, MonitorOutlived, InTime, TimerQueued, Queue
<1>5. Descriptors' /\ Accepting'
  BY <1>1 DEF IInv, Descriptors, AcceptQueued, Queue, Accepting, ListensUnlessFailed, Listening
<1> QED BY <1>2, <1>3, <1>4, <1>5 DEF IInv

(* A second that passes is one less for the timers and one more for the     *)
(* ages; when the server keeps up no timer is due then.                     *)
LEMMA TickStep ==
  ASSUME IInv, Tick
  PROVE  IInv'
<1> USE DEF net, tables, program
<1>1. /\ UNCHANGED <<net, tables, program, armed, ops, cq, hc, dii, fd, buf>>
      /\ timer' = [c \in Conns |-> IF timer[c] > 0 THEN timer[c] - 1 ELSE timer[c]]
      /\ age' = [c \in Conns |->
                   IF hc[c] # "none" /\ age[c] < OldAge THEN age[c] + 1 ELSE age[c]]
      /\ prompt /\ ~aborted => ~Due
  BY DEF Tick
<1>2. /\ \A c \in Conns : timer[c] \in NoTimer .. Period /\ age[c] \in 0 .. OldAge
      /\ Period \in Nat /\ Limit \in Nat
  BY EchoAssumption DEF IInv, TypeOK
<1>3. /\ timer' \in [Conns -> NoTimer .. Period]
      /\ age' \in [Conns -> 0 .. OldAge]
      /\ \A c \in Conns : timer'[c] = NoTimer <=> timer[c] = NoTimer
      /\ \A c \in Conns : age'[c] <= age[c] + 1
      /\ \A c \in Conns : timer[c] > 0 => timer'[c] = timer[c] - 1
  BY <1>1, <1>2 DEF NoTimer, OldAge
<1>4. TypeOK'
  BY <1>1, <1>3 DEF IInv, TypeOK
<1>5. Shapes' /\ OneOfAKind' /\ OwnConnection' /\ ArmedByAccepts'
  BY <1>1 DEF IInv, Shapes, OneOfAKind, OwnConnection, ArmedByAccepts, Started
<1>6. Suspended' /\ Monitored' /\ MonitorOutlived'
  BY <1>1, <1>3 DEF IInv, Suspended, Waits, Monitored, MonitorOutlived, TimerQueued, Queue
<1>7. Descriptors' /\ Accepting'
  BY <1>1 DEF IInv, Descriptors, AcceptQueued, Queue, Accepting, ListensUnlessFailed, Listening
<1>8. InTime'
  <2>1. ASSUME prompt, ~aborted, NEW c \in Conns, dii[c] = "timer"
        PROVE  /\ timer'[c] # NoTimer => age'[c] + timer'[c] <= Limit + Period
               /\ ~TimerQueued(c)'
    <3>1. cq = <<>> /\ timer[c] # 0
      BY <1>1, <2>1 DEF Due
    <3>2. ~TimerQueued(c)'
      BY <1>1, <3>1 DEF TimerQueued, Queue, Range
    <3>3. timer[c] # NoTimer => timer[c] > 0 /\ age[c] + timer[c] <= Limit + Period
      BY <1>2, <2>1, <3>1 DEF IInv, InTime, NoTimer
    <3>4. age'[c] \in Int /\ timer'[c] \in Int
      BY <1>3 DEF NoTimer, OldAge
    <3> QED BY <1>2, <1>3, <3>2, <3>3, <3>4 DEF NoTimer, OldAge
  <2>2. \A c \in Conns : fd[c] # NoFd => dii[c] = "timer" \/ c \in threw
    BY DEF IInv, InTime
  <2> QED BY <1>1, <2>1, <2>2 DEF InTime
<1> QED BY <1>4, <1>5, <1>6, <1>7, <1>8 DEF IInv

(* run_echo_server starts to listen, or ends.                               *)
LEMMA ListenStep ==
  ASSUME IInv, Listens \/ ListenFails
  PROVE  IInv'
<1> USE DEF net, tables, frames
<1>1. /\ UNCHANGED <<net, accepted, file, throws, threw, aborted, prompt, ops, timer, cq, frames, buf>>
      /\ server' \in {"up", "ended"}
      /\ server' = "up" => armed' = 1 /\ fails' = fails
      /\ server' = "ended" => fails' # 0
      /\ armed' \in {1, armed} /\ fails' \in 0 .. MaxFails
  BY EchoAssumption DEF Listens, ListenFails, IInv, TypeOK
<1>2. TypeOK'
  <2>1. armed' \in 0 .. MaxConns + 1 /\ fails' \in 0 .. MaxFails
    BY <1>1, EchoAssumption DEF IInv, TypeOK
  <2>2. Range(cq)' = Range(cq)
    BY <1>1
  <2> QED BY <1>1, <2>1, <2>2 DEF IInv, TypeOK
<1>3. Shapes' /\ OneOfAKind' /\ OwnConnection'
  BY <1>1 DEF IInv, Shapes, OneOfAKind, OwnConnection
<1>4. Suspended' /\ Monitored' /\ MonitorOutlived' /\ InTime'
  BY <1>1 DEF IInv, Suspended, Waits, Monitored, MonitorOutlived, InTime, TimerQueued, Queue
<1>5. Descriptors' /\ Accepting'
  BY <1>1 DEF IInv, Descriptors, AcceptQueued, Queue, Accepting, ListensUnlessFailed, Listening
<1>6. ArmedByAccepts'
  <2>1. IsFiniteSet(Started) /\ Started' = Started
    BY <1>1, StartedFinite DEF Started
  <2>2. Cardinality(Started) \in Nat
    BY StartedFinite
  <2> QED BY <1>1, <2>1, <2>2 DEF IInv, ArmedByAccepts
<1> QED BY <1>2, <1>3, <1>4, <1>5, <1>6 DEF IInv

-----------------------------------------------------------------------------
(* The kernel.                                                              *)

(* The end of a receive or a send: what was in the kernel is in the queue.  *)
LEMMA Completed ==
  ASSUME IInv, NEW o \in ops, NEW k \in -1 .. MaxBytes,
         Post(Cqe(o.kind, o.conn, k)), ops' = ops \ {o},
         UNCHANGED <<peer, tables, armed, timer, frames, program>>
  PROVE  /\ cq' \in Seq(Cqes)
         /\ Queue' = Queue \cup {Cqe(o.kind, o.conn, k)}
         /\ OneOfAKind' /\ Suspended' /\ Monitored' /\ MonitorOutlived'
         /\ OwnConnection' /\ Descriptors' /\ ArmedByAccepts'
         /\ Accepting' /\ InTime'
<1> USE DEF tables, frames, program
<1> DEFINE q == Cqe(o.kind, o.conn, k)
<1>1. /\ q \in Cqes
      /\ q.kind = o.kind /\ q.conn = o.conn
      /\ o.kind \in {"recv", "send"} /\ o.conn \in Conns
  BY EchoAssumption DEF IInv, TypeOK, Cqe, Cqes
<1>2. \A p \in Queue : ~Alike(p, q)
  BY <1>1 DEF IInv, Suspended, Alike, Io
<1>3. /\ cq' \in Seq(Cqes) /\ Queue' = Queue \cup {q} /\ OneOfAKind'
  BY <1>1, <1>2, Posted DEF IInv, Shapes
<1> HIDE DEF q
<1>4. Suspended'
  BY <1>1, <1>3 DEF IInv, Suspended, Waits
<1>5. Monitored' /\ MonitorOutlived' /\ InTime'
  <2>1. \A c \in Conns : TimerQueued(c)' <=> TimerQueued(c)
    BY <1>1, <1>3 DEF TimerQueued
  <2>2. \A p \in Queue' : p.kind = "timer" => p \in Queue
    BY <1>1, <1>3
  <2> QED BY <2>1, <2>2 DEF IInv, Monitored, MonitorOutlived, InTime
<1>6. OwnConnection' /\ ArmedByAccepts'
  BY DEF IInv, OwnConnection, ArmedByAccepts, Started
<1>7. Descriptors' /\ Accepting'
  <2>1. \A p : p.kind = "accept" => (p \in Queue' <=> p \in Queue)
    BY <1>1, <1>3
  <2>2. \A c, x : AcceptQueued(c, x)' <=> AcceptQueued(c, x)
    BY <2>1 DEF AcceptQueued
  <2>3. Descriptors'
    BY <2>1, <2>2 DEF IInv, Descriptors
  <2>4. Listening' <=> Listening
    BY <2>1 DEF Listening, Queue
  <2> QED BY <2>1, <2>3, <2>4 DEF IInv, Accepting, ListensUnlessFailed
<1> QED BY <1>3, <1>4, <1>5, <1>6, <1>7 DEF q

(* A receive takes bytes its peer sent, no more than there are.             *)
LEMMA ReceivesStep ==
  ASSUME IInv, NEW o \in ops, KernelReceives(o)
  PROVE  IInv'
<1> USE DEF tables, frames, program
<1>1. /\ o.kind = "recv" /\ o.file \in Conns /\ o.conn \in Conns
      /\ ops' = ops \ {o}
      /\ UNCHANGED <<peer, sent, echoed, cut, tables, armed, timer, frames, program>>
  BY DEF KernelReceives, IInv, TypeOK
<1>2. PICK k \in 1 .. sent[o.file] - taken[o.file] :
        /\ buf' = [buf EXCEPT ![o.conn] = [i \in 1 .. k |-> <<o.file, taken[o.file] + i>>]]
        /\ taken' = [taken EXCEPT ![o.file] = @ + k]
        /\ Post(Cqe("recv", o.conn, k))
  BY DEF KernelReceives
<1>3. /\ taken \in [Conns -> 0 .. MaxBytes] /\ sent \in [Conns -> 0 .. MaxBytes]
      /\ buf \in [Conns -> Seq(Conns \X (1 .. MaxBytes))]
      /\ \A c \in Conns : taken[c] <= sent[c] /\ Len(buf[c]) <= MaxBytes
      /\ MaxBytes \in Nat
  <2>1. taken \in [Conns -> 0 .. MaxBytes] /\ sent \in [Conns -> 0 .. MaxBytes]
    BY DEF IInv, TypeOK, Shapes
  <2>2. ASSUME NEW c \in Conns PROVE taken[c] <= sent[c]
    <3>1. taken[c] \in 0 .. sent[c] /\ sent[c] \in 0 .. MaxBytes
      BY DEF IInv, TypeOK
    <3> QED BY <3>1
  <2>3. /\ buf \in [Conns -> Seq(Conns \X (1 .. MaxBytes))]
        /\ \A c \in Conns : Len(buf[c]) <= MaxBytes
    BY DEF IInv, Shapes
  <2> QED BY <2>1, <2>2, <2>3, EchoAssumption
<1>4. /\ k \in 1 .. MaxBytes /\ k \in -1 .. MaxBytes
      /\ taken[o.file] + k <= sent[o.file]
      /\ taken[o.file] \in Nat /\ sent[o.file] \in 0 .. MaxBytes
  BY <1>1, <1>2, <1>3
<1>5. /\ taken' \in [Conns -> 0 .. MaxBytes]
      /\ \A c \in Conns : taken'[c] \in 0 .. sent[c]
  <2>1. \A c \in Conns : taken'[c] = IF c = o.file THEN taken[c] + k ELSE taken[c]
    BY <1>1, <1>2, <1>3
  <2>2. ASSUME NEW c \in Conns
        PROVE  taken'[c] \in 0 .. sent[c] /\ taken'[c] \in 0 .. MaxBytes
    <3>1. taken[c] \in Nat /\ taken[c] <= sent[c] /\ sent[c] \in 0 .. MaxBytes
      BY <1>3
    <3>2. CASE c = o.file
      <4>1. taken'[c] = taken[c] + k /\ taken[c] + k <= sent[c]
        BY <1>4, <2>1, <3>2
      <4>2. k \in Nat /\ MaxBytes \in Nat
        BY <1>3, <1>4
      <4> QED BY ONLY <3>1, <4>1, <4>2
    <3>3. CASE c # o.file
      BY <1>3, <2>1, <3>1, <3>3
    <3> QED BY <3>2, <3>3
  <2>3. taken' = [c \in Conns |-> taken'[c]]
    BY <1>2, <1>3
  <2> QED BY ONLY <2>2, <2>3
<1>6. /\ buf' \in [Conns -> Seq(Conns \X (1 .. MaxBytes))]
      /\ \A c \in Conns : Len(buf'[c]) <= MaxBytes
  <2> DEFINE b == [i \in 1 .. k |-> <<o.file, taken[o.file] + i>>]
  <2>1. ASSUME NEW i \in 1 .. k
        PROVE  <<o.file, taken[o.file] + i>> \in Conns \X (1 .. MaxBytes)
    <3>1. taken[o.file] + i \in 1 .. MaxBytes
      BY <1>3, <1>4
    <3> QED BY <1>1, <3>1
  <2>2. b \in Seq(Conns \X (1 .. MaxBytes)) /\ Len(b) = k
    BY <1>4, <2>1
  <2> HIDE DEF b
  <2>3. buf' = [buf EXCEPT ![o.conn] = b]
    BY <1>2 DEF b
  <2>4. buf' \in [Conns -> Seq(Conns \X (1 .. MaxBytes))]
    BY <1>1, <1>3, <2>2, <2>3
  <2>5. ASSUME NEW c \in Conns
        PROVE  Len(buf'[c]) <= MaxBytes
    <3>1. buf'[c] = IF c = o.conn THEN b ELSE buf[c]
      BY <1>3, <2>3
    <3> QED BY <1>3, <1>4, <2>2, <3>1
  <2> QED BY <2>4, <2>5
<1>7. /\ cq' \in Seq(Cqes)
      /\ OneOfAKind' /\ Suspended' /\ Monitored' /\ MonitorOutlived'
      /\ OwnConnection' /\ Descriptors' /\ ArmedByAccepts'
      /\ Accepting' /\ InTime'
  BY <1>1, <1>2, <1>4, Completed
<1>8. Shapes'
  BY <1>1, <1>5, <1>6, <1>7 DEF IInv, Shapes
<1>9. TypeOK'
  <2>1. Range(cq') \subseteq Cqes
    BY <1>7 DEF Range
  <2> QED BY <1>1, <1>5, <1>6, <2>1 DEF IInv, TypeOK, Cqes
<1> QED BY <1>7, <1>8, <1>9 DEF IInv

(* A send gives the peer a part of what the buffer holds, or loses it.      *)
LEMMA SendsStep ==
  ASSUME IInv, NEW o \in ops, KernelSends(o)
  PROVE  IInv'
<1> USE DEF tables, frames, program
<1>1. /\ o.kind = "send" /\ o.file \in Conns /\ o.conn \in Conns
      /\ ops' = ops \ {o}
      /\ UNCHANGED <<peer, sent, taken, tables, armed, timer, frames, buf, program>>
  BY DEF KernelSends, IInv, TypeOK
<1>2. PICK k \in 1 .. Len(buf[o.conn]) :
        /\ echoed' = IF peer[o.file] = "here"
                     THEN [echoed EXCEPT ![o.file] = @ \o SubSeq(buf[o.conn], 1, k)]
                     ELSE echoed
        /\ cut' = IF k < Len(buf[o.conn]) THEN cut \cup {o.file} ELSE cut
        /\ Post(Cqe("send", o.conn, k))
  BY DEF KernelSends
<1>3. /\ echoed \in [Conns -> Seq(Conns \X (1 .. MaxBytes))]
      /\ buf[o.conn] \in Seq(Conns \X (1 .. MaxBytes))
      /\ Len(buf[o.conn]) \in Nat /\ Len(buf[o.conn]) <= MaxBytes
      /\ MaxBytes \in Nat /\ cut \subseteq Conns
  <2>1. /\ echoed \in [Conns -> Seq(Conns \X (1 .. MaxBytes))]
        /\ buf[o.conn] \in Seq(Conns \X (1 .. MaxBytes))
        /\ Len(buf[o.conn]) <= MaxBytes
    BY <1>1 DEF IInv, Shapes
  <2>2. MaxBytes \in Nat /\ cut \subseteq Conns
    BY EchoAssumption DEF IInv, TypeOK
  <2>3. Len(buf[o.conn]) \in Nat
    BY <2>1
  <2> QED BY <2>1, <2>2, <2>3
<1>4. k \in -1 .. MaxBytes
  <2>1. k \in 1 .. Len(buf[o.conn])
    BY <1>2
  <2> QED BY ONLY <1>3, <2>1
<1>5. echoed' \in [Conns -> Seq(Conns \X (1 .. MaxBytes))] /\ cut' \subseteq Conns
  <2> DEFINE S == Conns \X (1 .. MaxBytes)
             part == SubSeq(buf[o.conn], 1, k)
  <2>1. part \in Seq(S)
    <3>1. \A i \in 1 .. k : i \in 1 .. Len(buf[o.conn])
      BY <1>2, <1>3
    <3>2. \A i \in 1 .. Len(buf[o.conn]) : buf[o.conn][i] \in S
      BY <1>3
    <3>3. \A i \in 1 .. k : buf[o.conn][i] \in S
      BY <3>1, <3>2
    <3> QED BY <1>2, <1>3, <3>3, SubSeqProperties
  <2>2. \A c \in Conns : echoed[c] \o part \in Seq(S)
    BY <1>3, <2>1
  <2> HIDE DEF part, S
  <2>3. echoed' = IF peer[o.file] = "here"
                  THEN [echoed EXCEPT ![o.file] = @ \o part] ELSE echoed
    BY <1>2 DEF part
  <2>4. echoed' \in [Conns -> Seq(S)]
    BY <1>1, <1>3, <2>2, <2>3 DEF S
  <2> QED BY <1>1, <1>2, <1>3, <2>4 DEF S
<1>6. /\ cq' \in Seq(Cqes)
      /\ OneOfAKind' /\ Suspended' /\ Monitored' /\ MonitorOutlived'
      /\ OwnConnection' /\ Descriptors' /\ ArmedByAccepts'
      /\ Accepting' /\ InTime'
  BY <1>1, <1>2, <1>4, Completed
<1>7. Shapes'
  BY <1>1, <1>5, <1>6 DEF IInv, Shapes
<1>8. TypeOK'
  <2>1. Range(cq') \subseteq Cqes
    BY <1>6 DEF Range
  <2> QED BY <1>1, <1>5, <2>1 DEF IInv, TypeOK, Cqes
<1> QED BY <1>6, <1>7, <1>8 DEF IInv

(* An end of file, or an operation that fails.                              *)
LEMMA EndsStep ==
  ASSUME IInv, NEW o \in ops, KernelEnds(o) \/ KernelFails(o)
  PROVE  IInv'
<1> USE DEF net, tables, frames, program
<1>1. /\ ops' = ops \ {o}
      /\ UNCHANGED <<net, tables, armed, timer, frames, buf, program>>
      /\ \E k \in -1 .. MaxBytes : Post(Cqe(o.kind, o.conn, k))
  <2>1. 0 \in -1 .. MaxBytes /\ -1 \in -1 .. MaxBytes
    BY EchoAssumption
  <2>2. Post(Cqe(o.kind, o.conn, 0)) \/ Post(Cqe(o.kind, o.conn, -1))
    BY DEF KernelEnds, KernelFails
  <2> QED BY <2>1, <2>2 DEF KernelEnds, KernelFails
<1>2. /\ cq' \in Seq(Cqes)
      /\ OneOfAKind' /\ Suspended' /\ Monitored' /\ MonitorOutlived'
      /\ OwnConnection' /\ Descriptors' /\ ArmedByAccepts'
      /\ Accepting' /\ InTime'
  BY <1>1, Completed
<1>3. Shapes'
  BY <1>1, <1>2 DEF IInv, Shapes
<1>4. TypeOK'
  <2>1. Range(cq') \subseteq Cqes
    BY <1>2 DEF Range
  <2> QED BY <1>1, <2>1 DEF IInv, TypeOK, Cqes
<1> QED BY <1>2, <1>3, <1>4 DEF IInv

(* A timer that fires leaves its completion in the queue instead.           *)
LEMMA FiresStep ==
  ASSUME IInv, NEW c \in Conns, TimerFires(c)
  PROVE  IInv'
<1> USE DEF net, tables, frames, program
<1> DEFINE q == Cqe("timer", c, -1)
<1>1. /\ timer[c] = 0
      /\ timer' = [timer EXCEPT ![c] = NoTimer]
      /\ Post(q)
      /\ UNCHANGED <<net, tables, armed, ops, frames, buf, program>>
      /\ timer \in [Conns -> NoTimer .. Period]
  BY DEF TimerFires, IInv, TypeOK
<1>2. q \in Cqes /\ q.kind = "timer" /\ q.conn = c /\ timer[c] # NoTimer
  BY <1>1, EchoAssumption DEF Cqe, Cqes, NoTimer
<1>3. \A p \in Queue : ~Alike(p, q)
  BY <1>2 DEF IInv, Monitored, TimerQueued, Alike, Io
<1>4. /\ cq' \in Seq(Cqes) /\ Queue' = Queue \cup {q} /\ OneOfAKind'
  BY <1>1, <1>2, <1>3, Posted DEF IInv, Shapes
<1> HIDE DEF q
<1>5. /\ timer' \in [Conns -> NoTimer .. Period]
      /\ \A d \in Conns : timer'[d] = IF d = c THEN NoTimer ELSE timer[d]
  BY <1>1, EchoAssumption DEF NoTimer
<1>6. TypeOK' /\ Shapes'
  <2>1. Range(cq') \subseteq Cqes
    BY <1>4 DEF Range
  <2>2. TypeOK'
    BY <1>1, <1>5, <2>1 DEF IInv, TypeOK, Cqes
  <2> QED BY <1>1, <1>4, <2>2 DEF IInv, Shapes
<1>7. Suspended' /\ OwnConnection' /\ ArmedByAccepts' /\ MonitorOutlived'
  BY <1>1, <1>2, <1>4
     DEF IInv, Suspended, Waits, Io, OwnConnection, ArmedByAccepts, Started, MonitorOutlived
<1>8. Monitored' /\ InTime'
  <2>1. \A d \in Conns : TimerQueued(d)' <=> TimerQueued(d) \/ d = c
    BY <1>2, <1>4 DEF TimerQueued
  <2>2. Monitored'
    BY <1>1, <1>2, <1>4, <1>5, <2>1 DEF IInv, Monitored
  <2>3. prompt /\ ~aborted /\ dii[c] = "timer" => age[c] <= Limit + Period
    <3>1. age[c] \in Nat
      BY DEF IInv, TypeOK
    <3> QED BY <1>1, <1>2, <3>1 DEF IInv, InTime
  <2>4. InTime'
    BY <1>1, <1>5, <2>1, <2>3 DEF IInv, InTime
  <2> QED BY <2>2, <2>4
<1>9. Descriptors' /\ Accepting'
  <2>1. \A p : p.kind = "accept" => (p \in Queue' <=> p \in Queue)
    BY <1>2, <1>4
  <2>2. \A d, x : AcceptQueued(d, x)' <=> AcceptQueued(d, x)
    BY <2>1 DEF AcceptQueued
  <2>3. Descriptors'
    BY <1>1, <2>1, <2>2 DEF IInv, Descriptors
  <2>4. Listening' <=> Listening
    BY <1>1, <2>1 DEF Listening, Queue
  <2> QED BY <1>1, <2>1, <2>3, <2>4 DEF IInv, Accepting, ListensUnlessFailed
<1> QED BY <1>4, <1>6, <1>7, <1>8, <1>9 DEF IInv

(* A connection that is accepted gets the smallest free descriptor; until   *)
(* on_accept is called the completion carries it.                           *)
LEMMA AcceptsStep ==
  ASSUME IInv, NEW more \in BOOLEAN, KernelAccepts(more)
  PROVE  IInv'
<1> USE DEF net, frames, program
<1> DEFINE c == accepted + 1
           x == FreeFd
           q == Cqe("accept", c, x)
<1>1. /\ armed > 0
      /\ peer[c] # "away"
      /\ file' = [file EXCEPT ![x] = c]
      /\ Post(q)
      /\ accepted' = c
      /\ armed' \in {armed, armed - 1}
      /\ UNCHANGED <<net, fails, ops, timer, frames, buf, program>>
  BY DEF KernelAccepts
<1>2. x \in Fds /\ file[x] = NoFile
  BY FreeFdProperties DEF KernelAccepts
<1>3. /\ accepted \in Nat /\ accepted < MaxConns /\ c \in Conns
      /\ armed \in 0 .. MaxConns + 1 /\ MaxConns \in Nat
      /\ file \in [Fds -> Conns \cup {NoFile}]
  BY EchoAssumption DEF KernelAccepts, IInv, TypeOK, Conns
<1> HIDE DEF c, x
<1>4. /\ q \in Cqes
      /\ q.kind = "accept" /\ q.conn = c /\ q.res = x /\ q.res > 0
  BY <1>2, <1>3, EchoAssumption DEF Cqe, Cqes, Fds
<1>5. \A p \in Queue : ~Alike(p, q)
  <2> SUFFICES ASSUME NEW p \in Queue, p.kind = "accept", p.conn = c
               PROVE  FALSE
    BY <1>4 DEF Alike, Io
  <2>1. c <= accepted
    BY DEF IInv, Descriptors
  <2> QED BY <1>3, <2>1 DEF c
<1>6. /\ cq' \in Seq(Cqes) /\ Queue' = Queue \cup {q} /\ OneOfAKind'
  BY <1>1, <1>4, <1>5, Posted DEF IInv, Shapes
<1> HIDE DEF q
<1>7. /\ file' \in [Fds -> Conns \cup {NoFile}]
      /\ \A y \in Fds : file'[y] = IF y = x THEN c ELSE file[y]
  BY <1>1, <1>2, <1>3
<1>8. TypeOK' /\ Shapes'
  <2>1. Range(cq') \subseteq Cqes
    BY <1>6 DEF Range
  <2>2. armed' \in 0 .. MaxConns + 1 /\ accepted' \in 0 .. MaxConns
    BY <1>1, <1>3 DEF Conns
  <2>3. TypeOK'
    BY <1>1, <1>7, <2>1, <2>2 DEF IInv, TypeOK, Cqes
  <2> QED BY <1>1, <1>6, <2>3 DEF IInv, Shapes
<1>9. Suspended' /\ OwnConnection' /\ MonitorOutlived'
  BY <1>1, <1>4, <1>6 DEF IInv, Suspended, Waits, Io, OwnConnection, MonitorOutlived
<1>10. Monitored' /\ InTime'
  <2>1. \A d \in Conns : TimerQueued(d)' <=> TimerQueued(d)
    BY <1>4, <1>6 DEF TimerQueued
  <2> QED BY <1>1, <1>4, <1>6, <2>1 DEF IInv, Monitored, InTime
<1>11. ArmedByAccepts'
  BY <1>1, <1>3, StartedFinite DEF IInv, ArmedByAccepts, Started
<1>12. Accepting'
  BY <1>1, <1>4, <1>6 DEF IInv, Accepting, ListensUnlessFailed, Listening, Queue
<1>13. Descriptors'
  <2>1. \A d \in Conns : fd'[d] # NoFd => file'[fd'[d]] = d
    BY <1>1, <1>2, <1>7 DEF IInv, Descriptors, TypeOK, NoFile, Conns
  <2>2. ASSUME NEW y \in Fds, NEW d, d = file'[y], d # NoFile
        PROVE  fd'[d] = y \/ AcceptQueued(d, y)'
    <3>1. CASE y = x
      BY <1>4, <1>6, <1>7, <2>2, <3>1 DEF AcceptQueued
    <3>2. CASE y # x
      <4>1. fd[d] = y \/ AcceptQueued(d, y)
        BY <1>7, <2>2, <3>2 DEF IInv, Descriptors
      <4>2. AcceptQueued(d, y) => AcceptQueued(d, y)'
        BY <1>6 DEF AcceptQueued
      <4> QED BY <1>1, <4>1, <4>2
    <3> QED BY <3>1, <3>2
  <2>3. ASSUME NEW p \in Queue', p.kind = "accept", p.res > 0
        PROVE  /\ p.conn \in Conns /\ p.res \in Fds
               /\ file'[p.res] = p.conn
               /\ hc'[p.conn] = "none"
    <3>1. CASE p = q
      <4>1. hc[c] = "none"
        BY <1>3 DEF IInv, Descriptors, c
      <4> QED BY <1>1, <1>2, <1>3, <1>4, <1>7, <3>1, <4>1
    <3>2. CASE p # q
      <4>1. /\ p.conn \in Conns /\ p.res \in Fds
            /\ file[p.res] = p.conn
            /\ hc[p.conn] = "none"
        BY <1>6, <2>3, <3>2 DEF IInv, Descriptors
      <4>2. p.res # x
        BY <1>2, <4>1 DEF NoFile, Conns
      <4> QED BY <1>1, <1>7, <4>1, <4>2
    <3> QED BY <3>1, <3>2
  <2>4. \A y \in Fds : file'[y] <= accepted'
    <3>1. \A y \in Fds : file[y] <= accepted /\ file[y] \in Int
      BY <1>3 DEF IInv, Descriptors, Conns, NoFile
    <3> QED BY <1>1, <1>3, <1>7, <3>1 DEF c
  <2>5. ASSUME NEW d \in Conns
        PROVE  /\ hc'[d] = "none" => fd'[d] = NoFd
               /\ d > accepted' => hc'[d] = "none"
               /\ peer'[d] = "away" => d > accepted'
    <3>1. /\ hc[d] = "none" => fd[d] = NoFd
          /\ d > accepted => hc[d] = "none"
          /\ peer[d] = "away" => d > accepted
      BY DEF IInv, Descriptors
    <3>2. d \in Int
      BY DEF Conns
    <3> QED BY <1>1, <1>3, <3>1, <3>2 DEF c
  <2>6. ASSUME NEW p \in Queue', p.kind = "accept"
        PROVE  p.conn <= accepted'
    <3>1. p = q \/ (p \in Queue /\ p.conn <= accepted /\ p.conn \in Int)
      <4>1. \A r \in Queue : r.conn \in Int
        BY DEF IInv, TypeOK, Queue, Conns, NoFile
      <4> QED BY <1>6, <2>6, <4>1 DEF IInv, Descriptors
    <3> QED BY <1>1, <1>3, <1>4, <3>1 DEF c
  <2> QED BY <2>1, <2>2, <2>3, <2>4, <2>5, <2>6 DEF Descriptors
<1> QED BY <1>6, <1>8, <1>9, <1>10, <1>11, <1>12, <1>13 DEF IInv

(* An accept that ends with an error disarms it; it carries no descriptor.  *)
LEMMA AcceptFailsStep ==
  ASSUME IInv, KernelAcceptFails
  PROVE  IInv'
<1> USE DEF net, frames, program
<1> DEFINE q == Cqe("accept", NoFile, -1)
<1>1. /\ armed > 0 /\ armed' = armed - 1
      /\ fails' = fails + 1 /\ fails < MaxFails
      /\ Post(q)
      /\ UNCHANGED <<net, accepted, file, ops, timer, frames, buf, program>>
  BY DEF KernelAcceptFails
<1>2. /\ q \in Cqes
      /\ q.kind = "accept" /\ q.conn = NoFile /\ ~(q.res > 0)
  BY EchoAssumption DEF Cqe, Cqes
<1>3. /\ cq' \in Seq(Cqes) /\ Queue' = Queue \cup {q} /\ OneOfAKind'
  BY <1>1, <1>2, Posted DEF IInv, Shapes, Alike
<1> HIDE DEF q
<1>4. TypeOK' /\ Shapes'
  <2>1. Range(cq') \subseteq Cqes
    BY <1>3 DEF Range
  <2>2. armed' \in 0 .. MaxConns + 1 /\ fails' \in 0 .. MaxFails
    BY <1>1, EchoAssumption DEF IInv, TypeOK
  <2>3. TypeOK'
    BY <1>1, <2>1, <2>2 DEF IInv, TypeOK, Cqes
  <2> QED BY <1>1, <1>3, <2>3 DEF IInv, Shapes
<1>5. Suspended' /\ OwnConnection' /\ MonitorOutlived'
  BY <1>1, <1>2, <1>3 DEF IInv, Suspended, Waits, Io, OwnConnection, MonitorOutlived
<1>6. Monitored' /\ InTime'
  <2>1. \A d \in Conns : TimerQueued(d)' <=> TimerQueued(d)
    BY <1>2, <1>3 DEF TimerQueued
  <2> QED BY <1>1, <1>2, <1>3, <2>1 DEF IInv, Monitored, InTime
<1>7. ArmedByAccepts'
  <2>1. armed \in Int /\ Started' = Started
    BY <1>1 DEF IInv, TypeOK, Started
  <2> QED BY <1>1, <2>1, StartedFinite DEF IInv, ArmedByAccepts
<1>8. Accepting'
  BY <1>1 DEF IInv, TypeOK, Accepting
<1>9. Descriptors'
  <2>1. \A d, x : AcceptQueued(d, x) => AcceptQueued(d, x)'
    BY <1>3 DEF AcceptQueued
  <2>2. q.conn <= accepted
    BY <1>2 DEF IInv, TypeOK, NoFile
  <2>3. /\ \A x \in Fds : file[x] # NoFile => fd[file[x]] = x \/ AcceptQueued(file[x], x)
        /\ \A p \in Queue' : p.kind = "accept" => p.conn <= accepted
    BY <1>2, <1>3, <2>2 DEF IInv, Descriptors
  <2>4. ASSUME NEW x \in Fds, NEW d, d = file[x], d # NoFile
        PROVE  fd[d] = x \/ AcceptQueued(d, x)'
    BY <2>1, <2>3, <2>4
  <2> QED BY <1>1, <1>2, <1>3, <2>3, <2>4 DEF IInv, Descriptors
<1> QED BY <1>3, <1>4, <1>5, <1>6, <1>7, <1>8, <1>9 DEF IInv

-----------------------------------------------------------------------------
(* The handlers.                                                            *)

(* A completion that is handled has left the queue.                         *)
LEMMA Handled ==
  ASSUME IInv, NEW kind, NEW q, Handles(kind, q)
  PROVE  /\ cq' \in Seq(Cqes) /\ Range(cq') \subseteq Cqes
         /\ q \in Queue /\ q \in Cqes /\ q.kind = kind
         /\ Queue = Queue' \cup {q}
         /\ \A p \in Queue' : ~Alike(p, q)
         /\ OneOfAKind'
<1>1. /\ cq' \in Seq(Cqes)
      /\ q \in Cqes /\ q.kind = kind
      /\ Queue = Queue' \cup {q}
      /\ \A p \in Queue' : ~Alike(p, q)
      /\ OneOfAKind'
  BY Taken DEF IInv, Shapes
<1> QED BY <1>1 DEF Range

(* An accepted connection gets its handle_client, which owns the descriptor *)
(* now and is the only one to wait for it, and its disconnect_if_idle;      *)
(* whatever submit() throws, that much is right.                            *)
LEMMA AcceptedStep ==
  ASSUME IInv, NEW q, OnAccept(q), q.res > 0
  PROVE  IInv'
<1> DEFINE c == q.conn
           x == q.res
           o == Op("recv", c, c)
<1>1. /\ cq' \in Seq(Cqes) /\ Range(cq') \subseteq Cqes
      /\ q \in Queue /\ q \in Cqes /\ q.kind = "accept"
      /\ Queue = Queue' \cup {q}
      /\ \A p \in Queue' : ~Alike(p, q)
      /\ OneOfAKind'
  BY Handled DEF OnAccept
<1>2. /\ c \in Conns /\ x \in Fds /\ c # NoFile /\ c <= accepted
      /\ file[x] = c /\ hc[c] = "none" /\ fd[c] = NoFd
  BY <1>1 DEF IInv, Descriptors, Conns, NoFile
<1>3. /\ dii[c] = "none" /\ timer[c] = NoTimer /\ ~TimerQueued(c)
      /\ \A p \in ops : p.conn # c
      /\ \A p \in Queue : p.kind \in Io => p.conn # c
      /\ \A p \in Queue' : p.kind = "accept" => p.conn # c
  <2>1. dii[c] = "none" /\ timer[c] = NoTimer /\ ~TimerQueued(c)
    BY <1>2 DEF IInv, Monitored
  <2>2. \A p \in ops : p.conn # c
    BY <1>2 DEF IInv, Suspended, Waits, TypeOK
  <2>3. \A p \in Queue : p.kind \in Io => p.conn # c
    BY <1>2 DEF IInv, Suspended, Waits, Io
  <2>4. \A p \in Queue' : p.kind = "accept" => p.conn # c
    BY <1>1, <1>2 DEF Alike
  <2> QED BY <2>1, <2>2, <2>3, <2>4
<1>4. PICK h \in {"recv", "gone"}, d \in {"timer", "lost"} :
        /\ hc' = [hc EXCEPT ![c] = h]
        /\ dii' = [dii EXCEPT ![c] = d]
        /\ UNCHANGED <<net, accepted, fails, server, prompt, buf>>
        /\ age' = [age EXCEPT ![c] = 0]
        /\ timer' = [timer EXCEPT ![c] = Period]
        /\ ops' = ops \cup {o}
        /\ armed' = armed + 1
        /\ \/ file' = file /\ fd' = [fd EXCEPT ![c] = x]
           \/ /\ file' = [y \in Fds |-> IF y = x THEN NoFile ELSE file[y]]
              /\ fd' = [fd EXCEPT ![c] = NoFd]
        /\ h = "gone" \/ d = "lost" => c \in threw'
        /\ threw' \in {threw, threw \cup {c}}
        /\ throws' \in 0 .. MaxThrows
        /\ aborted' \in {aborted, TRUE}
  <2>1. FileOf(x) = c
    BY <1>2 DEF FileOf, Fds, NoFd
  <2>2. PICK m \in 0 .. 1, n \in 0 .. 2 :
          /\ HandleClient(c, x, m, n) /\ AcceptAgain
          /\ UNCHANGED <<net, accepted, fails, server, prompt, buf>>
    BY <1>1, EchoAssumption DEF OnAccept, Cqes
  <2>3. /\ throws' \in 0 .. MaxThrows
        /\ threw' \in {threw, threw \cup {c}}
        /\ m = 1 \/ n = 1 \/ n = 2 => c \in threw'
    <3>1. throws \in 0 .. MaxThrows
      BY DEF IInv, TypeOK
    <3> QED BY <2>2, <3>1, EchoAssumption DEF HandleClient, Throw
  <2>4. /\ timer' = [timer EXCEPT ![c] = Period]
        /\ \E d \in {"timer", "lost"} :
             dii' = [dii EXCEPT ![c] = d] /\ (d = "lost" => c \in threw')
    BY <2>2, <2>3 DEF HandleClient, StartTimer
  <2>5. /\ ops' = ops \cup {o}
        /\ \E h \in {"recv", "gone"} :
             hc' = [hc EXCEPT ![c] = h] /\ (h = "gone" => c \in threw')
        /\ \/ file' = file /\ fd' = [fd EXCEPT ![c] = x]
           \/ /\ file' = [y \in Fds |-> IF y = x THEN NoFile ELSE file[y]]
              /\ fd' = [fd EXCEPT ![c] = NoFd]
        /\ aborted' \in {aborted, TRUE}
    BY <2>1, <2>2, <2>3 DEF HandleClient, Receive, Await, Submitted, Unwound, Terminated, Close
  <2> QED BY <2>2, <2>3, <2>4, <2>5 DEF HandleClient, AcceptAgain
<1>5. /\ o.kind = "recv" /\ o.conn = c /\ o.file = c
      /\ o \in [kind : {"recv", "send"}, conn : Conns, file : Conns \cup {NoFile}]
  BY <1>2 DEF Op
<1> HIDE DEF o, c, x
<1> USE DEF net
<1>6. /\ hc \in [Conns -> {"none", "recv", "send", "await", "stale", "gone"}]
      /\ dii \in [Conns -> {"none", "timer", "gone", "lost"}]
      /\ fd \in [Conns -> Fds \cup {NoFd}]
      /\ file \in [Fds -> Conns \cup {NoFile}]
      /\ timer \in [Conns -> NoTimer .. Period]
      /\ age \in [Conns -> 0 .. OldAge]
      /\ threw \subseteq Conns /\ aborted \in BOOLEAN
  BY DEF IInv, TypeOK
<1>7. /\ \A e \in Conns : hc'[e] = IF e = c THEN h ELSE hc[e]
      /\ \A e \in Conns : dii'[e] = IF e = c THEN d ELSE dii[e]
      /\ \A e \in Conns : timer'[e] = IF e = c THEN Period ELSE timer[e]
      /\ \A e \in Conns : age'[e] = IF e = c THEN 0 ELSE age[e]
  BY <1>4, <1>6
<1>8. /\ Period # NoTimer /\ Period \in NoTimer .. Period /\ 0 \in 0 .. OldAge
      /\ Period \in Nat /\ Limit \in Nat
  BY EchoAssumption DEF NoTimer, OldAge
<1>9. ArmedByAccepts' /\ armed' \in 0 .. MaxConns + 1
  <2>1. Started' = Started \cup {c} /\ c \notin Started
    BY <1>2, <1>7 DEF Started
  <2>2. /\ IsFiniteSet(Started)
        /\ Cardinality(Started \cup {c}) = Cardinality(Started) + 1
    BY <2>1, StartedFinite, FS_AddElement
  <2>3. Cardinality(Started \cup {c}) \in 0 .. MaxConns
    BY <1>2, SomeConns DEF Started
  <2>4. armed \in Nat /\ armed <= 1 + Cardinality(Started)
    BY DEF IInv, TypeOK, ArmedByAccepts
  <2>5. Cardinality(Started) \in Nat
    BY <2>2, FS_CardinalityType
  <2> QED BY <1>4, <2>1, <2>2, <2>3, <2>4, <2>5, EchoAssumption DEF ArmedByAccepts
<1>10. (* The descriptor is with cs, or closed. *)
       /\ fd' \in [Conns -> Fds \cup {NoFd}]
       /\ file' \in [Fds -> Conns \cup {NoFile}]
       /\ \A e \in Conns \ {c} : fd'[e] = fd[e]
       /\ \A y \in Fds \ {x} : file'[y] = file[y]
       /\ (fd'[c] = x /\ file'[x] = c) \/ (fd'[c] = NoFd /\ file'[x] = NoFile)
  BY <1>2, <1>4, <1>6
<1>11. TypeOK'
  <2>1. /\ hc' \in [Conns -> {"none", "recv", "send", "await", "stale", "gone"}]
        /\ dii' \in [Conns -> {"none", "timer", "gone", "lost"}]
        /\ timer' \in [Conns -> NoTimer .. Period]
        /\ age' \in [Conns -> 0 .. OldAge]
        /\ threw' \subseteq Conns /\ aborted' \in BOOLEAN
    BY <1>2, <1>4, <1>6, <1>8
  <2>2. ops' \subseteq [kind : {"recv", "send"}, conn : Conns, file : Conns \cup {NoFile}]
    BY <1>4, <1>5 DEF IInv, TypeOK
  <2>3. Range(cq') \subseteq Cqes
    BY <1>1 DEF IInv, TypeOK, Cqes
  <2> QED BY <1>1, <1>4, <1>9, <1>10, <2>1, <2>2, <2>3 DEF IInv, TypeOK, Cqes
<1>12. Shapes'
  BY <1>1, <1>4 DEF IInv, Shapes
<1>13. Suspended'
  <2>1. \A p \in Queue' : p \in Queue
    BY <1>1
  <2>2. \A p \in ops : p.conn \in Conns
    BY DEF IInv, TypeOK
  <2>3. \A p \in ops' : Waits(p.conn, p.kind)'
    BY <1>2, <1>3, <1>4, <1>5, <1>7, <2>2 DEF IInv, Suspended, Waits
  <2>4. \A p, r \in ops' : p.conn = r.conn => p = r
    BY <1>3, <1>4, <1>5 DEF IInv, Suspended
  <2>5. \A p \in Queue' : p.kind \in Io =>
          /\ p.conn \in Conns
          /\ Waits(p.conn, p.kind)'
          /\ \A r \in ops' : r.conn # p.conn
    BY <1>3, <1>4, <1>5, <1>7, <2>1 DEF IInv, Suspended, Waits
  <2>6. \A e \in Conns : hc'[e] = "gone" => e \in threw'
    BY <1>4, <1>7 DEF IInv, Suspended
  <2> QED BY <2>3, <2>4, <2>5, <2>6 DEF Suspended
<1>14. Monitored' /\ MonitorOutlived' /\ InTime'
  <2>1. \A p : p.kind = "timer" => (p \in Queue' <=> p \in Queue)
    BY <1>1
  <2>2. \A e \in Conns : TimerQueued(e)' <=> TimerQueued(e)
    BY <2>1 DEF TimerQueued
  <2>3. Monitored'
    BY <1>3, <1>4, <1>7, <1>8, <2>1, <2>2 DEF IInv, Monitored
  <2>4. MonitorOutlived'
    BY <1>4, <1>7 DEF IInv, MonitorOutlived
  <2>5. \A e \in Conns : fd'[e] # NoFd => dii'[e] = "timer" \/ e \in threw'
    BY <1>4, <1>7, <1>10 DEF IInv, InTime
  <2>6. InTime'
    <3>1. ASSUME prompt', ~aborted', NEW e \in Conns, dii'[e] = "timer"
          PROVE  /\ timer'[e] # NoTimer => age'[e] + timer'[e] <= Limit + Period
                 /\ TimerQueued(e)' => age'[e] <= Limit + Period
      <4>1. CASE e = c
        BY <1>3, <1>7, <1>8, <2>2, <4>1
      <4>2. CASE e # c
        <5>1. prompt /\ ~aborted /\ dii[e] = "timer"
          BY <1>4, <1>6, <1>7, <3>1, <4>2
        <5> QED BY <1>7, <2>2, <4>2, <5>1 DEF IInv, InTime
      <4> QED BY <4>1, <4>2
    <3> QED BY <2>5, <3>1 DEF InTime
  <2> QED BY <2>3, <2>4, <2>6
<1>15. OwnConnection'
  BY <1>4, <1>5 DEF IInv, OwnConnection
<1>16. Accepting'
  BY <1>1, <1>4, EchoAssumption DEF Accepting, ListensUnlessFailed, Listening, IInv, TypeOK
<1>17. Descriptors'
  <2>1. ASSUME NEW e \in Conns, fd'[e] # NoFd
        PROVE  file'[fd'[e]] = e
    <3>1. CASE e = c
      BY <1>2, <1>10, <2>1, <3>1 DEF Fds, NoFd
    <3>2. CASE e # c
      BY <1>2, <1>10, <2>1, <3>2, <1>6 DEF IInv, Descriptors
    <3> QED BY <3>1, <3>2
  <2>2. ASSUME NEW y \in Fds, NEW e, e = file'[y], e # NoFile
        PROVE  fd'[e] = y \/ AcceptQueued(e, y)'
    <3>1. CASE y = x
      BY <1>10, <2>2, <3>1
    <3>2. CASE y # x
      <4>1. e \in Conns /\ (fd[e] = y \/ AcceptQueued(e, y)) /\ y # NoFd
        <5>1. e = file[y]
          BY <1>10, <2>2, <3>2
        <5>2. e \in Conns
          BY <1>6, <2>2, <5>1
        <5>3. fd[e] = y \/ AcceptQueued(e, y)
          BY <2>2, <5>1 DEF IInv, Descriptors
        <5> QED BY <5>2, <5>3 DEF Fds, NoFd
      <4>2. CASE e = c
        <5>1. PICK p \in Queue : p.kind = "accept" /\ p.conn = c /\ p.res = y
          BY <1>2, <4>1, <4>2 DEF AcceptQueued
        <5> QED BY <1>1, <1>3, <3>2, <5>1 DEF x
      <4>3. CASE e # c
        BY <1>1, <1>10, <4>1, <4>3 DEF AcceptQueued, c
      <4> QED BY <4>2, <4>3
    <3> QED BY <3>1, <3>2
  <2>3. ASSUME NEW p \in Queue', p.kind = "accept", p.res > 0
        PROVE  /\ p.conn \in Conns /\ p.res \in Fds
               /\ file'[p.res] = p.conn
               /\ hc'[p.conn] = "none"
    <3>1. /\ p.conn \in Conns /\ p.res \in Fds
          /\ file[p.res] = p.conn /\ hc[p.conn] = "none" /\ p.conn # c
      BY <1>1, <1>3, <2>3 DEF IInv, Descriptors
    <3> QED BY <1>2, <1>7, <1>10, <3>1
  <2>4. \A e \in Conns :
          /\ hc'[e] = "none" => fd'[e] = NoFd
          /\ e > accepted => hc'[e] = "none"
          /\ peer[e] = "away" => e > accepted
    BY <1>2, <1>7, <1>10 DEF IInv, TypeOK, Descriptors, Conns
  <2>5. \A y \in Fds : file'[y] <= accepted
    <3>1. accepted \in Nat /\ \A y \in Fds : file[y] <= accepted
      BY DEF IInv, TypeOK, Descriptors
    <3> QED BY <1>2, <1>10, <3>1 DEF NoFile
  <2>6. \A p \in Queue' : p.kind = "accept" => p.conn <= accepted
    BY <1>1 DEF IInv, Descriptors
  <2> QED BY <1>4, <2>1, <2>2, <2>3, <2>4, <2>5, <2>6 DEF Descriptors
<1> QED BY <1>1, <1>9, <1>11, <1>12, <1>13, <1>14, <1>15, <1>16, <1>17 DEF IInv

(* An accept that failed resumes nobody.                                    *)
LEMMA RefusedStep ==
  ASSUME IInv, NEW q, OnAccept(q), q.res <= 0
  PROVE  IInv'
<1> USE DEF net, tables, frames, program
<1>1. /\ cq' \in Seq(Cqes) /\ Range(cq') \subseteq Cqes
      /\ q \in Queue /\ q \in Cqes /\ q.kind = "accept"
      /\ Queue = Queue' \cup {q}
      /\ OneOfAKind'
  BY Handled DEF OnAccept
<1>2. ~(q.res > 0)
  BY <1>1, EchoAssumption DEF OnAccept, Cqes
<1>3. UNCHANGED <<net, tables, armed, ops, timer, frames, buf, program>>
  BY <1>2 DEF OnAccept
<1>4. TypeOK' /\ Shapes'
  BY <1>1, <1>3 DEF IInv, TypeOK, Shapes, Cqes
<1>5. Suspended' /\ OwnConnection' /\ MonitorOutlived' /\ ArmedByAccepts'
  BY <1>1, <1>3 DEF IInv, Suspended, Waits, Io, OwnConnection, MonitorOutlived, ArmedByAccepts,
     Started
<1>6. Monitored' /\ InTime'
  <2>1. \A d \in Conns : TimerQueued(d)' <=> TimerQueued(d)
    BY <1>1 DEF TimerQueued
  <2> QED BY <1>1, <1>3, <2>1 DEF IInv, Monitored, InTime
<1>7. Descriptors'
  <2>1. ASSUME NEW d, NEW x \in Fds, AcceptQueued(d, x)
        PROVE  AcceptQueued(d, x)'
    <3>1. q.res # x
      BY <1>1, EchoAssumption DEF OnAccept, Fds, Cqes
    <3> QED BY <1>1, <2>1, <3>1 DEF AcceptQueued
  <2>2. ASSUME NEW x \in Fds, NEW d, d = file[x], d # NoFile
        PROVE  fd[d] = x \/ AcceptQueued(d, x)'
    <3>1. fd[d] = x \/ AcceptQueued(d, x)
      BY <2>2 DEF IInv, Descriptors
    <3> QED BY <2>1, <3>1
  <2> QED BY <1>1, <1>3, <2>2 DEF IInv, Descriptors
<1>8. (* None does when no accept failed. *)
      Accepting'
  BY <1>1, <1>2, <1>3 DEF IInv, Accepting
<1> QED BY <1>1, <1>4, <1>5, <1>6, <1>7, <1>8 DEF IInv

(* Closing the connection of c, or not, leaves the other descriptors alone. *)
LEMMA ClosedDescriptors ==
  ASSUME IInv, NEW c \in Conns, hc[c] # "none",
         UNCHANGED <<file, fd>> \/ Close(c, fd[c]),
         \A p : p.kind = "accept" => (p \in Queue' <=> p \in Queue),
         \A e \in Conns : hc'[e] = "none" <=> hc[e] = "none",
         UNCHANGED <<peer, accepted>>
  PROVE  /\ file' \in [Fds -> Conns \cup {NoFile}]
         /\ fd' \in [Conns -> Fds \cup {NoFd}]
         /\ \A e \in Conns : fd'[e] # NoFd => fd'[e] = fd[e]
         /\ Descriptors'
<1>1. /\ fd \in [Conns -> Fds \cup {NoFd}]
      /\ file \in [Fds -> Conns \cup {NoFile}]
  BY DEF IInv, TypeOK
<1>2. /\ file' \in [Fds -> Conns \cup {NoFile}]
      /\ fd' \in [Conns -> Fds \cup {NoFd}]
      /\ \A d \in Conns : fd'[d] = fd[d] \/ (d = c /\ fd'[d] = NoFd)
      /\ \A x \in Fds : file'[x] = file[x] \/ (x = fd[c] /\ fd'[c] = NoFd /\ file'[x] = NoFile)
      /\ \A x \in Fds : x = fd[c] /\ fd'[c] = NoFd => file'[x] = NoFile
  <2>1. CASE Close(c, fd[c])
    BY <1>1, <2>1 DEF Close
  <2>2. CASE UNCHANGED <<file, fd>>
    <3>1. fd[c] # NoFd \/ fd[c] \notin Fds
      BY DEF Fds, NoFd
    <3> QED BY <1>1, <2>2, <3>1
  <2> QED BY <2>1, <2>2
<1>3. \A d, x : AcceptQueued(d, x)' <=> AcceptQueued(d, x)
  BY DEF AcceptQueued
<1>4. ASSUME NEW d \in Conns, fd'[d] # NoFd
      PROVE  file'[fd'[d]] = d
  <2>1. fd[d] \in Fds /\ fd'[d] = fd[d] /\ file[fd[d]] = d
    BY <1>1, <1>2, <1>4 DEF IInv, Descriptors
  <2>2. file'[fd[d]] = file[fd[d]]
    <3> SUFFICES ASSUME fd[d] = fd[c], fd'[c] = NoFd PROVE FALSE
      BY <1>2, <2>1
    <3>1. d = c
      BY <1>4, <2>1 DEF IInv, Descriptors
    <3> QED BY <1>4, <3>1
  <2> QED BY <2>1, <2>2
<1>5. ASSUME NEW x \in Fds, NEW d, d = file'[x], d # NoFile
      PROVE  fd'[d] = x \/ AcceptQueued(d, x)'
  <2>1. d = file[x] /\ d \in Conns /\ ~(x = fd[c] /\ fd'[c] = NoFd)
    BY <1>1, <1>2, <1>5
  <2>2. fd[d] = x \/ AcceptQueued(d, x)
    BY <1>5, <2>1 DEF IInv, Descriptors
  <2> QED BY <1>2, <1>3, <2>1, <2>2
<1>6. ASSUME NEW p \in Queue', p.kind = "accept", p.res > 0
      PROVE  /\ p.conn \in Conns /\ p.res \in Fds
             /\ file'[p.res] = p.conn
             /\ hc'[p.conn] = "none"
  <2>1. /\ p.conn \in Conns /\ p.res \in Fds
        /\ file[p.res] = p.conn /\ hc[p.conn] = "none" /\ fd[p.conn] = NoFd
    BY <1>6 DEF IInv, Descriptors
  <2>2. ~(p.res = fd[c])
    <3> SUFFICES ASSUME p.res = fd[c] PROVE FALSE
      OBVIOUS
    <3>1. fd[c] # NoFd
      BY <2>1 DEF Fds, NoFd
    <3>2. p.conn = c
      BY <2>1, <3>1 DEF IInv, Descriptors
    <3> QED BY <2>1, <3>2
  <2> QED BY <1>2, <2>1, <2>2
<1>7. \A x \in Fds : file'[x] <= accepted
  <2>1. accepted \in Nat /\ \A x \in Fds : file[x] <= accepted
    BY DEF IInv, TypeOK, Descriptors
  <2> QED BY <1>2, <2>1 DEF NoFile
<1>8. /\ \A p \in Queue' : p.kind = "accept" => p.conn <= accepted
      /\ \A d \in Conns : /\ hc'[d] = "none" => fd'[d] = NoFd
                          /\ d > accepted => hc'[d] = "none"
                          /\ peer[d] = "away" => d > accepted
  BY <1>2 DEF IInv, Descriptors
<1>9. \A e \in Conns : fd'[e] # NoFd => fd'[e] = fd[e]
  BY <1>2
<1> QED BY <1>2, <1>4, <1>5, <1>6, <1>7, <1>8, <1>9 DEF Descriptors

(* handle_client of c goes on when its receive or its send is handled: it   *)
(* waits at h then, and if it waits for an operation that is the only one;  *)
(* or submit() throws, it is gone and may have closed the connection.  One  *)
(* that is gone stays so.                                                   *)
LEMMA ResumedStep ==
  ASSUME IInv, NEW kind \in Io, NEW q, Handles(kind, q),
         NEW c, c = q.conn, NEW h \in {"recv", "send", "await", "stale", "gone"},
         h = "stale" => dii[c] # "timer",
         h = "gone" => c \in threw',
         hc' = [hc EXCEPT ![c] = h],
         \/ ops' = ops
         \/ \E k \in Io : h \in {k, "gone"} /\ ops' = ops \cup {Op(k, c, FileOf(fd[c]))},
         UNCHANGED <<file, fd>> \/ Close(c, fd[c]),
         age' \in [Conns -> 0 .. OldAge], \A d \in Conns : age'[d] <= age[d],
         aborted' \in BOOLEAN, aborted => aborted',
         threw' \in {threw, threw \cup {c}}, throws' \in 0 .. MaxThrows,
         UNCHANGED <<net, accepted, fails, server, prompt, armed, timer, dii, buf>>
  PROVE  IInv'
<1> USE DEF net
<1>1. /\ cq' \in Seq(Cqes) /\ Range(cq') \subseteq Cqes
      /\ q \in Queue /\ q \in Cqes /\ q.kind = kind
      /\ Queue = Queue' \cup {q}
      /\ \A p \in Queue' : ~Alike(p, q)
      /\ OneOfAKind'
  BY Handled
<1>2. /\ c \in Conns /\ c # NoFile /\ hc[c] \in {kind, "gone"}
      /\ \A p \in ops : p.conn # c
  <2>1. c \in Conns /\ hc[c] \in {kind, "gone"} /\ \A p \in ops : p.conn # c
    BY <1>1 DEF IInv, Suspended, Waits
  <2> QED BY <2>1 DEF Conns, NoFile
<1>3. \A p \in Queue' : p.kind \in Io => p.conn # c
  BY <1>1, <1>2 DEF Alike
<1>4. /\ hc \in [Conns -> {"none", "recv", "send", "await", "stale", "gone"}]
      /\ hc' \in [Conns -> {"none", "recv", "send", "await", "stale", "gone"}]
      /\ \A d \in Conns : hc'[d] = IF d = c THEN h ELSE hc[d]
      /\ \A d \in Conns : hc'[d] = "none" <=> hc[d] = "none"
      /\ hc[c] # "none"
  BY <1>2 DEF IInv, TypeOK, Io
<1>5. ASSUME NEW p \in ops', p \notin ops
      PROVE  /\ h \in {p.kind, "gone"} /\ p.kind \in Io /\ p.conn = c
             /\ p.file \in {c, NoFile}
             /\ ops' = ops \cup {p}
  <2>1. FileOf(fd[c]) \in {c, NoFile}
    BY <1>2 DEF IInv, Descriptors, FileOf
  <2>2. PICK k \in Io : h \in {k, "gone"} /\ ops' = ops \cup {Op(k, c, FileOf(fd[c]))}
    BY <1>5
  <2> QED BY <1>5, <2>1, <2>2 DEF Op
<1>6. ops' \subseteq [kind : {"recv", "send"}, conn : Conns, file : Conns \cup {NoFile}]
  <2>1. FileOf(fd[c]) \in {c, NoFile}
    BY <1>2 DEF IInv, Descriptors, FileOf
  <2> QED BY <1>2, <2>1 DEF IInv, TypeOK, Op, Io
<1>7. \A p : p.kind = "accept" => (p \in Queue' <=> p \in Queue)
  BY <1>1 DEF Io
<1>8. /\ file' \in [Fds -> Conns \cup {NoFile}]
      /\ fd' \in [Conns -> Fds \cup {NoFd}]
      /\ \A e \in Conns : fd'[e] # NoFd => fd'[e] = fd[e]
      /\ Descriptors'
  BY <1>2, <1>4, <1>7, ClosedDescriptors
<1>9. threw \subseteq threw' /\ threw' \subseteq Conns
  BY <1>2 DEF IInv, TypeOK
<1>10. TypeOK'
  BY <1>1, <1>4, <1>6, <1>8, <1>9 DEF IInv, TypeOK, Cqes
<1>11. Shapes' /\ Accepting'
  <2>1. Listening' <=> Listening
    BY <1>7 DEF Listening, Queue
  <2> QED BY <1>1, <1>7, <2>1 DEF IInv, Shapes, Accepting, ListensUnlessFailed
<1>12. Suspended'
  <2>1. \A p \in ops' : \/ p \in ops /\ p.conn # c /\ p.conn \in Conns
                        \/ p.conn = c /\ h \in {p.kind, "gone"}
    BY <1>2, <1>5 DEF IInv, TypeOK
  <2>2. ASSUME NEW p \in ops', NEW r \in ops', p.conn = r.conn
        PROVE  p = r
    <3>1. CASE p \in ops /\ r \in ops
      BY <2>2, <3>1 DEF IInv, Suspended
    <3>2. CASE p \notin ops
      BY <1>2, <1>5, <2>2, <3>2
    <3>3. CASE r \notin ops
      BY <1>2, <1>5, <2>2, <3>3
    <3> QED BY <3>1, <3>2, <3>3
  <2>3. \A p \in ops' : Waits(p.conn, p.kind)'
    BY <1>2, <1>4, <2>1 DEF IInv, Suspended, Waits
  <2>4. \A p \in Queue' : p.kind \in Io =>
          /\ p.conn \in Conns
          /\ Waits(p.conn, p.kind)'
          /\ \A r \in ops' : r.conn # p.conn
    BY <1>1, <1>3, <1>4, <2>1 DEF IInv, Suspended, Waits
  <2>5. \A d \in Conns : hc'[d] = "gone" => d \in threw'
    BY <1>4, <1>9 DEF IInv, Suspended
  <2> QED BY <2>2, <2>3, <2>4, <2>5 DEF Suspended
<1>13. Monitored' /\ MonitorOutlived' /\ InTime'
  <2>1. \A p : p.kind = "timer" => (p \in Queue' <=> p \in Queue)
    BY <1>1 DEF Io
  <2>2. \A d \in Conns : TimerQueued(d)' <=> TimerQueued(d)
    BY <2>1 DEF TimerQueued
  <2>3. Monitored'
    BY <1>4, <1>9, <2>1, <2>2 DEF IInv, Monitored
  <2>4. MonitorOutlived'
    BY <1>4, <1>9 DEF IInv, MonitorOutlived
  <2>5. ASSUME prompt', ~aborted', NEW d \in Conns, dii[d] = "timer"
        PROVE  /\ timer'[d] # NoTimer => age'[d] + timer'[d] <= Limit + Period
               /\ TimerQueued(d)' => age'[d] <= Limit + Period
    <3>1. /\ timer[d] # NoTimer => age[d] + timer[d] <= Limit + Period
          /\ TimerQueued(d) => age[d] <= Limit + Period
      BY <2>5 DEF IInv, InTime
    <3>2. age'[d] \in Int /\ age[d] \in Int /\ age'[d] <= age[d] /\ timer[d] \in Int
      <4>1. age[d] \in 0 .. OldAge /\ age'[d] \in 0 .. OldAge
        BY DEF IInv, TypeOK
      <4>2. timer[d] \in NoTimer .. Period
        BY DEF IInv, TypeOK
      <4> QED BY <4>1, <4>2
    <3> QED BY <2>2, <3>1, <3>2, EchoAssumption
  <2>6. \A d \in Conns : fd'[d] # NoFd => dii[d] = "timer" \/ d \in threw'
    BY <1>8, <1>9 DEF IInv, InTime
  <2> QED BY <2>3, <2>4, <2>5, <2>6 DEF InTime
<1>14. OwnConnection'
  BY <1>5 DEF IInv, OwnConnection
<1>15. ArmedByAccepts'
  <2>1. Started' = Started
    BY <1>4 DEF Started
  <2> QED BY <2>1 DEF IInv, ArmedByAccepts
<1> QED BY <1>1, <1>8, <1>10, <1>11, <1>12, <1>13, <1>14, <1>15 DEF IInv

(* The outcomes of a wait for kind on the descriptor of c.                  *)
LEMMA AwaitOutcomes ==
  ASSUME IInv, ~aborted, NEW kind \in Io, NEW c, c \in Conns, NEW n \in 0 .. 2,
         Await(kind, c, fd[c], n), Throwing(c, n)
  PROVE  /\ \E h \in {kind, "gone"} :
              /\ hc' = [hc EXCEPT ![c] = h]
              /\ h = "gone" => c \in threw'
         /\ ops' = ops \cup {Op(kind, c, FileOf(fd[c]))}
         /\ UNCHANGED <<file, fd>> \/ (Close(c, fd[c]) /\ hc'[c] = "gone")
         /\ aborted' \in BOOLEAN
         /\ threw' \in {threw, threw \cup {c}}
         /\ throws' \in 0 .. MaxThrows
<1>1. /\ throws' \in 0 .. MaxThrows
      /\ threw' \in {threw, threw \cup {c}}
      /\ n = 1 \/ n = 2 => c \in threw'
  <2>1. throws \in 0 .. MaxThrows
    BY DEF IInv, TypeOK
  <2> QED BY <2>1, EchoAssumption DEF Throwing, Throw
<1>2. /\ fd \in [Conns -> Fds \cup {NoFd}] /\ aborted \in BOOLEAN
      /\ hc \in [Conns -> {"none", "recv", "send", "await", "stale", "gone"}]
      /\ [fd EXCEPT ![c] = fd[c]] = fd
  BY DEF IInv, TypeOK
<1>3. ops' = ops \cup {Op(kind, c, FileOf(fd[c]))}
  BY DEF Await
<1>4. CASE n = 0 /\ Submitted(kind, c, fd[c])
  BY <1>1, <1>2, <1>3, <1>4 DEF Submitted, Io
<1>5. CASE n = 1 /\ Unwound(c, fd[c])
  <2>1. hc'[c] = "gone"
    BY <1>2, <1>5 DEF Unwound
  <2> QED BY <1>1, <1>2, <1>3, <1>5, <2>1 DEF Unwound
<1>6. CASE n = 2 /\ Terminated(c, fd[c])
  BY <1>1, <1>2, <1>3, <1>6 DEF Terminated
<1> QED BY <1>4, <1>5, <1>6 DEF Await

(* At co_await dii handle_client is suspended for good.                     *)
LEMMA AwaitDiiOutcomes ==
  ASSUME IInv, NEW c, AwaitDii(c)
  PROVE  \E h \in {"await", "stale"} :
           /\ hc' = [hc EXCEPT ![c] = h]
           /\ h = "stale" => dii[c] # "timer"
           /\ aborted' \in BOOLEAN
BY DEF AwaitDii, IInv, TypeOK

(* What stays leaves the others where they are.                             *)
LEMMA Stays ==
  ASSUME IInv, NEW kind \in Io, NEW q, Handles(kind, q)
  PROVE  /\ q.conn \in Conns
         /\ hc[q.conn] \in {kind, "gone"}
         /\ hc[q.conn] = "gone" => q.conn \in threw
         /\ hc = [hc EXCEPT ![q.conn] = hc[q.conn]]
         /\ throws \in 0 .. MaxThrows /\ aborted \in BOOLEAN
         /\ age \in [Conns -> 0 .. OldAge] /\ \A d \in Conns : age[d] <= age[d]
<1>1. q \in Queue /\ q.kind = kind
  BY Handled
<1>2. age \in [Conns -> 0 .. OldAge] /\ \A d \in Conns : age[d] <= age[d]
  BY EchoAssumption DEF IInv, TypeOK, OldAge
<1> QED BY <1>1, <1>2 DEF IInv, Suspended, Waits, TypeOK

(* on_recv resumes handle_client, which sends back or ends.                 *)
LEMMA RecvStep ==
  ASSUME IInv, ~aborted, NEW q, OnRecv(q)
  PROVE  IInv'
<1> DEFINE c == q.conn
<1>1. /\ Handles("recv", q) /\ "recv" \in Io /\ "send" \in Io
      /\ UNCHANGED <<net, accepted, fails, server, prompt, armed, timer, dii, buf>>
  BY DEF OnRecv, Io
<1>2. /\ c \in Conns /\ hc[c] \in {"recv", "gone"} /\ (hc[c] = "gone" => c \in threw)
      /\ hc = [hc EXCEPT ![c] = hc[c]] /\ throws \in 0 .. MaxThrows /\ aborted \in BOOLEAN
      /\ age \in [Conns -> 0 .. OldAge] /\ \A d \in Conns : age[d] <= age[d]
  BY <1>1, Stays
<1> HIDE DEF c
<1>3. CASE /\ age' = [age EXCEPT ![c] = 0]
           /\ \E n \in 0 .. 2 : SendBack(c, n) /\ Throwing(c, n)
  <2>1. age' \in [Conns -> 0 .. OldAge] /\ \A d \in Conns : age'[d] <= age[d]
    <3>1. 0 \in 0 .. OldAge /\ OldAge \in Nat
      BY EchoAssumption DEF OldAge
    <3>2. /\ age' \in [Conns -> 0 .. OldAge]
          /\ \A d \in Conns : age'[d] = 0 \/ age'[d] = age[d]
      BY <1>2, <1>3, <3>1
    <3>3. \A d \in Conns : age[d] \in 0 .. OldAge
      BY <1>2
    <3> QED BY <3>1, <3>2, <3>3
  <2>2. PICK n \in 0 .. 2 : Await("send", c, fd[c], n) /\ Throwing(c, n)
    BY <1>3 DEF SendBack
  <2>3. /\ \E h \in {"send", "gone"} :
             hc' = [hc EXCEPT ![c] = h] /\ (h = "gone" => c \in threw')
        /\ ops' = ops \cup {Op("send", c, FileOf(fd[c]))}
        /\ UNCHANGED <<file, fd>> \/ Close(c, fd[c])
        /\ aborted' \in BOOLEAN
        /\ threw' \in {threw, threw \cup {c}}
        /\ throws' \in 0 .. MaxThrows
    BY <1>1, <1>2, <2>2, AwaitOutcomes
  <2> QED BY <1>1, <2>1, <2>3, ResumedStep DEF c
<1>4. CASE AwaitDii(c) /\ UNCHANGED <<file, throws, threw, ops, fd, age>>
  <2>1. PICK h \in {"await", "stale"} :
          /\ hc' = [hc EXCEPT ![c] = h]
          /\ h = "stale" => dii[c] # "timer"
          /\ aborted' \in BOOLEAN
    BY <1>4, AwaitDiiOutcomes
  <2> QED BY <1>1, <1>2, <1>4, <2>1, ResumedStep DEF c
<1>5. CASE EventGone(c)
  BY <1>1, <1>2, <1>5, ResumedStep DEF EventGone, c
<1> QED BY <1>3, <1>4, <1>5 DEF OnRecv, c

(* on_send resumes handle_client, which receives again or ends, or nobody.  *)
LEMMA SendStep ==
  ASSUME IInv, ~aborted, NEW q, OnSend(q)
  PROVE  IInv'
<1> DEFINE c == q.conn
<1>1. /\ Handles("send", q) /\ "recv" \in Io /\ "send" \in Io
      /\ UNCHANGED <<net, accepted, fails, server, prompt, armed, timer, dii, buf>>
  BY DEF OnSend, Io
<1>2. /\ c \in Conns /\ hc[c] \in {"send", "gone"} /\ (hc[c] = "gone" => c \in threw)
      /\ hc = [hc EXCEPT ![c] = hc[c]] /\ throws \in 0 .. MaxThrows /\ aborted \in BOOLEAN
      /\ age \in [Conns -> 0 .. OldAge] /\ \A d \in Conns : age[d] <= age[d]
  BY <1>1, Stays
<1> HIDE DEF c
<1>3. CASE /\ \E n \in 0 .. 2 : Receive(c, fd[c], n) /\ Throwing(c, n)
           /\ UNCHANGED age
  <2>1. PICK n \in 0 .. 2 : Await("recv", c, fd[c], n) /\ Throwing(c, n)
    BY <1>3 DEF Receive
  <2>2. /\ \E h \in {"recv", "gone"} :
             hc' = [hc EXCEPT ![c] = h] /\ (h = "gone" => c \in threw')
        /\ ops' = ops \cup {Op("recv", c, FileOf(fd[c]))}
        /\ UNCHANGED <<file, fd>> \/ Close(c, fd[c])
        /\ aborted' \in BOOLEAN
        /\ threw' \in {threw, threw \cup {c}}
        /\ throws' \in 0 .. MaxThrows
    BY <1>1, <1>2, <2>1, AwaitOutcomes
  <2> QED BY <1>1, <1>2, <1>3, <2>2, ResumedStep DEF c
<1>4. CASE AwaitDii(c) /\ UNCHANGED <<file, throws, threw, ops, fd, age>>
  <2>1. PICK h \in {"await", "stale"} :
          /\ hc' = [hc EXCEPT ![c] = h]
          /\ h = "stale" => dii[c] # "timer"
          /\ aborted' \in BOOLEAN
    BY <1>4, AwaitDiiOutcomes
  <2> QED BY <1>1, <1>2, <1>4, <2>1, ResumedStep DEF c
<1>5. CASE UNCHANGED <<file, throws, threw, aborted, ops, hc, fd, age>>
  BY <1>1, <1>2, <1>5, ResumedStep DEF c
<1>6. CASE EventGone(c)
  BY <1>1, <1>2, <1>6, ResumedStep DEF EventGone, c
<1> QED BY <1>3, <1>4, <1>5, <1>6 DEF OnSend, c

(* on_timeout resumes disconnect_if_idle: it disconnects, or close() throws *)
(* and it is gone as well, or it waits again, and a message came in time;   *)
(* or its frame or that of handle_client was destroyed before.              *)
LEMMA TimeoutStep ==
  ASSUME IInv, ~aborted, NEW q, OnTimeout(q)
  PROVE  IInv'
<1> DEFINE c == q.conn
<1> USE DEF net
<1>1. /\ cq' \in Seq(Cqes) /\ Range(cq') \subseteq Cqes
      /\ q \in Queue /\ q \in Cqes /\ q.kind = "timer"
      /\ Queue = Queue' \cup {q}
      /\ \A p \in Queue' : ~Alike(p, q)
      /\ OneOfAKind'
  BY Handled DEF OnTimeout
<1>2. /\ c \in Conns /\ c # NoFile
      /\ dii[c] \in {"timer", "lost"} /\ timer[c] = NoTimer
      /\ hc[c] # "none" /\ age[c] \in Nat
  <2>1. c \in Conns /\ TimerQueued(c)
    BY <1>1 DEF IInv, Monitored, TimerQueued
  <2>2. dii[c] \in {"timer", "lost"} /\ timer[c] = NoTimer /\ hc[c] # "none"
    BY <2>1 DEF IInv, Monitored
  <2> QED BY <2>1, <2>2 DEF IInv, TypeOK, Conns, NoFile
<1>3. /\ dii \in [Conns -> {"none", "timer", "gone", "lost"}]
      /\ fd \in [Conns -> Fds \cup {NoFd}]
      /\ timer \in [Conns -> NoTimer .. Period]
      /\ throws \in 0 .. MaxThrows /\ MaxThrows \in Nat
      /\ threw \subseteq Conns /\ aborted \in BOOLEAN
      /\ Period \in Nat \ {0} /\ Limit \in Nat
  BY EchoAssumption DEF IInv, TypeOK
<1>4. PICK d \in {"timer", "gone", "lost"} :
        /\ UNCHANGED <<net, accepted, fails, server, prompt, armed, ops, hc, age, buf>>
        /\ dii' = [dii EXCEPT ![c] = d]
        /\ UNCHANGED <<file, fd>> \/ Close(c, fd[c])
        /\ timer' = timer \/ timer' = [timer EXCEPT ![c] = Period]
        /\ d = "timer" => dii[c] = "timer" /\ timer'[c] = Period /\ age[c] <= Limit
        /\ d = "gone" => timer' = timer
        /\ d = "gone" => c \in threw' \/ fd'[c] = NoFd
        /\ d = "lost" => c \in threw'
        /\ throws' \in 0 .. MaxThrows
        /\ threw' \in {threw, threw \cup {c}}
        /\ aborted' \in BOOLEAN
        /\ hc[c] = "gone" => c \in threw
  <2>1. /\ UNCHANGED <<net, accepted, fails, server, prompt, armed, ops, hc, age, buf>>
        /\ hc[c] = "gone" => c \in threw
    BY <1>2 DEF OnTimeout, IInv, Suspended
  <2>2. CASE Disconnect(c) /\ Throwing(c, 0) /\ UNCHANGED aborted
    <3>1. dii' = [dii EXCEPT ![c] = "gone"] /\ timer' = timer /\ Close(c, fd[c])
      BY <2>2 DEF Disconnect
    <3>2. throws' = throws /\ threw' = threw
      BY <1>3, <2>2 DEF Throwing, Throw
    <3>3. fd'[c] = NoFd
      BY <1>2, <1>3, <3>1 DEF Close
    <3> QED BY <1>3, <2>1, <2>2, <3>1, <3>2, <3>3
  <2>3. CASE DisconnectThrows(c) /\ Throwing(c, 1) /\ UNCHANGED aborted
    <3>1. dii' = [dii EXCEPT ![c] = "gone"] /\ UNCHANGED <<file, fd, timer>>
      BY <2>3 DEF DisconnectThrows
    <3>2. throws' \in 0 .. MaxThrows /\ threw' = threw \cup {c}
      BY <1>3, <2>3 DEF Throwing, Throw
    <3> QED BY <1>3, <2>1, <2>3, <3>1, <3>2
  <2>4. CASE dii[c] = "timer" /\ age[c] <= Limit /\ UNCHANGED aborted
             /\ \E m \in 0 .. 1 : LookAgain(c, m) /\ Throwing(c, m)
    <3>1. PICK m \in 0 .. 1 : LookAgain(c, m) /\ Throwing(c, m)
      BY <2>4
    <3>2. /\ throws' \in 0 .. MaxThrows
          /\ threw' \in {threw, threw \cup {c}} /\ (m = 1 => c \in threw')
      BY <1>3, <3>1 DEF Throwing, Throw
    <3>3. /\ timer' = [timer EXCEPT ![c] = Period] /\ UNCHANGED <<file, fd>>
          /\ \/ m = 0 /\ dii' = [dii EXCEPT ![c] = "timer"]
             \/ m = 1 /\ dii' = [dii EXCEPT ![c] = "lost"]
      BY <3>1 DEF LookAgain, StartTimer
    <3>4. timer'[c] = Period
      BY <1>2, <1>3, <3>3
    <3> QED BY <1>3, <2>1, <2>4, <3>2, <3>3, <3>4
  <2>5. CASE hc[c] = "gone" /\ aborted' = TRUE /\ dii' = [dii EXCEPT ![c] = "gone"]
             /\ UNCHANGED <<file, throws, threw, timer, fd>>
    BY <1>3, <2>1, <2>5
  <2>6. CASE dii[c] # "timer" /\ aborted' \in BOOLEAN
             /\ UNCHANGED <<file, throws, threw, timer, dii, fd>>
    <3>1. dii[c] = "lost" /\ c \in threw /\ dii = [dii EXCEPT ![c] = "lost"]
      BY <1>2, <1>3, <2>6 DEF IInv, Monitored
    <3> QED BY <1>3, <2>1, <2>6, <3>1
  <2> QED BY <2>2, <2>3, <2>4, <2>5, <2>6 DEF OnTimeout, c
<1> HIDE DEF c
<1>5. /\ \A p : p.kind # "timer" => (p \in Queue' <=> p \in Queue)
      /\ \A e \in Conns : TimerQueued(e)' <=> TimerQueued(e) /\ e # c
      /\ TimerQueued(c)
  BY <1>1, <1>2 DEF TimerQueued, Alike, c
<1>6. /\ \A e \in Conns : dii'[e] = IF e = c THEN d ELSE dii[e]
      /\ timer' \in [Conns -> NoTimer .. Period]
      /\ \A e \in Conns \ {c} : timer'[e] = timer[e]
      /\ threw \subseteq threw' /\ threw' \subseteq Conns
  BY <1>2, <1>3, <1>4 DEF NoTimer
<1>7. Shapes' /\ Suspended' /\ OwnConnection' /\ ArmedByAccepts' /\ Accepting'
  <2>1. Suspended'
    BY <1>4, <1>5, <1>6 DEF IInv, Suspended, Waits, Io
  <2>2. Listening' <=> Listening
    BY <1>4, <1>5 DEF Listening, Queue
  <2> QED BY <1>1, <1>4, <1>5, <2>1, <2>2
        DEF IInv, Shapes, OwnConnection, ArmedByAccepts, Started, Accepting, ListensUnlessFailed
<1>8. /\ file' \in [Fds -> Conns \cup {NoFile}]
      /\ fd' \in [Conns -> Fds \cup {NoFd}]
      /\ \A e \in Conns : fd'[e] # NoFd => fd'[e] = fd[e]
      /\ Descriptors'
  BY <1>2, <1>4, <1>5, ClosedDescriptors
<1>9. TypeOK'
  <2>1. dii' \in [Conns -> {"none", "timer", "gone", "lost"}]
    BY <1>2, <1>3, <1>4
  <2> QED BY <1>1, <1>4, <1>6, <1>8, <2>1 DEF IInv, TypeOK, Cqes
<1>10. Monitored' /\ MonitorOutlived'
  <2>1. \A p \in Queue' : p.kind = "timer" => p.conn \in Conns
    BY <1>1 DEF IInv, Monitored
  <2>2. ASSUME NEW e \in Conns
        PROVE  /\ dii'[e] = "timer" => timer'[e] # NoTimer \/ TimerQueued(e)'
               /\ timer'[e] # NoTimer \/ TimerQueued(e)' => dii'[e] \in {"timer", "lost"}
               /\ timer'[e] # NoTimer => ~TimerQueued(e)'
               /\ dii'[e] = "lost" => e \in threw'
               /\ hc'[e] = "none" <=> dii'[e] = "none"
    <3>1. CASE e = c
      <4>1. /\ dii'[c] = d /\ hc'[c] # "none" /\ ~TimerQueued(c)'
            /\ d = "lost" => c \in threw'
        BY <1>2, <1>4, <1>5, <1>6
      <4>2. /\ d = "timer" => timer'[c] # NoTimer
            /\ d = "gone" => timer'[c] = NoTimer
        BY <1>2, <1>3, <1>4 DEF NoTimer
      <4> QED BY <3>1, <4>1, <4>2
    <3>2. CASE e # c
      BY <1>4, <1>5, <1>6, <3>2 DEF IInv, Monitored
    <3> QED BY <3>1, <3>2
  <2>3. ASSUME NEW e \in Conns, dii'[e] = "timer"
        PROVE  hc'[e] \in {"recv", "send", "await"} \/ (hc'[e] = "gone" /\ e \in threw')
    <3>1. dii[e] = "timer" \/ e = c
      BY <1>6, <2>3
    <3> QED BY <1>4, <1>6, <2>3, <3>1 DEF IInv, MonitorOutlived, Monitored
  <2> QED BY <2>1, <2>2, <2>3 DEF Monitored, MonitorOutlived
<1>11. InTime'
  <2>1. ASSUME NEW e \in Conns, fd'[e] # NoFd
        PROVE  dii'[e] = "timer" \/ e \in threw'
    BY <1>4, <1>6, <1>8, <2>1 DEF IInv, InTime
  <2>2. ASSUME prompt', ~aborted', NEW e \in Conns, dii'[e] = "timer"
        PROVE  /\ timer'[e] # NoTimer => age'[e] + timer'[e] <= Limit + Period
               /\ TimerQueued(e)' => age'[e] <= Limit + Period
    <3>1. CASE e = c
      BY <1>2, <1>3, <1>4, <1>5, <1>6, <2>2, <3>1
    <3>2. CASE e # c
      BY <1>4, <1>5, <1>6, <2>2, <3>2 DEF IInv, InTime
    <3> QED BY <3>1, <3>2
  <2> QED BY <2>1, <2>2 DEF InTime
<1> QED BY <1>1, <1>7, <1>8, <1>9, <1>10, <1>11 DEF IInv

-----------------------------------------------------------------------------
(* Every step preserves the inductive invariant.                            *)
LEMMA NextIInv == IInv /\ [Next]_vars => IInv'
<1> SUFFICES ASSUME IInv, [Next]_vars PROVE IInv'
  OBVIOUS
<1>1. CASE Tick
  BY <1>1, TickStep
<1>2. CASE ~aborted /\ Peers
  BY <1>2, PeersStep
<1>3. CASE Listens \/ ListenFails
  BY <1>3, ListenStep
<1>4. CASE ~aborted /\ Kernel
  BY <1>4, AcceptsStep, AcceptFailsStep, ReceivesStep, SendsStep, EndsStep, FiresStep DEF Kernel
<1>5. CASE ~aborted /\ Dispatch
  <2>1. PICK q \in Queue : OnAccept(q) \/ OnRecv(q) \/ OnSend(q) \/ OnTimeout(q)
    BY <1>5 DEF Dispatch, Queue
  <2>2. CASE OnAccept(q)
    <3>1. q.res > 0 \/ q.res <= 0
      BY <2>2 DEF OnAccept
    <3> QED BY <2>2, <3>1, AcceptedStep, RefusedStep
  <2>3. CASE OnRecv(q)
    BY <1>5, <2>3, RecvStep
  <2>4. CASE OnSend(q)
    BY <1>5, <2>4, SendStep
  <2>5. CASE OnTimeout(q)
    BY <1>5, <2>5, TimeoutStep
  <2> QED BY <2>1, <2>2, <2>3, <2>4, <2>5
<1>6. CASE UNCHANGED vars
  <2>1. TypeOK' /\ Shapes'
    BY <1>6 DEF vars, net, tables, program, frames, IInv, TypeOK, Shapes
  <2>2. OneOfAKind' /\ Suspended' /\ Monitored' /\ MonitorOutlived' /\ OwnConnection'
    BY <1>6 DEF vars, net, tables, program, frames, IInv, OneOfAKind, Suspended, Waits,
       Monitored, MonitorOutlived, OwnConnection, TimerQueued, Queue
  <2>3. Descriptors' /\ ArmedByAccepts' /\ Accepting' /\ InTime'
    BY <1>6 DEF vars, net, tables, program, frames, IInv, Descriptors, AcceptQueued,
       ArmedByAccepts, Started, Accepting, ListensUnlessFailed, Listening, InTime, TimerQueued, Queue
  <2> QED BY <2>1, <2>2, <2>3 DEF IInv
<1> QED BY <1>1, <1>2, <1>3, <1>4, <1>5, <1>6 DEF Next

(* The inductive invariant holds in every reachable state.                  *)
LEMMA Inductive == Spec => []IInv
BY InitIInv, NextIInv, PTL DEF Spec

-----------------------------------------------------------------------------
(* No handle_client is forgotten at its wait, but at a send that failed     *)
(* after its peer had gone or its connection was closed; what submit() left *)
(* behind waits for nobody.                                                 *)
Pending(kind, c) ==
  \/ \E o \in ops : o.kind = kind /\ o.conn = c
  \/ \E q \in Queue : q.kind = kind /\ q.conn = c
Shut(c) == dii[c] = "gone" \/ hc[c] = "gone"
Over(c) == Shut(c) \/ peer[c] = "gone"

Awake ==
  /\ \A c \in Conns : hc[c] = "recv" => Pending("recv", c)
  /\ \A c \in Conns : hc[c] = "send" => Pending("send", c) \/ Over(c)
  /\ \A q \in Queue : q.kind = "send" /\ q.res <= 0 => Over(q.conn)
  /\ \A o \in ops : o.file = NoFile => Shut(o.conn)
  /\ \A c \in Conns : hc[c] # "none" /\ fd[c] = NoFd => Shut(c)

(* It holds initially.                                                      *)
LEMMA InitAwake == Init => Awake
<1> SUFFICES ASSUME Init PROVE Awake
  OBVIOUS
<1>1. Queue = {}
  BY DEF Init, Queue, Range
<1> QED BY <1>1 DEF Init, Awake

(* Posting adds a completion.                                               *)
LEMMA PostedQueue ==
  ASSUME IInv, NEW q, Post(q)
  PROVE  Queue' = Queue \cup {q}
<1>1. /\ cq' = Append(cq, q) /\ Len(cq) \in Nat
      /\ DOMAIN cq = 1 .. Len(cq) /\ DOMAIN cq' = 1 .. Len(cq) + 1
      /\ cq'[Len(cq) + 1] = q
      /\ \A i \in 1 .. Len(cq) : cq'[i] = cq[i]
  BY DEF Post, IInv, Shapes
<1>2. \A i \in 1 .. Len(cq) + 1 : i \in 1 .. Len(cq) \/ i = Len(cq) + 1
  BY <1>1
<1> QED BY <1>1, <1>2 DEF Queue, Range

(* A step that resumes no handle_client and after which all that was        *)
(* pending still is, and no send that failed is new, keeps it.              *)
LEMMA StaysAwake ==
  ASSUME IInv, Awake, UNCHANGED hc, ops' \subseteq ops,
         \A c \in Conns : Shut(c) => Shut(c)',
         \A c \in Conns : Over(c) => Over(c)',
         \A c \in Conns : fd'[c] = NoFd => fd[c] = NoFd \/ Shut(c)',
         \A kind \in Io : \A c \in Conns : Pending(kind, c) => Pending(kind, c)',
         \A q \in Queue' : q \in Queue \/ (q.kind = "send" /\ q.res <= 0 => Over(q.conn)')
  PROVE  Awake'
<1>1. \A q \in Queue : q.kind = "send" => q.conn \in Conns
  BY DEF IInv, Suspended, Io
<1>2. \A o \in ops : o.conn \in Conns
  BY DEF IInv, TypeOK
<1> QED BY <1>1, <1>2 DEF Awake, Io

(* So does a completion of an operation: a send fails only if its peer has  *)
(* gone or it finds no open connection, which was closed then.              *)
LEMMA CompletedAwake ==
  ASSUME IInv, Awake, NEW o \in ops, NEW r \in Int, Post(Cqe(o.kind, o.conn, r)),
         ops' = ops \ {o}, UNCHANGED <<peer, hc, dii, fd>>,
         r > 0 \/ o.kind # "send" \/ MayFail(o.file)
  PROVE  Awake'
<1> DEFINE q == Cqe(o.kind, o.conn, r)
<1>1. Queue' = Queue \cup {q}
  BY PostedQueue
<1>2. q.kind = o.kind /\ q.conn = o.conn /\ q.res = r
  BY DEF Cqe
<1> HIDE DEF q
<1>3. MayFail(o.file) => Over(o.conn)
  <2>1. o.file \in {o.conn, NoFile} /\ (o.file = NoFile => Shut(o.conn))
    BY DEF IInv, OwnConnection, Awake
  <2> QED BY <2>1 DEF MayFail, Over, Shut
<1>4. \A kind \in Io : \A c \in Conns : Pending(kind, c) => Pending(kind, c)'
  BY <1>1, <1>2 DEF Pending
<1>5. \A c : (Over(c) => Over(c)') /\ (Shut(c) => Shut(c)')
  BY DEF Over, Shut
<1>6. q.kind = "send" /\ q.res <= 0 => Over(q.conn)'
  <2>1. r \in Int /\ r <= 0 => ~(r > 0)
    OBVIOUS
  <2> QED BY <1>2, <1>3, <1>5, <2>1
<1> QED BY <1>1, <1>4, <1>5, <1>6, StaysAwake

(* A step that resumes the handle_client of c keeps it, if that is at a     *)
(* wait for a new operation then, or at none that ends, or gone, and all    *)
(* that was pending for others still is.                                    *)
LEMMA ResumedAwake ==
  ASSUME IInv, Awake, NEW c \in Conns, UNCHANGED peer, ops \subseteq ops',
         \A d \in Conns \ {c} : UNCHANGED <<hc[d], dii[d], fd[d]>>,
         \A p \in Queue : p.conn # c => p \in Queue',
         Queue' \subseteq Queue,
         \A p \in Queue' : p.conn = c => p.kind # "send",
         hc'[c] \in Io => \E p \in ops' : p.kind = hc'[c] /\ p.conn = c,
         \A p \in ops' \ ops : p.conn = c /\ (p.file = NoFile => Shut(c)'),
         \A p \in ops : p.conn # c,
         fd'[c] = NoFd => Shut(c)'
  PROVE  Awake'
<1>1. /\ \A p \in ops : p.conn \in Conns
      /\ \A q \in Queue : q.kind \in Io => q.conn \in Conns
  BY DEF IInv, TypeOK, Suspended
<1>2. \A d \in Conns \ {c} : (Over(d)' <=> Over(d)) /\ (Shut(d)' <=> Shut(d))
  BY DEF Over, Shut
<1>3. \A d \in Conns \ {c} : \A kind \in Io : Pending(kind, d) => Pending(kind, d)'
  BY DEF Pending
<1>4. \A d \in Conns \ {c} : /\ hc'[d] = "recv" => Pending("recv", d)'
                             /\ hc'[d] = "send" => Pending("send", d)' \/ Over(d)'
                             /\ hc'[d] # "none" /\ fd'[d] = NoFd => Shut(d)'
  BY <1>2, <1>3 DEF Awake, Io
<1>5. /\ hc'[c] = "recv" => Pending("recv", c)'
      /\ hc'[c] = "send" => Pending("send", c)'
  BY DEF Pending, Io
<1>6. \A q \in Queue' : q.kind = "send" /\ q.res <= 0 => Over(q.conn)'
  BY <1>1, <1>2 DEF Awake, Io
<1>7. \A o \in ops' : o.file = NoFile => Shut(o.conn)'
  BY <1>1, <1>2 DEF Awake
<1> QED BY <1>4, <1>5, <1>6, <1>7 DEF Awake

(* The first receive of a connection is on the descriptor that was accepted.*)
LEMMA AcceptAwake ==
  ASSUME IInv, Awake, NEW q, OnAccept(q)
  PROVE  Awake'
<1> USE DEF net, tables, frames, program
<1>1. /\ q \in Queue /\ q.kind = "accept" /\ Queue = Queue' \cup {q}
      /\ q.res \in Int
  <2>1. q \in Cqes
    BY Handled DEF OnAccept
  <2>2. q.res \in Int
    BY <2>1, EchoAssumption DEF Cqes
  <2> QED BY <2>2, Handled DEF OnAccept
<1>2. CASE q.res > 0
  <2> DEFINE c == q.conn
             o == Op("recv", c, c)
  <2>1. /\ c \in Conns /\ q.res \in Fds /\ file[q.res] = c /\ hc[c] = "none"
    BY <1>1, <1>2 DEF IInv, Descriptors
  <2>2. /\ hc \in [Conns -> {"none", "recv", "send", "await", "stale", "gone"}]
        /\ dii \in [Conns -> {"none", "timer", "gone", "lost"}]
        /\ fd \in [Conns -> Fds \cup {NoFd}]
    BY DEF IInv, TypeOK
  <2>3. /\ \A p \in ops : p.conn # c
        /\ \A p \in Queue : p.kind \in Io => p.conn # c
    BY <2>1 DEF IInv, Suspended, Waits, TypeOK, Io
  <2>4. FileOf(q.res) = c /\ c # NoFile /\ q.res # NoFd
    BY <2>1 DEF FileOf, Fds, NoFd, Conns, NoFile
  <2>5. /\ \E d \in {"timer", "lost"} : dii' = [dii EXCEPT ![c] = d]
        /\ ops' = ops \cup {o}
        /\ UNCHANGED peer
        /\ \/ hc' = [hc EXCEPT ![c] = "recv"] /\ fd' = [fd EXCEPT ![c] = q.res]
           \/ hc' = [hc EXCEPT ![c] = "gone"] /\ fd' = [fd EXCEPT ![c] = q.res]
           \/ hc' = [hc EXCEPT ![c] = "gone"] /\ fd' = [fd EXCEPT ![c] = NoFd]
    <3>1. PICK m \in 0 .. 1, n \in 0 .. 2 : HandleClient(c, q.res, m, n) /\ UNCHANGED peer
      BY <1>1, <1>2 DEF OnAccept
    <3> QED BY <2>4, <3>1
        DEF HandleClient, StartTimer, Receive, Await, Submitted, Unwound, Terminated, Close
  <2>6. o.kind = "recv" /\ o.conn = c /\ o.file = c
    BY DEF Op
  <2> HIDE DEF c, o
  <2>7. /\ \A d \in Conns \ {c} : UNCHANGED <<hc[d], dii[d], fd[d]>>
        /\ \/ hc'[c] = "recv" /\ fd'[c] = q.res
           \/ hc'[c] = "gone"
    BY <2>1, <2>2, <2>5
  <2>8. fd'[c] = NoFd => Shut(c)'
    BY <2>4, <2>7 DEF Shut
  <2>9. /\ \A p \in Queue : p.conn # c => p \in Queue'
        /\ \A p \in Queue' : p.conn = c => p.kind # "send"
        /\ Queue' \subseteq Queue
    BY <1>1, <2>3 DEF Io, c
  <2>10. hc'[c] \in Io => \E p \in ops' : p.kind = hc'[c] /\ p.conn = c
    BY <2>5, <2>6, <2>7 DEF Io
  <2> QED BY <2>1, <2>3, <2>4, <2>5, <2>6, <2>7, <2>8, <2>9, <2>10, ResumedAwake
<1>3. CASE ~(q.res > 0)
  <2>1. UNCHANGED <<peer, hc, dii, fd, ops>>
    BY <1>3 DEF OnAccept
  <2> QED BY <1>1, <2>1, StaysAwake DEF Pending, Over, Shut, Io
<1> QED BY <1>2, <1>3

(* An operation on the descriptor of a connection has a file unless the     *)
(* connection was closed.                                                   *)
LEMMA FileOfOpen ==
  ASSUME IInv, Awake, NEW c \in Conns, hc[c] # "none", FileOf(fd[c]) = NoFile
  PROVE  Shut(c)
<1>1. fd[c] # NoFd => file[fd[c]] = c /\ c # NoFile
  BY DEF IInv, Descriptors, Conns, NoFile
<1> QED BY <1>1 DEF FileOf, Awake

(* What a handler leaves behind when it resumes the handle_client of c.     *)
LEMMA HandledAwake ==
  ASSUME IInv, Awake, NEW kind \in Io, NEW q, Handles(kind, q), NEW c, c = q.conn,
         NEW h \in {"recv", "send", "await", "stale", "gone"},
         hc[c] # "gone",
         hc' = [hc EXCEPT ![c] = h],
         \/ h \notin Io /\ ops' = ops
         \/ \E k \in Io : h \in {k, "gone"} /\ ops' = ops \cup {Op(k, c, FileOf(fd[c]))},
         UNCHANGED fd \/ (fd' = [fd EXCEPT ![c] = NoFd] /\ h = "gone"),
         UNCHANGED <<peer, dii>>
  PROVE  Awake'
<1>1. /\ q \in Queue /\ q.kind = kind /\ Queue = Queue' \cup {q}
      /\ \A p \in Queue' : ~Alike(p, q)
  BY Handled
<1>2. /\ c \in Conns /\ c # NoFile /\ hc[c] = kind /\ \A p \in ops : p.conn # c
  <2>1. c \in Conns /\ hc[c] = kind /\ \A p \in ops : p.conn # c
    BY <1>1 DEF IInv, Suspended, Waits
  <2> QED BY <2>1 DEF Conns, NoFile
<1>3. \A p \in Queue' : p.conn = c => p.kind # "send"
  BY <1>1, <1>2 DEF Alike, Io
<1>4. /\ hc \in [Conns -> {"none", "recv", "send", "await", "stale", "gone"}]
      /\ fd \in [Conns -> Fds \cup {NoFd}]
  BY DEF IInv, TypeOK
<1>5. /\ hc'[c] = h
      /\ \A d \in Conns \ {c} : UNCHANGED <<hc[d], dii[d], fd[d]>>
      /\ Shut(c) => Shut(c)'
  BY <1>2, <1>4 DEF Shut
<1>6. fd'[c] = NoFd => Shut(c)'
  <2>1. hc[c] # "none"
    BY <1>2 DEF Io
  <2> QED BY <1>2, <1>5, <2>1 DEF Awake, Shut
<1>7. ASSUME NEW p \in ops' \ ops
      PROVE  p.conn = c /\ (p.file = NoFile => Shut(c)')
  <2>1. FileOf(fd[c]) = NoFile => Shut(c)
    BY <1>2, FileOfOpen DEF Io
  <2> QED BY <1>5, <1>7, <2>1 DEF Op
<1>8. ASSUME h \in Io
      PROVE  \E p \in ops' : p.kind = h /\ p.conn = c
  <2>1. PICK k \in Io : h \in {k, "gone"} /\ ops' = ops \cup {Op(k, c, FileOf(fd[c]))}
    BY <1>8
  <2>2. Op(k, c, FileOf(fd[c])) \in ops' /\ h = k
    BY <1>8, <2>1 DEF Io
  <2> QED BY <2>2 DEF Op
<1>9. /\ \A p \in Queue : p.conn # c => p \in Queue'
      /\ Queue' \subseteq Queue /\ ops \subseteq ops'
  BY <1>1
<1> QED BY <1>2, <1>3, <1>5, <1>6, <1>7, <1>8, <1>9, ResumedAwake

(* What it leaves behind when it resumes nobody.                            *)
LEMMA UnheardAwake ==
  ASSUME IInv, Awake, NEW kind \in Io, NEW q, Handles(kind, q),
         hc[q.conn] = "gone" \/ (kind = "send" /\ q.res <= 0),
         UNCHANGED <<peer, hc, dii, fd, ops>>
  PROVE  Awake'
<1> DEFINE c == q.conn
<1>1. /\ q \in Queue /\ q.kind = kind /\ Queue = Queue' \cup {q}
  BY Handled
<1>2. /\ c \in Conns /\ hc[c] \in {kind, "gone"}
      /\ \A p \in Queue : p.kind \in Io => p.conn \in Conns
      /\ \A p \in ops : p.conn \in Conns
  BY <1>1 DEF IInv, Suspended, Waits, TypeOK
<1>3. hc[c] \in {"recv", "send"} => hc[c] = "send" /\ Over(c)
  BY <1>1, <1>2 DEF Awake, Io
<1>4. \A d \in Conns : (Over(d)' <=> Over(d)) /\ (Shut(d)' <=> Shut(d))
  BY DEF Over, Shut
<1>5. \A k \in Io : \A d \in Conns \ {c} : Pending(k, d) => Pending(k, d)'
  BY <1>1 DEF Pending
<1> HIDE DEF c
<1>6. \A d \in Conns : /\ hc'[d] = "recv" => Pending("recv", d)'
                       /\ hc'[d] = "send" => Pending("send", d)' \/ Over(d)'
                       /\ hc'[d] # "none" /\ fd'[d] = NoFd => Shut(d)'
  BY <1>3, <1>4, <1>5 DEF Awake, Io
<1>7. /\ \A p \in Queue' : p.kind = "send" /\ p.res <= 0 => Over(p.conn)'
      /\ \A o \in ops' : o.file = NoFile => Shut(o.conn)'
  BY <1>1, <1>2, <1>4 DEF Awake, Io
<1> QED BY <1>6, <1>7 DEF Awake

(* A receive is followed by a send, or by no wait that ends.                *)
LEMMA RecvAwake ==
  ASSUME IInv, ~aborted, Awake, NEW q, OnRecv(q)
  PROVE  Awake'
<1> DEFINE c == q.conn
<1>1. /\ Handles("recv", q) /\ "recv" \in Io /\ "send" \in Io /\ UNCHANGED <<peer, dii>>
  BY DEF OnRecv, net, Io
<1>2. c \in Conns /\ fd \in [Conns -> Fds \cup {NoFd}]
  BY <1>1, Stays DEF IInv, TypeOK
<1> HIDE DEF c
<1>3. CASE hc[c] # "gone" /\ \E n \in 0 .. 2 : SendBack(c, n) /\ Throwing(c, n)
  <2>1. PICK n \in 0 .. 2 : Await("send", c, fd[c], n) /\ Throwing(c, n)
    BY <1>3 DEF SendBack
  <2>2. PICK h \in {"send", "gone"} :
          /\ hc' = [hc EXCEPT ![c] = h]
          /\ ops' = ops \cup {Op("send", c, FileOf(fd[c]))}
          /\ UNCHANGED fd \/ (fd' = [fd EXCEPT ![c] = NoFd] /\ hc'[c] = "gone")
    BY <1>1, <1>2, <2>1, AwaitOutcomes DEF Close
  <2>3. UNCHANGED fd \/ (fd' = [fd EXCEPT ![c] = NoFd] /\ h = "gone")
    BY <1>2, <2>2 DEF IInv, TypeOK
  <2> QED BY <1>1, <1>3, <2>2, <2>3, HandledAwake DEF c
<1>4. CASE hc[c] # "gone" /\ AwaitDii(c) /\ UNCHANGED <<ops, fd>>
  <2>1. PICK h \in {"await", "stale"} : hc' = [hc EXCEPT ![c] = h]
    BY <1>4, AwaitDiiOutcomes
  <2>2. h \notin Io
    BY DEF Io
  <2> QED BY <1>1, <1>4, <2>1, <2>2, HandledAwake DEF c
<1>5. CASE EventGone(c)
  BY <1>1, <1>5, UnheardAwake DEF EventGone, c
<1> QED BY <1>3, <1>4, <1>5 DEF OnRecv, c

(* A send is followed by a receive, or by no wait that ends; after one that *)
(* failed handle_client stays where it is.                                  *)
LEMMA SendAwake ==
  ASSUME IInv, ~aborted, Awake, NEW q, OnSend(q)
  PROVE  Awake'
<1> DEFINE c == q.conn
<1>1. /\ Handles("send", q) /\ "recv" \in Io /\ "send" \in Io /\ UNCHANGED <<peer, dii>>
  BY DEF OnSend, net, Io
<1>2. c \in Conns /\ fd \in [Conns -> Fds \cup {NoFd}]
  BY <1>1, Stays DEF IInv, TypeOK
<1> HIDE DEF c
<1>3. CASE hc[c] # "gone" /\ \E n \in 0 .. 2 : Receive(c, fd[c], n) /\ Throwing(c, n)
  <2>1. PICK n \in 0 .. 2 : Await("recv", c, fd[c], n) /\ Throwing(c, n)
    BY <1>3 DEF Receive
  <2>2. PICK h \in {"recv", "gone"} :
          /\ hc' = [hc EXCEPT ![c] = h]
          /\ ops' = ops \cup {Op("recv", c, FileOf(fd[c]))}
          /\ UNCHANGED fd \/ (fd' = [fd EXCEPT ![c] = NoFd] /\ hc'[c] = "gone")
    BY <1>1, <1>2, <2>1, AwaitOutcomes DEF Close
  <2>3. UNCHANGED fd \/ (fd' = [fd EXCEPT ![c] = NoFd] /\ h = "gone")
    BY <1>2, <2>2 DEF IInv, TypeOK
  <2> QED BY <1>1, <1>3, <2>2, <2>3, HandledAwake DEF c
<1>4. CASE hc[c] # "gone" /\ AwaitDii(c) /\ UNCHANGED <<ops, fd>>
  <2>1. PICK h \in {"await", "stale"} : hc' = [hc EXCEPT ![c] = h]
    BY <1>4, AwaitDiiOutcomes
  <2>2. h \notin Io
    BY DEF Io
  <2> QED BY <1>1, <1>4, <2>1, <2>2, HandledAwake DEF c
<1>5. CASE q.res <= 0 /\ UNCHANGED <<hc, fd, ops>>
  BY <1>1, <1>5, UnheardAwake DEF c
<1>6. CASE EventGone(c)
  BY <1>1, <1>6, UnheardAwake DEF EventGone, c
<1> QED BY <1>3, <1>4, <1>5, <1>6 DEF OnSend, c

(* Timers and closing take no operation away.                               *)
LEMMA TimeoutAwake ==
  ASSUME IInv, Awake, NEW q, OnTimeout(q)
  PROVE  Awake'
<1> DEFINE c == q.conn
<1> USE DEF net
<1>1. /\ q \in Queue /\ q.kind = "timer" /\ Queue = Queue' \cup {q}
  BY Handled DEF OnTimeout
<1>2. /\ dii \in [Conns -> {"none", "timer", "gone", "lost"}] /\ fd \in [Conns -> Fds \cup {NoFd}]
  BY DEF IInv, TypeOK
<1>3. UNCHANGED <<peer, hc, ops>>
  BY DEF OnTimeout
<1>4. \/ dii' = [dii EXCEPT ![c] = "gone"] /\ fd' = [fd EXCEPT ![c] = NoFd]
      \/ dii' = [dii EXCEPT ![c] = "gone"] /\ fd' = fd
      \/ /\ dii[c] = "timer" /\ fd' = fd
         /\ \E d \in {"timer", "lost"} : dii' = [dii EXCEPT ![c] = d]
      \/ UNCHANGED <<dii, fd>>
  BY DEF OnTimeout, Disconnect, Close, DisconnectThrows, LookAgain, StartTimer
<1>5. /\ \A e \in Conns : dii[e] = "gone" => dii'[e] = "gone"
      /\ \A e \in Conns : fd'[e] = NoFd => fd[e] = NoFd \/ dii'[e] = "gone"
  BY <1>2, <1>4
<1>6. /\ \A e \in Conns : (Over(e) => Over(e)') /\ (Shut(e) => Shut(e)')
      /\ \A e \in Conns : fd'[e] = NoFd => fd[e] = NoFd \/ Shut(e)'
  BY <1>3, <1>5 DEF Over, Shut
<1>7. \A kind \in Io : \A e \in Conns : Pending(kind, e) => Pending(kind, e)'
  BY <1>1, <1>3 DEF Pending, Io
<1> QED BY <1>1, <1>3, <1>6, <1>7, StaysAwake

(* Every step keeps it.                                                     *)
LEMMA NextAwake == IInv /\ IInv' /\ Awake /\ [Next]_vars => Awake'
<1> SUFFICES ASSUME IInv, IInv', Awake, [Next]_vars PROVE Awake'
  OBVIOUS
<1> USE DEF net, tables, frames, program
<1>1. ASSUME NEW q, Post(q), q.kind \in {"accept", "timer"}, UNCHANGED <<peer, hc, dii, fd, ops>>
      PROVE  Awake'
  <2>1. Queue' = Queue \cup {q} /\ q.kind # "send"
    BY <1>1, PostedQueue
  <2> QED BY <1>1, <2>1, StaysAwake DEF Pending, Over, Shut
<1>2. ASSUME NEW c \in Conns, \/ peer[c] = "away" /\ peer' = [peer EXCEPT ![c] = "here"]
                              \/ UNCHANGED peer
                              \/ peer' = [peer EXCEPT ![c] = "gone"],
             UNCHANGED <<hc, dii, fd, ops, cq>>
      PROVE  Awake'
  <2>1. peer \in [Conns -> {"away", "here", "gone"}]
    BY DEF IInv, TypeOK
  <2>2. \A d \in Conns : (Over(d) => Over(d)') /\ (Shut(d) => Shut(d)')
    BY <1>2, <2>1 DEF Over, Shut
  <2>3. Queue' = Queue
    BY <1>2 DEF Queue
  <2> QED BY <1>2, <2>2, <2>3, StaysAwake DEF Pending
<1>3. CASE UNCHANGED <<peer, hc, dii, fd, ops, cq>>
  <2>1. Queue' = Queue
    BY <1>3 DEF Queue
  <2> QED BY <1>3, <2>1, StaysAwake DEF Pending, Over, Shut
<1>4. CASE Tick \/ UNCHANGED vars \/ Listens \/ ListenFails
  BY <1>3, <1>4 DEF Tick, vars, Listens, ListenFails
<1>5. CASE Peers
  <2>1. PICK c \in Conns : Connect(c) \/ PeerSends(c) \/ PeerLeaves(c)
    BY <1>5 DEF Peers
  <2> QED BY <1>2, <2>1 DEF Connect, PeerSends, PeerLeaves
<1>6. CASE Kernel
  <2>1. ASSUME NEW more \in BOOLEAN, KernelAccepts(more) PROVE Awake'
    BY <1>1, <2>1 DEF KernelAccepts, Cqe
  <2>2. CASE KernelAcceptFails
    BY <1>1, <2>2 DEF KernelAcceptFails, Cqe
  <2>3. ASSUME NEW c \in Conns, TimerFires(c) PROVE Awake'
    BY <1>1, <2>3 DEF TimerFires, Cqe
  <2>4. ASSUME NEW o \in ops, KernelReceives(o) PROVE Awake'
    <3>1. PICK k \in 1 .. sent[o.file] - taken[o.file] : Post(Cqe("recv", o.conn, k))
      BY <2>4 DEF KernelReceives
    <3> QED BY <2>4, <3>1, CompletedAwake DEF KernelReceives
  <2>5. ASSUME NEW o \in ops, KernelSends(o) PROVE Awake'
    <3>1. PICK k \in 1 .. Len(buf[o.conn]) : Post(Cqe("send", o.conn, k))
      BY <2>5 DEF KernelSends
    <3> QED BY <2>5, <3>1, CompletedAwake DEF KernelSends
  <2>6. ASSUME NEW o \in ops, KernelEnds(o) PROVE Awake'
    BY <2>6, CompletedAwake DEF KernelEnds
  <2>7. ASSUME NEW o \in ops, KernelFails(o) PROVE Awake'
    BY <2>7, CompletedAwake DEF KernelFails
  <2> QED BY <1>6, <2>1, <2>2, <2>3, <2>4, <2>5, <2>6, <2>7 DEF Kernel
<1>7. CASE ~aborted /\ Dispatch
  BY <1>7, AcceptAwake, RecvAwake, SendAwake, TimeoutAwake DEF Dispatch
<1> QED BY <1>4, <1>5, <1>6, <1>7 DEF Next

(* And so it holds in every reachable state.                                *)
LEMMA InductiveAwake == Spec => [](IInv /\ Awake)
<1>1. Init => IInv /\ Awake
  BY InitIInv, InitAwake
<1>2. (IInv /\ Awake) /\ [Next]_vars => (IInv /\ Awake)'
  BY NextIInv, NextAwake
<1> QED BY <1>1, <1>2, PTL DEF Spec

-----------------------------------------------------------------------------
(* What the invariant says in the terms of the properties.                  *)

(* A set of which any two elements are equal has at most one.               *)
LEMMA AtMostOne ==
  ASSUME NEW S, \A x, y \in S : x = y
  PROVE  Cardinality(S) = IF S = {} THEN 0 ELSE 1
<1>1. CASE S = {}
  BY <1>1, FS_EmptySet
<1>2. CASE S # {}
  <2>1. PICK x : S = {x}
    BY <1>2
  <2> QED BY <1>2, <2>1, FS_Singleton
<1> QED BY <1>1, <1>2

(* For a connection at most one completion of a kind is in the queue.       *)
LEMMA OneQueued ==
  ASSUME IInv, NEW c \in Conns, NEW kind
  PROVE  Cardinality(Queued(kind, c)) =
           IF \E q \in Queue : q.kind = kind /\ q.conn = c THEN 1 ELSE 0
<1>1. \A i, j \in Queued(kind, c) : i = j
  BY DEF IInv, OneOfAKind, Alike, Queued, Conns, NoFile
<1>2. Queued(kind, c) = {} <=> ~ \E q \in Queue : q.kind = kind /\ q.conn = c
  BY DEF Queued, Queue, Range
<1> QED BY <1>1, <1>2, AtMostOne

(* So the invariant counts what is outstanding as the property does.        *)
LEMMA InvFramed == IInv /\ Awake => EventsHaveTheirFrame
<1> SUFFICES ASSUME IInv, Awake, NEW c \in Conns
             PROVE  /\ \/ /\ Outstanding("recv", c) = IF hc[c] = "recv" THEN 1 ELSE 0
                          /\ Outstanding("send", c) <= IF hc[c] = "send" THEN 1 ELSE 0
                       \/ /\ hc[c] = "gone" /\ c \in threw
                          /\ Outstanding("recv", c) + Outstanding("send", c) <= 1
                    /\ hc[c] = "send" /\ Outstanding("send", c) = 0 =>
                         dii[c] = "gone" \/ peer[c] = "gone"
                    /\ \/ Outstanding("timer", c) = IF dii[c] = "timer" THEN 1 ELSE 0
                       \/ dii[c] = "lost" /\ c \in threw /\ Outstanding("timer", c) <= 1
  BY DEF EventsHaveTheirFrame
<1>1. ASSUME NEW kind \in {"recv", "send", "timer"}
      PROVE  Cardinality(InFlight(kind, c)) =
               IF \E o \in ops : o.kind = kind /\ o.conn = c THEN 1 ELSE 0
  <2>1. \A o, p \in InFlight(kind, c) : o = p
    BY DEF IInv, Suspended, InFlight
  <2>2. InFlight(kind, c) = {} <=> ~ \E o \in ops : o.kind = kind /\ o.conn = c
    BY DEF InFlight
  <2> QED BY <2>1, <2>2, AtMostOne
<1>2. ASSUME NEW kind \in Io
      PROVE  /\ Outstanding(kind, c) = (IF Pending(kind, c) THEN 1 ELSE 0)
             /\ (Pending(kind, c) => hc[c] \in {kind, "gone"})
  <2>1. Outstanding(kind, c) =
          (IF \E o \in ops : o.kind = kind /\ o.conn = c THEN 1 ELSE 0)
          + (IF \E q \in Queue : q.kind = kind /\ q.conn = c THEN 1 ELSE 0)
    BY <1>1, OneQueued DEF Outstanding, Io
  <2>2. /\ (\E o \in ops : o.kind = kind /\ o.conn = c) => hc[c] \in {kind, "gone"}
        /\ (\E q \in Queue : q.kind = kind /\ q.conn = c) =>
             hc[c] \in {kind, "gone"} /\ ~ \E o \in ops : o.conn = c
    BY DEF IInv, Suspended, Waits
  <2> QED BY <2>1, <2>2 DEF Pending
<1>3. ~(Pending("recv", c) /\ Pending("send", c))
  <2> SUFFICES ASSUME Pending("recv", c), Pending("send", c) PROVE FALSE
    OBVIOUS
  <2>1. /\ \A o \in ops : o.conn = c => \A q \in Queue : q.kind \in Io => q.conn # c
        /\ \A o, p \in ops : o.conn = c /\ p.conn = c => o = p
    BY DEF IInv, Suspended
  <2>2. ~ \E o \in ops : o.conn = c
    BY <2>1 DEF Pending, Io
  <2>3. PICK p \in Queue : p.kind = "recv" /\ p.conn = c
    BY <2>2 DEF Pending
  <2>4. PICK r \in Queue : r.kind = "send" /\ r.conn = c
    BY <2>2 DEF Pending
  <2>5. PICK i \in DOMAIN cq : p = cq[i]
    BY DEF Queue, Range
  <2>6. PICK j \in DOMAIN cq : r = cq[j]
    BY DEF Queue, Range
  <2>7. Alike(cq[i], cq[j])
    BY <2>3, <2>4, <2>5, <2>6 DEF Alike, Io, Conns, NoFile
  <2>8. i = j
    BY <2>7 DEF IInv, OneOfAKind
  <2> QED BY <2>3, <2>4, <2>5, <2>6, <2>8
<1>4. \/ Outstanding("timer", c) = IF dii[c] = "timer" THEN 1 ELSE 0
      \/ dii[c] = "lost" /\ c \in threw /\ Outstanding("timer", c) <= 1
  <2>1. ~ \E o \in ops : o.kind = "timer" /\ o.conn = c
    BY DEF IInv, TypeOK
  <2>2. Outstanding("timer", c) =
          0 + (IF TimerQueued(c) THEN 1 ELSE 0) + (IF timer[c] # NoTimer THEN 1 ELSE 0)
    BY <1>1, <2>1, OneQueued DEF Outstanding, TimerQueued
  <2>3. /\ dii[c] = "timer" => timer[c] # NoTimer \/ TimerQueued(c)
        /\ timer[c] # NoTimer \/ TimerQueued(c) => dii[c] \in {"timer", "lost"}
        /\ timer[c] # NoTimer => ~TimerQueued(c)
        /\ dii[c] = "lost" => c \in threw
    BY DEF IInv, Monitored
  <2> QED BY <2>2, <2>3
<1>5. /\ Outstanding("recv", c) = (IF Pending("recv", c) THEN 1 ELSE 0)
      /\ Outstanding("send", c) = (IF Pending("send", c) THEN 1 ELSE 0)
      /\ Pending("recv", c) => hc[c] \in {"recv", "gone"}
      /\ Pending("send", c) => hc[c] \in {"send", "gone"}
  BY <1>2 DEF Io
<1>6. /\ hc[c] = "recv" => Pending("recv", c)
      /\ hc[c] = "send" => Pending("send", c) \/ dii[c] = "gone" \/ peer[c] = "gone"
      /\ hc[c] = "gone" => c \in threw
  BY DEF Awake, Over, Shut, IInv, Suspended
<1>7. \/ /\ Outstanding("recv", c) = IF hc[c] = "recv" THEN 1 ELSE 0
         /\ Outstanding("send", c) <= IF hc[c] = "send" THEN 1 ELSE 0
      \/ /\ hc[c] = "gone" /\ c \in threw
         /\ Outstanding("recv", c) + Outstanding("send", c) <= 1
  BY <1>3, <1>5, <1>6
<1>8. hc[c] = "send" /\ Outstanding("send", c) = 0 => dii[c] = "gone" \/ peer[c] = "gone"
  BY <1>5, <1>6
<1> QED BY <1>4, <1>7, <1>8

(* A descriptor has the holder that the table names, and no other.          *)
LEMMA InvHeldOnce == IInv => DescriptorsHeldOnce
<1> SUFFICES ASSUME IInv, NEW x \in Fds
             PROVE  Holders(x) = IF file[x] = NoFile THEN {} ELSE {file[x]}
  BY DEF DescriptorsHeldOnce
<1>1. x > 0 /\ x # NoFd
  BY DEF Fds, NoFd
<1>2. Holders(x) = {c \in Conns : fd[c] = x}
                     \cup {q.conn : q \in {p \in Queue : p.kind = "accept" /\ p.res = x}}
  BY DEF Holders, Queue, Range
<1>3. \A c \in Conns : fd[c] = x => file[x] = c
  BY <1>1 DEF IInv, Descriptors
<1>4. \A q \in Queue : q.kind = "accept" /\ q.res = x => file[x] = q.conn /\ q.conn \in Conns
  BY <1>1 DEF IInv, Descriptors
<1>5. \A c \in Conns : c # NoFile
  BY DEF Conns, NoFile
<1>6. CASE file[x] = NoFile
  BY <1>2, <1>3, <1>4, <1>5, <1>6
<1>7. CASE file[x] # NoFile
  <2>1. file[x] \in Conns /\ (fd[file[x]] = x \/ AcceptQueued(file[x], x))
    BY <1>7 DEF IInv, TypeOK, Descriptors
  <2>2. file[x] \in Holders(x)
    BY <1>2, <2>1 DEF AcceptQueued
  <2>3. \A c \in Holders(x) : c = file[x]
    BY <1>2, <1>3, <1>4
  <2> QED BY <1>7, <2>2, <2>3
<1> QED BY <1>6, <1>7

(* An open connection is monitored, and its timer due in time.              *)
LEMMA InvIdleBound == IInv => IdleBound
<1> SUFFICES ASSUME IInv, prompt, ~aborted, NEW c \in Conns \ threw, fd[c] # NoFd
             PROVE  age[c] <= Limit + Period
  BY DEF IdleBound
<1>1. dii[c] = "timer" /\ (timer[c] # NoTimer \/ TimerQueued(c))
  BY DEF IInv, InTime, Monitored
<1>2. timer[c] \in NoTimer .. Period /\ age[c] \in 0 .. OldAge
      /\ Limit \in Nat /\ Period \in Nat
  BY EchoAssumption DEF IInv, TypeOK
<1>3. timer[c] # NoTimer => age[c] + timer[c] <= Limit + Period
  BY <1>1 DEF IInv, InTime
<1>4. TimerQueued(c) => age[c] <= Limit + Period
  BY <1>1 DEF IInv, InTime
<1> QED BY <1>1, <1>2, <1>3, <1>4 DEF NoTimer, OldAge

-----------------------------------------------------------------------------
(* Every variable has its type; in particular no more multishot accepts are *)
(* ever armed than connections can be accepted, and one.                    *)
THEOREM TypeCorrect == Spec => []TypeOK
<1>1. IInv => TypeOK
  BY DEF IInv
<1> QED BY <1>1, Inductive, PTL

(* Whatever the kernel or the queue holds is for the one wait at which its  *)
(* coroutine is suspended, or was left by the one wait whose submit() threw,*)
(* and no coroutine is forgotten unless its send failed after its peer had  *)
(* gone or its connection was closed (EventsHaveTheirFrame), though peers,  *)
(* timers and operations that fail interleave in any way.                   *)
THEOREM EventsFramed == Spec => []EventsHaveTheirFrame
BY InvFramed, InductiveAwake, PTL

(* disconnect_if_idle outlives the frame of handle_client, whose variables  *)
(* it uses, only where a submit() that threw at a wait of handle_client     *)
(* destroyed it; in no other way does handle_client end under it            *)
(* (MonitorOutlived).                                                       *)
THEOREM MonitorSafe == Spec => []MonitorOutlived
<1>1. IInv => MonitorOutlived
  BY DEF IInv
<1> QED BY <1>1, Inductive, PTL

(* Although the kernel reuses descriptors at once, no receive or send is    *)
(* ever started on the connection of another client (OwnConnection).        *)
THEOREM NoForeignConnection == Spec => []OwnConnection
<1>1. IInv => OwnConnection
  BY DEF IInv
<1> QED BY <1>1, Inductive, PTL

(* Every open descriptor has exactly one holder, a socket or an accept      *)
(* completion on its way (DescriptorsHeldOnce).                             *)
THEOREM HeldOnce == Spec => []DescriptorsHeldOnce
BY InvHeldOnce, Inductive, PTL

(* The server listens as long as no accept failed (ListensUnlessFailed).    *)
THEOREM KeepsListening == Spec => []ListensUnlessFailed
<1>1. IInv => ListensUnlessFailed
  BY DEF IInv, Accepting, ListensUnlessFailed
<1> QED BY <1>1, Inductive, PTL

(* A server that keeps up leaves no connection open for longer than Limit + *)
(* Period seconds after its last message, but for those for which a         *)
(* submit() threw (IdleBound).                                              *)
THEOREM IdleClosedInTime == Spec => []IdleBound
BY InvIdleBound, Inductive, PTL

=============================================================================
