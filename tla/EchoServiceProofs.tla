-------------------------- MODULE EchoServiceProofs --------------------------
(***************************************************************************)
(* The proof that EchoServer implements EchoService: what a peer gets back *)
(* are bytes it sent, in order and once, and all of them as long as no     *)
(* send was short.                                                         *)
(***************************************************************************)
EXTENDS EchoServerProofs

Bytes == Conns \X (1 .. MaxBytes)

(* The bytes of c that follow the first n, without a gap.                   *)
Contiguous(s, c, n) == \A i \in 1 .. Len(s) : s[i] = <<c, n + i>>

(* What was echoed before, and the first k bytes of b.                      *)
Echo(s, b, k) == s \o SubSeq(b, 1, k)

(* Bytes of c in the order it sent them, none twice, none beyond the first n.*)
InOrder(s, c, n) ==
  /\ \A i \in 1 .. Len(s) : s[i][1] = c /\ s[i][2] <= n
  /\ \A i, j \in 1 .. Len(s) : i < j => s[i][2] < s[j][2]

(* The buffer holds what was received last from when it was received until  *)
(* it was sent.                                                             *)
Received(c) == \E q \in Queue : q.kind = "recv" /\ q.conn = c /\ q.res > 0
Sending(c) == \E o \in ops : o.kind = "send" /\ o.conn = c
InBuffer(c) == Received(c) \/ Sending(c)
Unsent(c) == IF InBuffer(c) THEN Len(buf[c]) ELSE 0

(* As long as handle_client echoes, nothing but the buffer is missing at a  *)
(* peer that is there; it stops at a send that failed and when it ends, but *)
(* a send that it left because submit() threw still sends the buffer.       *)
Flowing(c) ==
  \/ hc[c] = "recv"
  \/ Sending(c)
  \/ hc[c] = "send" /\ \E q \in Queue : q.kind = "send" /\ q.conn = c /\ q.res > 0

Echoed(c) ==
  /\ InBuffer(c) =>
       /\ Len(buf[c]) <= taken[c]
       /\ Contiguous(buf[c], c, taken[c] - Len(buf[c]))
  /\ InOrder(echoed[c], c, taken[c] - Unsent(c))
  /\ c \notin cut => Contiguous(echoed[c], c, 0)
  /\ c \notin cut /\ peer[c] = "here" /\ Flowing(c) => Len(echoed[c]) = taken[c] - Unsent(c)
  /\ hc[c] = "none" => taken[c] = 0 /\ echoed[c] = <<>>

Data == \A c \in Conns : Echoed(c)

-----------------------------------------------------------------------------
(* Sending the first k bytes of a buffer after what was sent before keeps   *)
(* the order, and leaves no gap if there was none.                          *)
LEMMA AppendBlock ==
  ASSUME NEW s \in Seq(Bytes), NEW b \in Seq(Bytes), NEW k \in 1 .. Len(b),
         NEW c \in Conns, NEW n \in Nat, Contiguous(b, c, n), InOrder(s, c, n)
  PROVE  LET t == Echo(s, b, k) IN
         /\ t \in Seq(Bytes) /\ Len(t) = Len(s) + k
         /\ \A i \in 1 .. Len(s) : t[i] = s[i]
         /\ InOrder(t, c, n + Len(b))
         /\ Contiguous(s, c, 0) /\ Len(s) = n => Contiguous(t, c, 0)
<1> DEFINE t == Echo(s, b, k)
           p == SubSeq(b, 1, k)
<1>1. Len(s) \in Nat /\ Len(b) \in Nat /\ k \in 1 .. Len(b)
  OBVIOUS
<1>2. p \in Seq(Bytes) /\ Len(p) = k /\ \A i \in 1 .. k : p[i] = b[i]
  <2>1. \A i \in 1 .. k : b[i] \in Bytes
    BY <1>1
  <2>2. /\ SubSeq(b, 1, k) \in Seq(Bytes)
        /\ Len(SubSeq(b, 1, k)) = IF 1 <= k THEN k - 1 + 1 ELSE 0
        /\ \A i \in 1 .. k - 1 + 1 : SubSeq(b, 1, k)[i] = b[1 + i - 1]
    BY <1>1, <2>1, SubSeqProperties
  <2>3. k - 1 + 1 = k /\ 1 <= k /\ \A i \in 1 .. k : 1 + i - 1 = i
    OBVIOUS
  <2> QED BY <2>2, <2>3
<1>3. \A i \in 1 .. k : p[i] = <<c, n + i>>
  BY <1>1, <1>2 DEF Contiguous
<1> HIDE DEF p, t
<1>4. /\ t \in Seq(Bytes) /\ Len(t) = Len(s) + k
      /\ \A i \in 1 .. Len(s) : t[i] = s[i]
      /\ \A i \in 1 .. k : t[Len(s) + i] = <<c, n + i>>
  <2>1. t = s \o p
    BY DEF p, t, Echo
  <2>2. /\ s \o p \in Seq(Bytes) /\ Len(s \o p) = Len(s) + Len(p)
        /\ \A i \in 1 .. Len(s) + Len(p) :
             (s \o p)[i] = IF i <= Len(s) THEN s[i] ELSE p[i - Len(s)]
    BY <1>2, ConcatProperties
  <2>3. \A i \in 1 .. Len(s) : t[i] = s[i]
    BY <1>1, <1>2, <2>1, <2>2
  <2>4. ASSUME NEW i \in 1 .. k
        PROVE  t[Len(s) + i] = <<c, n + i>>
    <3>1. Len(s) + i \in 1 .. Len(s) + k /\ ~(Len(s) + i <= Len(s)) /\ Len(s) + i - Len(s) = i
      BY <1>1
    <3> QED BY <1>2, <1>3, <2>1, <2>2, <3>1
  <2> QED BY <1>2, <2>1, <2>2, <2>3, <2>4
<1>5. ASSUME NEW i \in 1 .. Len(t), i \notin 1 .. Len(s)
      PROVE  /\ i > Len(s)
             /\ t[i] = <<c, n + (i - Len(s))>>
             /\ t[i][1] = c /\ t[i][2] = n + (i - Len(s))
             /\ t[i][2] \in Int /\ t[i][2] > n /\ t[i][2] <= n + Len(b)
  <2> DEFINE m == i - Len(s)
  <2>1. m \in 1 .. k /\ i = Len(s) + m /\ m >= 1 /\ m <= Len(b) /\ m \in Int
    BY <1>1, <1>4, <1>5
  <2>2. t[i] = <<c, n + m>>
    BY <1>4, <2>1
  <2> HIDE DEF m
  <2>3. t[i][1] = c /\ t[i][2] = n + m
    BY <2>2
  <2>4. i > Len(s) /\ n + m \in Int /\ n + m > n /\ n + m <= n + Len(b)
    BY <1>1, <2>1
  <2> QED BY <2>2, <2>3, <2>4 DEF m
<1>6. InOrder(t, c, n + Len(b))
  <2>0. \A i \in 1 .. Len(s) : s[i][2] \in Int
    BY DEF Bytes
  <2>1. ASSUME NEW i \in 1 .. Len(t)
        PROVE  t[i][1] = c /\ t[i][2] <= n + Len(b)
    <3>1. CASE i \in 1 .. Len(s)
      <4>1. t[i][1] = c /\ t[i][2] <= n /\ t[i][2] \in Int
        BY <1>4, <2>0, <3>1 DEF InOrder
      <4> QED BY <1>1, <4>1
    <3>2. CASE i \notin 1 .. Len(s)
      BY <1>5, <3>2
    <3> QED BY <3>1, <3>2
  <2>2. ASSUME NEW i \in 1 .. Len(t), NEW j \in 1 .. Len(t), i < j
        PROVE  t[i][2] < t[j][2]
    <3>1. CASE j \in 1 .. Len(s)
      <4>1. i \in 1 .. Len(s)
        BY <1>1, <1>4, <2>2, <3>1
      <4> QED BY <1>4, <2>2, <3>1, <4>1 DEF InOrder
    <3>2. CASE j \notin 1 .. Len(s) /\ i \in 1 .. Len(s)
      <4>1. t[i][2] <= n /\ t[i][2] \in Int
        BY <1>4, <2>0, <3>2 DEF InOrder
      <4>2. t[j][2] > n /\ t[j][2] \in Int
        BY <1>5, <3>2
      <4>3. \A x, y \in Int : x <= n /\ y > n => x < y
        OBVIOUS
      <4> QED BY ONLY <4>1, <4>2, <4>3
    <3>3. CASE j \notin 1 .. Len(s) /\ i \notin 1 .. Len(s)
      <4>1. t[i][2] = n + (i - Len(s)) /\ t[j][2] = n + (j - Len(s))
        BY <1>5, <3>3
      <4>2. i \in Int /\ j \in Int
        BY <1>1, <1>4
      <4> QED BY <1>1, <2>2, <4>1, <4>2
    <3> QED BY <3>1, <3>2, <3>3
  <2> QED BY <2>1, <2>2 DEF InOrder
<1>7. ASSUME Contiguous(s, c, 0), Len(s) = n
      PROVE  Contiguous(t, c, 0)
  <2> SUFFICES ASSUME NEW i \in 1 .. Len(t) PROVE t[i] = <<c, 0 + i>>
    BY DEF Contiguous
  <2>1. CASE i \in 1 .. Len(s)
    BY <1>4, <1>7, <2>1 DEF Contiguous
  <2>2. CASE i \notin 1 .. Len(s)
    <3>1. t[i] = <<c, n + (i - Len(s))>>
      BY <1>5, <2>2
    <3>2. n + (i - Len(s)) = 0 + i
      BY <1>1, <1>4, <1>7
    <3> QED BY <3>1, <3>2
  <2> QED BY <2>1, <2>2
<1> QED BY <1>4, <1>6, <1>7 DEF t

(* Nothing is outstanding for a coroutine but at its wait, or left by it,   *)
(* and one thing.                                                           *)
AtItsWait ==
  \A c \in Conns :
    /\ Received(c) => Waits(c, "recv") /\ ~Sending(c)
    /\ Sending(c) => Waits(c, "send")
    /\ InBuffer(c) \/ Flowing(c) => hc[c] \in {"recv", "send", "gone"}

(* The inductive invariant says so.                                         *)
LEMMA InvAtItsWait == IInv => AtItsWait
<1> SUFFICES ASSUME IInv, NEW c \in Conns
             PROVE  /\ Received(c) => Waits(c, "recv") /\ ~Sending(c)
                    /\ Sending(c) => Waits(c, "send")
                    /\ InBuffer(c) \/ Flowing(c) => hc[c] \in {"recv", "send", "gone"}
  BY DEF AtItsWait
<1>1. Received(c) => Waits(c, "recv") /\ ~Sending(c)
  BY DEF IInv, Suspended, Io, Received, Sending
<1>2. Sending(c) => Waits(c, "send")
  BY DEF IInv, Suspended, Sending
<1> QED BY <1>1, <1>2 DEF InBuffer, Flowing, Waits

(* And so of the next state.                                                *)
LEMMA InvAtItsWaitNext == IInv' => AtItsWait'
BY InvAtItsWait, PTL

(* The data of a connection are not touched: then what the invariant says   *)
(* of them stays, if the buffer is not filled thereby and handle_client     *)
(* does not begin to echo with something missing.                           *)
LEMMA DataStay ==
  ASSUME IInv, Data, NEW c \in Conns,
         taken'[c] = taken[c], echoed'[c] = echoed[c], buf'[c] = buf[c],
         c \in cut => c \in cut',
         InBuffer(c)' => InBuffer(c),
         hc'[c] = "none" => hc[c] = "none",
         Flowing(c)' /\ peer'[c] = "here" =>
           \/ Flowing(c) /\ peer[c] = "here" /\ (InBuffer(c) => InBuffer(c)')
           \/ hc[c] = "none"
  PROVE  Echoed(c)'
<1>1. Echoed(c)
  BY DEF Data
<1>2. /\ taken[c] \in Nat /\ echoed[c] \in Seq(Bytes)
      /\ buf[c] \in Seq(Bytes) /\ Len(buf[c]) \in Nat
      /\ \A i \in 1 .. Len(echoed[c]) : echoed[c][i][2] \in Int
  <2>1. /\ taken[c] \in 0 .. MaxBytes /\ echoed[c] \in Seq(Bytes) /\ buf[c] \in Seq(Bytes)
    BY DEF IInv, Shapes, Bytes
  <2> QED BY <2>1 DEF Bytes
<1>3. InBuffer(c)' =>
        /\ Len(buf'[c]) <= taken'[c]
        /\ Contiguous(buf'[c], c, taken'[c] - Len(buf'[c]))
  BY <1>1 DEF Echoed
<1>4. Unsent(c)' \in Nat /\ Unsent(c) \in Nat /\ Unsent(c)' <= Unsent(c)
  BY <1>2 DEF Unsent
<1>5. InOrder(echoed'[c], c, taken'[c] - Unsent(c)')
  <2> DEFINE s == echoed[c]
             m == taken[c] - Unsent(c)
             n == taken[c] - Unsent(c)'
  <2>1. InOrder(s, c, m) /\ m \in Int /\ n \in Int /\ m <= n
    BY <1>1, <1>2, <1>4 DEF Echoed
  <2>2. \A i \in 1 .. Len(s) : s[i][2] \in Int
    BY <1>2
  <2> HIDE DEF s, m, n
  <2>3. InOrder(s, c, n)
    BY <2>1, <2>2 DEF InOrder
  <2> QED BY <2>3 DEF s, n
<1>6. c \notin cut' => Contiguous(echoed'[c], c, 0)
  BY <1>1 DEF Echoed
<1>7. ASSUME c \notin cut', peer'[c] = "here", Flowing(c)'
      PROVE  Len(echoed'[c]) = taken'[c] - Unsent(c)'
  <2>1. CASE Flowing(c) /\ peer[c] = "here" /\ (InBuffer(c) => InBuffer(c)')
    <3>1. Unsent(c)' = Unsent(c)
      BY <2>1 DEF Unsent
    <3>2. Len(echoed[c]) = taken[c] - Unsent(c)
      BY <1>1, <1>7, <2>1 DEF Echoed
    <3> QED BY <3>1, <3>2
  <2>2. CASE hc[c] = "none"
    <3>1. ~InBuffer(c)
      BY <2>2, InvAtItsWait DEF AtItsWait
    <3>2. taken[c] = 0 /\ echoed[c] = <<>>
      BY <1>1, <2>2 DEF Echoed
    <3>3. Unsent(c)' = 0
      BY <3>1 DEF Unsent
    <3>4. Len(echoed'[c]) = 0 /\ taken'[c] = 0
      BY <3>2
    <3> QED BY <3>3, <3>4
  <2> QED BY <1>7, <2>1, <2>2
<1>8. hc'[c] = "none" => taken'[c] = 0 /\ echoed'[c] = <<>>
  BY <1>1 DEF Echoed
<1> QED BY <1>3, <1>5, <1>6, <1>7, <1>8 DEF Echoed

(* A step that resumes no handle_client and completes nothing that brings   *)
(* or takes bytes keeps what the invariant says of all data.                *)
LEMMA Quiet ==
  ASSUME IInv, Data, UNCHANGED <<taken, echoed, cut, buf, hc>>, ops' \subseteq ops,
         \A q : q.kind \in {"recv", "send"} /\ q.res > 0 => (q \in Queue' <=> q \in Queue),
         \A c \in Conns : peer'[c] = "here" => peer[c] = "here" \/ hc[c] = "none"
  PROVE  Data'
<1> SUFFICES ASSUME NEW c \in Conns PROVE Echoed(c)'
  BY DEF Data
<1>1. /\ Received(c)' <=> Received(c)
      /\ Sending(c)' => Sending(c)
      /\ Flowing(c)' => Flowing(c)
  BY DEF Received, Sending, Flowing
<1>2. Flowing(c)' /\ InBuffer(c) => InBuffer(c)'
  <2> SUFFICES ASSUME Flowing(c)', Sending(c), ~Sending(c)' PROVE FALSE
    BY <1>1 DEF InBuffer
  <2>1. hc[c] \in {"send", "gone"}
    BY InvAtItsWait DEF AtItsWait, Waits
  <2>2. PICK q \in Queue : q.kind = "send" /\ q.conn = c
    BY <2>1 DEF Flowing
  <2> QED BY <2>2 DEF IInv, Suspended, Sending, Io
<1>3. InBuffer(c)' => InBuffer(c)
  BY <1>1 DEF InBuffer
<1> QED BY <1>1, <1>2, <1>3, DataStay

(* A receive fills the buffer with the bytes that follow.                   *)
LEMMA ReceivesData ==
  ASSUME IInv, IInv', Data, NEW o \in ops, KernelReceives(o)
  PROVE  Data'
<1> USE DEF tables, frames, program
<1> DEFINE c == o.conn
<1>1. /\ o.kind = "recv" /\ o.file = c /\ c \in Conns
      /\ ops' = ops \ {o}
      /\ UNCHANGED <<peer, sent, echoed, cut, hc>>
  BY DEF KernelReceives, IInv, TypeOK, OwnConnection
<1>2. PICK k \in 1 .. sent[c] - taken[c] :
        /\ buf' = [buf EXCEPT ![c] = [i \in 1 .. k |-> <<c, taken[c] + i>>]]
        /\ taken' = [taken EXCEPT ![c] = @ + k]
        /\ Post(Cqe("recv", c, k))
  BY <1>1 DEF KernelReceives
<1>3. /\ taken \in [Conns -> 0 .. MaxBytes] /\ sent \in [Conns -> 0 .. MaxBytes]
      /\ buf \in [Conns -> Seq(Bytes)] /\ echoed \in [Conns -> Seq(Bytes)]
      /\ MaxBytes \in Nat
  BY EchoAssumption DEF IInv, TypeOK, Shapes, Bytes
<1> HIDE DEF c
<1>4. k \in Nat \ {0} /\ taken[c] \in Nat /\ sent[c] \in Nat
  BY <1>1, <1>2, <1>3
<1>5. Queue' = Queue \cup {Cqe("recv", c, k)}
  BY <1>2, PostedQueue
<1>6. /\ Cqe("recv", c, k).kind = "recv" /\ Cqe("recv", c, k).conn = c
      /\ Cqe("recv", c, k).res = k
  BY DEF Cqe
<1>7. /\ hc[c] \in {"recv", "gone"} /\ ~InBuffer(c) /\ Received(c)'
      /\ Flowing(c)' => Flowing(c)
  <2>1. hc[c] \in {"recv", "gone"}
    BY <1>1 DEF IInv, Suspended, Waits, c
  <2>2. ~Received(c)
    BY <1>1 DEF IInv, Suspended, Io, Received, c
  <2>3. ~Sending(c) /\ ~Sending(c)'
    BY <1>1 DEF IInv, Suspended, Sending, c
  <2>4. Received(c)'
    BY <1>4, <1>5, <1>6 DEF Received
  <2>5. Flowing(c)' => Flowing(c)
    BY <1>1, <2>1, <2>3 DEF Flowing
  <2> QED BY <2>1, <2>2, <2>3, <2>4, <2>5 DEF InBuffer
<1>8. ASSUME NEW d \in Conns, d # c
      PROVE  Echoed(d)'
  <2>1. taken'[d] = taken[d] /\ buf'[d] = buf[d] /\ echoed'[d] = echoed[d]
    BY <1>1, <1>2, <1>3, <1>8
  <2>2. /\ Received(d)' <=> Received(d)
        /\ Sending(d)' <=> Sending(d)
        /\ Flowing(d)' <=> Flowing(d)
    BY <1>1, <1>5, <1>6, <1>8 DEF Received, Sending, Flowing, c
  <2>3. InBuffer(d)' <=> InBuffer(d)
    BY <2>2 DEF InBuffer
  <2> QED BY <1>1, <2>1, <2>2, <2>3, DataStay
<1>9. Echoed(c)'
  <2>1. buf'[c] = [i \in 1 .. k |-> <<c, taken[c] + i>>] /\ taken'[c] = taken[c] + k
    BY <1>1, <1>2, <1>3
  <2>2. Len(buf'[c]) = k /\ \A i \in 1 .. k : buf'[c][i] = <<c, taken[c] + i>>
    BY <1>4, <2>1
  <2>3. InBuffer(c)' /\ Unsent(c)' = k /\ Unsent(c) = 0
    BY <1>7, <2>2 DEF InBuffer, Unsent
  <2>4. taken'[c] - k = taken[c] /\ taken[c] - 0 = taken[c] /\ k <= taken'[c]
    BY <1>4, <2>1
  <2>5. Contiguous(buf'[c], c, taken'[c] - Len(buf'[c]))
    BY <2>2, <2>4 DEF Contiguous
  <2>6. Echoed(c) /\ (Flowing(c)' => Flowing(c))
    BY <1>1, <1>7 DEF Data
  <2>7. InOrder(echoed'[c], c, taken'[c] - Unsent(c)')
    BY <1>1, <2>3, <2>4, <2>6 DEF Echoed
  <2>8. c \notin cut' /\ peer'[c] = "here" /\ Flowing(c)' =>
          Len(echoed'[c]) = taken'[c] - Unsent(c)'
    BY <1>1, <2>3, <2>4, <2>6 DEF Echoed
  <2> QED BY <1>1, <1>7, <2>2, <2>4, <2>5, <2>6, <2>7, <2>8 DEF Echoed
<1> QED BY <1>8, <1>9 DEF Data

(* What a send of the buffer of c does to what c got back: it gets k more   *)
(* of the bytes that follow, or has left and gets nothing.                  *)
LEMMA SendsFacts ==
  ASSUME IInv, IInv', Data, NEW o \in ops, KernelSends(o), NEW c, c = o.conn
  PROVE  /\ c \in Conns /\ o.file = c /\ ops' = ops \ {o} /\ Sending(c)
         /\ UNCHANGED <<peer, sent, taken, buf, hc>>
         /\ \E k \in 1 .. Len(buf[c]) :
              /\ Queue' = Queue \cup {Cqe("send", c, k)}
              /\ cut' = IF k < Len(buf[c]) THEN cut \cup {c} ELSE cut
              /\ \/ peer[c] # "here" /\ echoed' = echoed
                 \/ /\ peer[c] = "here"
                    /\ echoed' = [echoed EXCEPT ![c] = @ \o SubSeq(buf[c], 1, k)]
                    /\ Len(echoed'[c]) = Len(echoed[c]) + k
                    /\ echoed'[c] \in Seq(Bytes)
                    /\ \A i \in 1 .. Len(echoed[c]) : echoed'[c][i] = echoed[c][i]
                    /\ InOrder(echoed'[c], c, taken[c])
                    /\ c \notin cut => Contiguous(echoed'[c], c, 0)
<1> USE DEF tables, frames, program
<1>1. /\ o.kind = "send" /\ o.file = c /\ c \in Conns
      /\ ops' = ops \ {o} /\ Sending(c)
      /\ UNCHANGED <<peer, sent, taken, buf, hc>>
  BY DEF KernelSends, IInv, TypeOK, OwnConnection, Sending
<1>2. PICK k \in 1 .. Len(buf[c]) :
        /\ echoed' = IF peer[c] = "here"
                     THEN [echoed EXCEPT ![c] = @ \o SubSeq(buf[c], 1, k)]
                     ELSE echoed
        /\ cut' = IF k < Len(buf[c]) THEN cut \cup {c} ELSE cut
        /\ Post(Cqe("send", c, k))
  BY <1>1 DEF KernelSends
<1>3. Queue' = Queue \cup {Cqe("send", c, k)}
  BY <1>2, PostedQueue
<1>4. /\ echoed \in [Conns -> Seq(Bytes)] /\ echoed[c] \in Seq(Bytes)
      /\ buf[c] \in Seq(Bytes) /\ Len(buf[c]) \in Nat /\ taken[c] \in Nat
  <2>1. /\ echoed \in [Conns -> Seq(Bytes)] /\ echoed[c] \in Seq(Bytes)
        /\ buf[c] \in Seq(Bytes) /\ taken[c] \in 0 .. MaxBytes
    BY <1>1 DEF IInv, Shapes, Bytes
  <2> QED BY <2>1
<1>5. ASSUME peer[c] = "here"
      PROVE  /\ Len(echoed'[c]) = Len(echoed[c]) + k
             /\ echoed'[c] \in Seq(Bytes)
             /\ \A i \in 1 .. Len(echoed[c]) : echoed'[c][i] = echoed[c][i]
             /\ InOrder(echoed'[c], c, taken[c])
             /\ c \notin cut => Contiguous(echoed'[c], c, 0)
  <2> DEFINE s == echoed[c]
             b == buf[c]
             n == taken[c] - Len(b)
             t == Echo(s, b, k)
  <2>1. echoed'[c] = t
    <3> HIDE DEF t
    <3>1. echoed' = [echoed EXCEPT ![c] = t]
      BY <1>2, <1>5 DEF t, Echo
    <3> QED BY <1>1, <1>4, <3>1
  <2>2. Echoed(c) /\ InBuffer(c) /\ Flowing(c) /\ Unsent(c) = Len(b)
    BY <1>1 DEF Data, InBuffer, Flowing, Unsent
  <2>3. n \in Nat /\ n + Len(b) = taken[c]
    <3>1. Len(b) <= taken[c]
      BY <2>2 DEF Echoed
    <3> QED BY <1>4, <3>1
  <2>4. Contiguous(b, c, n) /\ InOrder(s, c, n)
    BY <2>2 DEF Echoed
  <2>5. c \notin cut => Contiguous(s, c, 0) /\ Len(s) = n
    BY <1>5, <2>2 DEF Echoed
  <2> HIDE DEF n, t
  <2>6. /\ t \in Seq(Bytes) /\ Len(t) = Len(s) + k
        /\ \A i \in 1 .. Len(s) : t[i] = s[i]
        /\ InOrder(t, c, n + Len(b))
        /\ Contiguous(s, c, 0) /\ Len(s) = n => Contiguous(t, c, 0)
    BY <1>1, <1>4, <2>3, <2>4, AppendBlock DEF t
  <2> QED BY <2>1, <2>3, <2>5, <2>6
<1> QED BY <1>1, <1>2, <1>3, <1>5

(* After a send nothing of the buffer is missing, unless the send was short.*)
LEMMA SendsData ==
  ASSUME IInv, IInv', Data, NEW o \in ops, KernelSends(o)
  PROVE  Data'
<1> DEFINE c == o.conn
<1>1. /\ c \in Conns /\ ops' = ops \ {o} /\ Sending(c)
      /\ UNCHANGED <<peer, taken, buf, hc>>
  BY SendsFacts
<1>2. PICK k \in 1 .. Len(buf[c]) :
        /\ Queue' = Queue \cup {Cqe("send", c, k)}
        /\ cut' = IF k < Len(buf[c]) THEN cut \cup {c} ELSE cut
        /\ \/ peer[c] # "here" /\ echoed' = echoed
           \/ /\ peer[c] = "here"
              /\ echoed' = [echoed EXCEPT ![c] = @ \o SubSeq(buf[c], 1, k)]
              /\ Len(echoed'[c]) = Len(echoed[c]) + k
              /\ echoed'[c] \in Seq(Bytes)
              /\ InOrder(echoed'[c], c, taken[c])
              /\ c \notin cut => Contiguous(echoed'[c], c, 0)
  BY SendsFacts
<1>3. /\ echoed \in [Conns -> Seq(Bytes)] /\ taken[c] \in Nat /\ Len(buf[c]) \in Nat
      /\ Len(echoed[c]) \in Nat
  <2>1. /\ echoed \in [Conns -> Seq(Bytes)] /\ echoed[c] \in Seq(Bytes)
        /\ buf[c] \in Seq(Bytes) /\ taken[c] \in 0 .. MaxBytes
    BY <1>1 DEF IInv, Shapes, Bytes
  <2> QED BY <2>1
<1>4. /\ Cqe("send", c, k).kind = "send" /\ Cqe("send", c, k).conn = c
  BY DEF Cqe
<1>5. /\ hc[c] \in {"send", "gone"} /\ InBuffer(c) /\ Flowing(c)
      /\ Unsent(c) = Len(buf[c]) /\ Echoed(c)
  BY <1>1, InvAtItsWait DEF AtItsWait, Waits, InBuffer, Flowing, Unsent, Data
<1>6. ~InBuffer(c)'
  <2>1. ~Received(c)
    BY InvAtItsWait, <1>1 DEF AtItsWait
  <2>2. ~Received(c)'
    BY <1>2, <1>4, <2>1 DEF Received
  <2>3. ~Sending(c)'
    BY <1>1 DEF IInv, Suspended, Sending
  <2> QED BY <2>2, <2>3 DEF InBuffer
<1> HIDE DEF c
<1>7. ASSUME NEW d \in Conns, d # c
      PROVE  Echoed(d)'
  <2>1. taken'[d] = taken[d] /\ buf'[d] = buf[d] /\ echoed'[d] = echoed[d]
        /\ (d \in cut => d \in cut')
    BY <1>1, <1>2, <1>3, <1>7
  <2>2. /\ Received(d)' <=> Received(d)
        /\ Sending(d)' <=> Sending(d)
        /\ Flowing(d)' <=> Flowing(d)
    BY <1>1, <1>2, <1>4, <1>7 DEF Received, Sending, Flowing, c
  <2>3. InBuffer(d)' <=> InBuffer(d)
    BY <2>2 DEF InBuffer
  <2> QED BY <1>1, <2>1, <2>2, <2>3, DataStay
<1>8. Echoed(c)'
  <2>1. Unsent(c)' = 0 /\ taken'[c] - 0 = taken[c]
    BY <1>1, <1>3, <1>6 DEF Unsent
  <2>2. CASE peer[c] # "here"
    <3>1. echoed' = echoed /\ (c \notin cut' => c \notin cut)
      BY <1>2, <2>2
    <3>2. Len(buf[c]) <= taken[c]
      BY <1>5 DEF Echoed
    <3>3. InOrder(echoed[c], c, taken[c])
      <4> DEFINE s == echoed[c]
                 m == taken[c] - Len(buf[c])
                 n == taken[c]
      <4>1. InOrder(s, c, m) /\ m \in Int /\ n \in Int /\ m <= n
        BY <1>3, <1>5, <3>2 DEF Echoed
      <4>2. \A i \in 1 .. Len(s) : s[i][2] \in Int
        BY <1>1, <1>3 DEF Bytes
      <4> HIDE DEF s, m, n
      <4>3. InOrder(s, c, n)
        BY <4>1, <4>2 DEF InOrder
      <4> QED BY <4>3 DEF s, n
    <3>4. peer'[c] # "here" /\ hc'[c] # "none"
      BY <1>1, <1>5, <2>2
    <3> QED BY <1>5, <1>6, <2>1, <3>1, <3>3, <3>4 DEF Echoed
  <2>3. CASE peer[c] = "here"
    <3>1. /\ Len(echoed'[c]) = Len(echoed[c]) + k
          /\ InOrder(echoed'[c], c, taken[c])
          /\ c \notin cut => Contiguous(echoed'[c], c, 0)
      BY <1>2, <2>3
    <3>2. c \notin cut' => c \notin cut /\ k = Len(buf[c])
      BY <1>2, <1>3
    <3>3. c \notin cut' => Len(echoed'[c]) = taken'[c] - Unsent(c)'
      <4>1. c \notin cut => Len(echoed[c]) = taken[c] - Len(buf[c])
        BY <1>5, <2>3 DEF Echoed
      <4> QED BY <1>3, <2>1, <3>1, <3>2, <4>1
    <3>4. hc'[c] # "none"
      BY <1>1, <1>5
    <3> QED BY <1>6, <2>1, <3>1, <3>2, <3>3, <3>4 DEF Echoed
  <2> QED BY <2>2, <2>3
<1> QED BY <1>7, <1>8 DEF Data

(* A handle_client that starts begins with nothing missing.                 *)
LEMMA AcceptedData ==
  ASSUME IInv, IInv', Data, NEW q, OnAccept(q), q.res > 0
  PROVE  Data'
<1> DEFINE c == q.conn
<1> USE DEF net
<1>1. /\ q \in Queue /\ q.kind = "accept" /\ Queue = Queue' \cup {q}
  BY Handled DEF OnAccept
<1>2. c \in Conns /\ hc[c] = "none"
  BY <1>1 DEF IInv, Descriptors
<1>3. /\ UNCHANGED <<net, buf>>
      /\ ops' = ops \cup {Op("recv", c, FileOf(q.res))}
      /\ \E h \in {"recv", "gone"} : hc' = [hc EXCEPT ![c] = h]
  <2>1. /\ \E m \in 0 .. 1, n \in 0 .. 2 : HandleClient(c, q.res, m, n)
        /\ UNCHANGED <<net, buf>>
    BY <1>1, EchoAssumption DEF OnAccept, IInv, TypeOK, Queue
  <2> QED BY <2>1 DEF HandleClient, Receive, Await, Submitted, Unwound, Terminated
<1> SUFFICES ASSUME NEW d \in Conns PROVE Echoed(d)'
  BY DEF Data
<1> HIDE DEF c
<1>4. /\ d = c => hc'[d] \in {"recv", "gone"}
      /\ d # c => hc'[d] = hc[d]
  BY <1>2, <1>3 DEF IInv, TypeOK
<1>5. /\ Received(d)' <=> Received(d)
      /\ Sending(d)' <=> Sending(d)
  BY <1>1, <1>3 DEF Received, Sending, Op
<1>6. InBuffer(d)' <=> InBuffer(d)
  BY <1>5 DEF InBuffer
<1>7. d # c => (Flowing(d)' <=> Flowing(d))
  BY <1>1, <1>4, <1>5 DEF Flowing
<1> QED BY <1>2, <1>3, <1>4, <1>6, <1>7, DataStay

(* handle_client of c goes on: what was received is in the buffer until it  *)
(* is sent, and if it ends nothing more is promised.                        *)
LEMMA ResumedData ==
  ASSUME IInv, IInv', Data, NEW kind \in Io, NEW q, Handles(kind, q),
         q.res > 0 \/ kind = "recv",
         NEW c, c = q.conn, hc[c] # "gone", UNCHANGED <<net, buf>>,
         NEW h, hc' = [hc EXCEPT ![c] = h],
         \/ h \in {"await", "stale"} /\ ops' = ops
         \/ /\ h \in {"send", "gone"} /\ kind = "recv" /\ q.res > 0
            /\ ops' = ops \cup {Op("send", c, FileOf(fd[c]))}
         \/ /\ h \in {"recv", "gone"} /\ kind = "send"
            /\ ops' = ops \cup {Op("recv", c, FileOf(fd[c]))}
  PROVE  Data'
<1> USE DEF net
<1>1. /\ q \in Queue /\ q.kind = kind /\ Queue = Queue' \cup {q}
  BY Handled
<1>2. c \in Conns /\ hc[c] = kind /\ \A o \in ops : o.conn # c
  BY <1>1 DEF IInv, Suspended, Waits
<1>3. /\ \A d \in Conns : hc'[d] = IF d = c THEN h ELSE hc[d]
      /\ \A o \in ops' : o \in ops \/ (o.conn = c /\ h # kind /\ o.kind # kind)
      /\ \A o \in ops : o \in ops'
  <2>1. hc \in [Conns -> {"none", "recv", "send", "await", "stale", "gone"}]
    BY DEF IInv, TypeOK
  <2>2. \A k, x : Op(k, c, x).kind = k /\ Op(k, c, x).conn = c
    BY DEF Op
  <2>3. \/ ops' = ops
        \/ h # kind /\ kind = "recv" /\ \E x : ops' = ops \cup {Op("send", c, x)}
        \/ h # kind /\ kind = "send" /\ \E x : ops' = ops \cup {Op("recv", c, x)}
    OBVIOUS
  <2> QED BY <1>2, <2>1, <2>2, <2>3
<1> SUFFICES ASSUME NEW d \in Conns PROVE Echoed(d)'
  BY DEF Data
<1>4. CASE d # c
  <2>1. /\ Received(d)' <=> Received(d)
        /\ Sending(d)' <=> Sending(d)
    BY <1>1, <1>3, <1>4 DEF Received, Sending
  <2>2. /\ InBuffer(d)' <=> InBuffer(d)
        /\ Flowing(d)' <=> Flowing(d)
    BY <1>1, <1>3, <1>4, <2>1 DEF InBuffer, Flowing
  <2> QED BY <1>3, <1>4, <2>2, DataStay
<1>5. CASE d = c
  <2>0. /\ hc'[c] = h /\ h # "none"
    BY <1>2, <1>3
  <2>1. AtItsWait /\ AtItsWait'
    <3>1. IInv => AtItsWait
      BY InvAtItsWait
    <3>2. IInv' => AtItsWait'
      BY InvAtItsWaitNext
    <3> QED BY <3>1, <3>2
  <2>2. CASE h \in {"await", "stale"}
    <3>1. ~InBuffer(c)' /\ ~Flowing(c)'
      BY <1>2, <2>0, <2>1, <2>2 DEF AtItsWait
    <3> QED BY <1>5, <2>0, <3>1, DataStay
  <2>3. CASE kind = "recv" /\ q.res > 0 /\ ops' = ops \cup {Op("send", c, FileOf(fd[c]))}
    <3>1. Received(c) /\ Flowing(c) /\ InBuffer(c)
      BY <1>1, <1>2, <2>3 DEF Received, Flowing, InBuffer
    <3>2. Sending(c)' /\ InBuffer(c)'
      <4> DEFINE o == Op("send", c, FileOf(fd[c]))
      <4>1. o \in ops'
        BY <2>3
      <4>2. o.kind = "send" /\ o.conn = c
        BY DEF Op
      <4> HIDE DEF o
      <4> QED BY <4>1, <4>2 DEF Sending, InBuffer
    <3> QED BY <1>5, <2>0, <3>1, <3>2, DataStay
  <2>4. CASE kind = "send"
    <3>1. Flowing(c)
      BY <1>1, <1>2, <2>4 DEF Flowing
    <3>2. ~Received(c) /\ ~Received(c)'
      BY <1>1, <1>2, <2>1, <2>4 DEF AtItsWait, Waits, Received
    <3>3. ~Sending(c) /\ ~Sending(c)'
      BY <1>2, <1>3, <2>4 DEF Sending
    <3> QED BY <1>5, <2>0, <3>1, <3>2, <3>3, DataStay DEF InBuffer
  <2> QED BY <2>2, <2>3, <2>4 DEF Io
<1> QED BY <1>4, <1>5

(* The completion of a wait that handle_client left when submit() threw is  *)
(* lost, with what it received.                                             *)
LEMMA GoneData ==
  ASSUME IInv, Data, NEW kind \in Io, NEW q, Handles(kind, q), hc[q.conn] = "gone",
         UNCHANGED <<net, buf, hc, ops>>
  PROVE  Data'
<1> DEFINE c == q.conn
<1> USE DEF net
<1>1. /\ q \in Queue /\ q.kind = kind /\ Queue = Queue' \cup {q}
  BY Handled
<1>2. \A o \in ops : o.conn # c
  BY <1>1 DEF IInv, Suspended
<1> SUFFICES ASSUME NEW d \in Conns PROVE Echoed(d)'
  BY DEF Data
<1>3. InBuffer(d)' => InBuffer(d)
  BY <1>1 DEF InBuffer, Received, Sending
<1>4. CASE d = c
  <2>1. ~Flowing(d)'
    BY <1>2, <1>4 DEF Flowing, Sending
  <2> QED BY <1>3, <2>1, DataStay
<1>5. CASE d # c
  <2>1. /\ InBuffer(d)' <=> InBuffer(d)
        /\ Flowing(d)' <=> Flowing(d)
    BY <1>1, <1>5 DEF InBuffer, Flowing, Received, Sending
  <2> QED BY <2>1, DataStay
<1> QED BY <1>4, <1>5

(* Every step keeps the promise about the data.                             *)
LEMMA NextData ==
  ASSUME IInv, IInv', Data, [Next]_vars
  PROVE  Data'
<1> USE DEF net, tables, program, frames
<1>1. CASE Tick \/ UNCHANGED vars \/ Listens \/ ListenFails
  <2>1. UNCHANGED <<peer, taken, echoed, cut, buf, hc, ops, cq>>
    BY <1>1 DEF Tick, vars, Listens, ListenFails
  <2>2. Queue' = Queue
    BY <2>1 DEF Queue
  <2> QED BY <2>1, <2>2, Quiet
<1>2. CASE Peers
  <2>1. UNCHANGED <<taken, echoed, cut, buf, hc, ops, cq>>
    BY <1>2 DEF Peers, Connect, PeerSends, PeerLeaves
  <2>2. Queue' = Queue
    BY <2>1 DEF Queue
  <2>3. ASSUME NEW c \in Conns, peer'[c] = "here"
        PROVE  peer[c] = "here" \/ hc[c] = "none"
    <3>1. peer \in [Conns -> {"away", "here", "gone"}]
      BY DEF IInv, TypeOK
    <3>2. PICK d \in Conns : Connect(d) \/ PeerSends(d) \/ PeerLeaves(d)
      BY <1>2 DEF Peers
    <3>3. CASE Connect(d)
      BY <2>3, <3>1, <3>3 DEF Connect, IInv, Descriptors
    <3>4. CASE PeerSends(d)
      BY <2>3, <3>4 DEF PeerSends
    <3>5. CASE PeerLeaves(d)
      BY <2>3, <3>1, <3>5 DEF PeerLeaves
    <3> QED BY <3>2, <3>3, <3>4, <3>5
  <2> QED BY <2>1, <2>2, <2>3, Quiet
<1>3. ASSUME NEW q, q.kind \notin {"recv", "send"} \/ ~(q.res > 0), Post(q),
             UNCHANGED <<peer, taken, echoed, cut, buf, hc>>, ops' \subseteq ops
      PROVE  Data'
  <2>1. Queue' = Queue \cup {q}
    BY <1>3, PostedQueue
  <2> QED BY <1>3, <2>1, Quiet
<1>4. CASE Kernel
  <2>1. ASSUME NEW more \in BOOLEAN, KernelAccepts(more)
        PROVE  Data'
    <3>1. Cqe("accept", accepted + 1, FreeFd).kind \notin {"recv", "send"}
      BY DEF Cqe
    <3> QED BY <1>3, <2>1, <3>1 DEF KernelAccepts
  <2>2. CASE KernelAcceptFails
    <3>1. Cqe("accept", NoFile, -1).kind \notin {"recv", "send"}
      BY DEF Cqe
    <3> QED BY <1>3, <2>2, <3>1 DEF KernelAcceptFails
  <2>3. ASSUME NEW c \in Conns, TimerFires(c)
        PROVE  Data'
    <3>1. Cqe("timer", c, -1).kind \notin {"recv", "send"}
      BY DEF Cqe
    <3> QED BY <1>3, <2>3, <3>1 DEF TimerFires
  <2>4. ASSUME NEW o \in ops, KernelEnds(o) \/ KernelFails(o)
        PROVE  Data'
    <3>1. /\ ~(Cqe("recv", o.conn, 0).res > 0)
          /\ ~(Cqe(o.kind, o.conn, -1).res > 0)
      BY DEF Cqe
    <3> QED BY <1>3, <2>4, <3>1 DEF KernelEnds, KernelFails
  <2>5. ASSUME NEW o \in ops, KernelReceives(o) \/ KernelSends(o)
        PROVE  Data'
    BY <2>5, ReceivesData, SendsData
  <2> QED BY <1>4, <2>1, <2>2, <2>3, <2>4, <2>5 DEF Kernel
<1>5. ASSUME NEW kind, NEW q, Handles(kind, q), kind \in {"recv", "send"} => ~(q.res > 0),
             UNCHANGED <<peer, taken, echoed, cut, buf, hc, ops>>
      PROVE  Data'
  <2>1. Queue = Queue' \cup {q} /\ q.kind = kind
    BY <1>5, Handled
  <2> QED BY <1>5, <2>1, Quiet
<1>6. CASE ~aborted /\ Dispatch
  <2>1. PICK q \in Queue : OnAccept(q) \/ OnRecv(q) \/ OnSend(q) \/ OnTimeout(q)
    BY <1>6 DEF Dispatch, Queue
  <2>2. q.res \in Int
    BY EchoAssumption DEF IInv, TypeOK, Queue
  <2>3. CASE OnAccept(q) /\ q.res > 0
    BY <2>3, AcceptedData
  <2>4. CASE OnAccept(q) /\ ~(q.res > 0)
    BY <1>5, <2>4 DEF OnAccept
  <2>5. CASE OnTimeout(q)
    BY <1>5, <2>5 DEF OnTimeout
  <2>6. ASSUME NEW kind \in Io, Handles(kind, q), UNCHANGED <<net, buf>>,
               hc[q.conn] # "gone", q.res > 0 \/ kind = "recv",
               AwaitDii(q.conn), UNCHANGED ops
        PROVE  Data'
    <3>1. PICK h \in {"await", "stale"} : hc' = [hc EXCEPT ![q.conn] = h]
      BY <2>6 DEF AwaitDii
    <3> QED BY <2>6, <3>1, ResumedData
  <2>7. ASSUME NEW kind \in Io, NEW k \in Io \ {kind}, Handles(kind, q), UNCHANGED <<net, buf>>,
               hc[q.conn] # "gone", q.res > 0,
               \E n \in 0 .. 2 : Await(k, q.conn, fd[q.conn], n) /\ Throwing(q.conn, n)
        PROVE  Data'
    <3>1. ~aborted /\ q.conn \in Conns
      BY <1>6, <2>7, Stays
    <3>2. /\ \E h \in {k, "gone"} : hc' = [hc EXCEPT ![q.conn] = h]
          /\ ops' = ops \cup {Op(k, q.conn, FileOf(fd[q.conn]))}
      BY <2>7, <3>1, AwaitOutcomes
    <3> QED BY <2>7, <3>2, ResumedData DEF Io
  <2>8. ASSUME NEW kind \in Io, Handles(kind, q), UNCHANGED <<net, buf>>, EventGone(q.conn)
        PROVE  Data'
    BY <2>8, GoneData DEF EventGone
  <2>9. CASE OnRecv(q)
    <3>1. Handles("recv", q) /\ UNCHANGED <<net, buf>> /\ "recv" \in Io /\ "send" \in Io
      BY <2>9 DEF OnRecv, Io
    <3>2. CASE EventGone(q.conn)
      BY <2>8, <3>1, <3>2
    <3>3. CASE q.res > 0 /\ hc[q.conn] # "gone"
               /\ \E n \in 0 .. 2 : SendBack(q.conn, n) /\ Throwing(q.conn, n)
      BY <2>7, <3>1, <3>3 DEF SendBack
    <3>4. CASE hc[q.conn] # "gone" /\ AwaitDii(q.conn) /\ UNCHANGED ops
      BY <2>6, <3>1, <3>4
    <3> QED BY <2>9, <3>2, <3>3, <3>4 DEF OnRecv
  <2>10. CASE OnSend(q)
    <3>1. Handles("send", q) /\ UNCHANGED <<net, buf>> /\ "recv" \in Io /\ "send" \in Io
      BY <2>10 DEF OnSend, Io
    <3>2. CASE EventGone(q.conn)
      BY <2>8, <3>1, <3>2
    <3>3. CASE q.res > 0 /\ hc[q.conn] # "gone"
               /\ \E n \in 0 .. 2 : Receive(q.conn, fd[q.conn], n) /\ Throwing(q.conn, n)
      BY <2>7, <3>1, <3>3 DEF Receive
    <3>4. CASE q.res > 0 /\ hc[q.conn] # "gone" /\ AwaitDii(q.conn) /\ UNCHANGED ops
      BY <2>6, <3>1, <3>4
    <3>5. CASE ~(q.res > 0) /\ UNCHANGED <<hc, ops>>
      BY <1>5, <3>1, <3>5
    <3> QED BY <2>2, <2>10, <3>2, <3>3, <3>4, <3>5 DEF OnSend
  <2> QED BY <2>1, <2>3, <2>4, <2>5, <2>9, <2>10
<1> QED BY <1>1, <1>2, <1>4, <1>6 DEF Next

(* Initially nothing was sent.                                              *)
LEMMA InitData == Init => Data
<1> SUFFICES ASSUME Init, NEW c \in Conns PROVE Echoed(c)
  BY DEF Data
<1>1. /\ taken[c] = 0 /\ echoed[c] = <<>> /\ hc[c] = "none" /\ ops = {}
      /\ Queue = {}
  BY DEF Init, Queue, Range
<1>2. ~InBuffer(c) /\ ~Flowing(c)
  BY <1>1 DEF InBuffer, Received, Sending, Flowing
<1>3. InOrder(echoed[c], c, taken[c] - Unsent(c)) /\ Contiguous(echoed[c], c, 0)
  BY <1>1 DEF InOrder, Contiguous
<1> QED BY <1>1, <1>2, <1>3 DEF Echoed

(* The promise about the data holds in every reachable state.               *)
LEMMA InductiveData == Spec => [](IInv /\ Data)
<1>1. IInv /\ IInv' /\ Data /\ [Next]_vars => Data'
  BY NextData
<1> QED BY <1>1, InitIInv, NextIInv, InitData, PTL DEF Spec

-----------------------------------------------------------------------------
(* The refinement: the service sees the numbers of the bytes.               *)

Numbers(s, c) == [i \in DOMAIN s |-> Number(c, s[i])]
Seen == [c \in Conns |-> Numbers(echoed[c], c)]

(* The numbers of some bytes of c, which are all c's.                       *)
LEMMA NumbersOf ==
  ASSUME NEW c \in Conns, NEW s \in Seq(Bytes), NEW n, InOrder(s, c, n)
  PROVE  /\ Numbers(s, c) \in Seq(Nat) /\ Len(Numbers(s, c)) = Len(s)
         /\ DOMAIN Numbers(s, c) = 1 .. Len(s)
         /\ \A i \in 1 .. Len(s) : Numbers(s, c)[i] = s[i][2] /\ s[i][2] \in 1 .. MaxBytes
<1>1. DOMAIN s = 1 .. Len(s) /\ Len(s) \in Nat
  OBVIOUS
<1>2. \A i \in 1 .. Len(s) : s[i][2] \in 1 .. MaxBytes
  BY DEF Bytes
<1>3. \A i \in 1 .. Len(s) : Number(c, s[i]) = s[i][2] /\ Number(c, s[i]) \in Nat
  BY <1>2 DEF Number, InOrder
<1> DEFINE f == [i \in 1 .. Len(s) |-> Number(c, s[i])]
<1>4. Numbers(s, c) = f
  BY <1>1 DEF Numbers
<1>5. f \in Seq(Nat) /\ Len(f) = Len(s) /\ DOMAIN f = 1 .. Len(s)
  BY <1>1, <1>3
<1>6. \A i \in 1 .. Len(s) : f[i] = s[i][2]
  BY <1>3
<1> QED BY <1>2, <1>4, <1>5, <1>6

(* A longer sequence that begins with another is an extension of it.        *)
LEMMA Extends ==
  ASSUME NEW s \in Seq(Nat), NEW t \in Seq(Nat), Len(s) < Len(t),
         \A i \in 1 .. Len(s) : t[i] = s[i]
  PROVE  Service!IsStrictPrefix(s, t)
<1>1. Len(s) \in Nat /\ Len(t) \in Nat
  OBVIOUS
<1>2. s = SubSeq(t, 1, Len(s))
  <2> DEFINE u == SubSeq(t, 1, Len(s))
  <2>1. u \in Seq(Nat) /\ Len(u) = Len(s)
    BY <1>1
  <2>2. \A i \in 1 .. Len(s) : u[i] = s[i]
    <3>1. \A i \in 1 .. Len(s) : t[i] \in Nat
      BY <1>1
    <3> DEFINE n == Len(s)
    <3>2. n \in Int /\ 1 \in Int
      BY <1>1
    <3> HIDE DEF n
    <3>3. \A i \in 1 .. n - 1 + 1 : SubSeq(t, 1, n)[i] = t[1 + i - 1]
      BY ONLY <3>1, <3>2, SubSeqProperties DEF n
    <3> QED BY <1>1, <3>3 DEF n
  <2> HIDE DEF u
  <2>3. s = u
    BY <2>1, <2>2, SeqEqual
  <2> QED BY <2>3 DEF u
<1>3. SubSeq(s, 1, Len(s)) = s
  BY <1>1
<1>4. s # t
  BY <1>1
<1> QED BY <1>1, <1>2, <1>3, <1>4 DEF Service!IsStrictPrefix, Service!IsPrefix

(* What the service asks of an echo: that the numbers of the bytes a client *)
(* got become more, that they are of bytes it sent, in their order, and all *)
(* of them unless a send was cut short.                                     *)
LEMMA MoreNumbers ==
  ASSUME NEW c \in Conns, NEW e \in Seq(Bytes), NEW f \in Seq(Bytes),
         NEW n \in Nat, NEW m \in Nat, m <= n, NEW l, InOrder(e, c, l), InOrder(f, c, m),
         Len(e) < Len(f), \A i \in 1 .. Len(e) : f[i] = e[i]
  PROVE  /\ Service!IsStrictPrefix(Numbers(e, c), Numbers(f, c))
         /\ Service!Range(Numbers(f, c)) \subseteq 1 .. n
         /\ Service!Increasing(Numbers(f, c))
         /\ Contiguous(f, c, 0) => Service!Complete(Numbers(f, c))
<1> DEFINE s == Numbers(e, c)
           t == Numbers(f, c)
<1>1. /\ s \in Seq(Nat) /\ Len(s) = Len(e)
      /\ \A i \in 1 .. Len(e) : s[i] = e[i][2]
  BY NumbersOf
<1>2. /\ t \in Seq(Nat) /\ Len(t) = Len(f) /\ DOMAIN t = 1 .. Len(f)
      /\ \A i \in 1 .. Len(f) : t[i] = f[i][2] /\ f[i][2] \in 1 .. MaxBytes
  BY NumbersOf
<1>3. Len(e) \in Nat /\ Len(f) \in Nat
  OBVIOUS
<1> HIDE DEF s, t
<1>4. Service!IsStrictPrefix(s, t)
  <2>1. ASSUME NEW i \in 1 .. Len(s) PROVE t[i] = s[i]
    <3>1. i \in 1 .. Len(e) /\ i \in 1 .. Len(f)
      BY <1>1, <1>3
    <3>2. s[i] = e[i][2] /\ t[i] = f[i][2] /\ f[i] = e[i]
      BY <1>1, <1>2, <3>1
    <3> QED BY <3>2
  <2> QED BY <1>1, <1>2, <2>1, Extends
<1>5. Service!Range(t) \subseteq 1 .. n
  <2> SUFFICES ASSUME NEW i \in 1 .. Len(f) PROVE t[i] \in 1 .. n
    BY <1>2 DEF Service!Range
  <2>1. f[i][2] <= m
    BY DEF InOrder
  <2>2. f[i][2] \in Nat /\ f[i][2] >= 1
    BY <1>2, EchoAssumption
  <2> QED BY <1>2, <2>1, <2>2
<1>6. Service!Increasing(t)
  BY <1>2 DEF Service!Increasing, InOrder
<1>7. ASSUME Contiguous(f, c, 0) PROVE Service!Complete(t)
  <2> SUFFICES ASSUME NEW i \in 1 .. Len(f) PROVE t[i] = i
    BY <1>2 DEF Service!Complete
  <2>1. f[i] = <<c, 0 + i>>
    BY <1>7 DEF Contiguous
  <2> QED BY <1>2, <1>3, <2>1
<1> QED BY <1>4, <1>5, <1>6, <1>7 DEF s, t

(* A send that reaches the peer is an Echo of the service, one that is lost *)
(* and short is a Cut.                                                      *)
LEMMA SendIsEcho ==
  ASSUME IInv, IInv', Data, NEW o \in ops, KernelSends(o)
  PROVE  [Service!Next]_(Service!vars)
<1> DEFINE c == o.conn
<1>1. /\ c \in Conns /\ UNCHANGED <<sent, taken>>
  BY SendsFacts
<1>2. PICK k \in 1 .. Len(buf[c]) :
        /\ cut' = IF k < Len(buf[c]) THEN cut \cup {c} ELSE cut
        /\ \/ peer[c] # "here" /\ echoed' = echoed
           \/ /\ peer[c] = "here"
              /\ echoed' = [echoed EXCEPT ![c] = @ \o SubSeq(buf[c], 1, k)]
              /\ Len(echoed'[c]) = Len(echoed[c]) + k
              /\ echoed'[c] \in Seq(Bytes)
              /\ \A i \in 1 .. Len(echoed[c]) : echoed'[c][i] = echoed[c][i]
              /\ InOrder(echoed'[c], c, taken[c])
              /\ c \notin cut => Contiguous(echoed'[c], c, 0)
  BY SendsFacts
<1> HIDE DEF c
<1>3. cut' \in {cut, cut \cup {c}}
  BY <1>2
<1>4. CASE echoed' = echoed
  <2>1. CASE cut' = cut
    BY <1>1, <1>4, <2>1 DEF Service!vars
  <2>2. CASE cut' = cut \cup {c}
    <3>1. Service!Cut(c)
      BY <1>1, <1>4, <2>2 DEF Service!Cut
    <3> QED BY <1>1, <3>1 DEF Service!Next
  <2> QED BY <1>3, <2>1, <2>2
<1>5. CASE echoed' # echoed
  <2> DEFINE f == echoed'[c]
  <2>1. /\ echoed' = [echoed EXCEPT ![c] = f] /\ f \in Seq(Bytes)
        /\ Len(f) = Len(echoed[c]) + k /\ InOrder(f, c, taken[c])
        /\ \A i \in 1 .. Len(echoed[c]) : f[i] = echoed[c][i]
        /\ c \notin cut => Contiguous(f, c, 0)
    <3>1. echoed' = [echoed EXCEPT ![c] = echoed[c] \o SubSeq(buf[c], 1, k)]
      BY <1>2, <1>5
    <3>2. echoed \in [Conns -> Seq(Bytes)]
      BY DEF IInv, Shapes, Bytes
    <3> QED BY <1>1, <1>2, <1>5, <3>1, <3>2
  <2> HIDE DEF f
  <2>2. /\ echoed \in [Conns -> Seq(Bytes)] /\ echoed[c] \in Seq(Bytes)
        /\ taken[c] \in Nat /\ sent[c] \in Nat /\ taken[c] <= sent[c]
    <3>1. /\ echoed \in [Conns -> Seq(Bytes)]
          /\ taken[c] \in 0 .. sent[c] /\ sent[c] \in 0 .. MaxBytes
      BY <1>1 DEF IInv, Shapes, TypeOK, Bytes
    <3> QED BY <1>1, <3>1
  <2>3. Len(echoed[c]) < Len(f)
    <3>1. Len(echoed[c]) \in Nat /\ k \in Nat /\ k >= 1
      <4>1. buf[c] \in Seq(Bytes)
        BY <1>1 DEF IInv, Shapes, Bytes
      <4> QED BY <2>2, <4>1
    <3> QED BY <2>1, <3>1
  <2>4. InOrder(echoed[c], c, taken[c] - Unsent(c))
    BY <1>1 DEF Data, Echoed
  <2>5. /\ Service!IsStrictPrefix(Numbers(echoed[c], c), Numbers(f, c))
        /\ Service!Range(Numbers(f, c)) \subseteq 1 .. sent[c]
        /\ Service!Increasing(Numbers(f, c))
        /\ Contiguous(f, c, 0) => Service!Complete(Numbers(f, c))
    BY <1>1, <2>1, <2>2, <2>3, <2>4, MoreNumbers
  <2>6. /\ Seen' = [Seen EXCEPT ![c] = Numbers(f, c)]
        /\ Seen'[c] = Numbers(f, c) /\ Seen[c] = Numbers(echoed[c], c)
    BY <1>1, <2>1, <2>2 DEF Seen
  <2>7. Service!Echo(c)
    <3>1. Seen = [d \in Conns |-> [i \in DOMAIN echoed[d] |-> Number(d, echoed[d][i])]]
      BY DEF Seen, Numbers
    <3>2. Seen' = [d \in Conns |-> [i \in DOMAIN echoed'[d] |-> Number(d, echoed'[d][i])]]
      BY DEF Seen, Numbers
    <3>3. /\ Service!IsStrictPrefix(Seen[c], Seen'[c])
          /\ Service!Range(Seen'[c]) \subseteq 1 .. sent[c]
          /\ Service!Increasing(Seen'[c])
          /\ c \notin cut => Service!Complete(Seen'[c])
          /\ Seen' = [Seen EXCEPT ![c] = Seen'[c]]
      BY <2>1, <2>5, <2>6
    <3> QED BY <1>1, <1>3, <3>1, <3>2, <3>3 DEF Service!Echo
  <2> QED BY <1>1, <2>7 DEF Service!Next
<1> QED BY <1>4, <1>5

(* Every step of the server is a step of the service or none.               *)
LEMMA ServiceStep ==
  IInv /\ IInv' /\ Data /\ [Next]_vars => [Service!Next]_(Service!vars)
<1> SUFFICES ASSUME IInv, IInv', Data, [Next]_vars
             PROVE  [Service!Next]_(Service!vars)
  OBVIOUS
<1> USE DEF net, tables, program, frames
<1>1. ASSUME NEW c \in Conns, PeerSends(c)
      PROVE  Service!Next
  <2>1. sent \in [Conns -> 0 .. MaxBytes]
    BY DEF IInv, TypeOK
  <2>2. sent' = [sent EXCEPT ![c] = sent[c] + 1] /\ UNCHANGED <<echoed, cut>>
    BY <1>1 DEF PeerSends
  <2>3. sent'[c] = sent[c] + 1 /\ sent[c] \in Nat
    BY <2>1, <2>2
  <2>4. sent'[c] \in Nat /\ sent'[c] > sent[c] /\ sent' = [sent EXCEPT ![c] = sent'[c]]
    <3>1. sent' = [sent EXCEPT ![c] = sent'[c]]
      BY ONLY <2>2, <2>3
    <3>2. sent'[c] \in Nat /\ sent'[c] > sent[c]
      BY ONLY <2>3
    <3> QED BY <3>1, <3>2
  <2>5. Service!Send(c)
    BY ONLY <2>2, <2>4 DEF Service!Send
  <2> QED BY <2>5 DEF Service!Next
<1>2. ASSUME NEW o \in ops, KernelSends(o)
      PROVE  [Service!Next]_(Service!vars)
  BY <1>2, SendIsEcho
<1>3. CASE UNCHANGED <<sent, echoed, cut>>
  BY <1>3 DEF Service!vars
<1>4. CASE Tick \/ UNCHANGED vars \/ Listens \/ ListenFails
  BY <1>3, <1>4 DEF Tick, vars, Listens, ListenFails
<1>5. CASE Peers
  <2>1. PICK c \in Conns : Connect(c) \/ PeerSends(c) \/ PeerLeaves(c)
    BY <1>5 DEF Peers
  <2> QED BY <1>1, <1>3, <2>1 DEF Connect, PeerLeaves
<1>6. CASE Kernel
  BY <1>2, <1>3, <1>6 DEF Kernel, KernelAccepts, KernelAcceptFails, TimerFires,
     KernelReceives, KernelEnds, KernelFails
<1>7. CASE Dispatch
  BY <1>3, <1>7 DEF Dispatch, OnAccept, OnRecv, OnSend, OnTimeout
<1> QED BY <1>4, <1>5, <1>6, <1>7 DEF Next

(* Whatever short sends, resets, timeouts and failures do, each peer of the *)
(* echo server gets what EchoService promises: its own bytes, in order and  *)
(* once, and without a gap before the first short send.                     *)
THEOREM RefinesService == Spec => ImplementsService
<1>1. Init => Service!Init
  BY DEF Init, Service!Init
<1> QED BY <1>1, ServiceStep, InductiveData, PTL DEF ImplementsService, Service!Spec, Spec

=============================================================================
