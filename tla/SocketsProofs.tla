--------------------------- MODULE SocketsProofs ---------------------------
(***************************************************************************)
(* Proofs about Sockets, for any objects, rings and descriptors.           *)
(***************************************************************************)
EXTENDS Sockets, SequenceTheorems, TLAPS

(* Nothing is in flight on a descriptor that no object has received yet.    *)
CarriedIdle ==
  past = {} => \A op \in ops : op[2] \notin carried

IInv ==
  /\ TypeOK
  /\ OneOwner
  /\ HeldIsOpen
  /\ NoLeak
  /\ CarriedIdle
  /\ CloseCancelsAll

(* The inductive invariant holds initially.                                 *)
LEMMA InitIInv == Init => IInv
<1> SUFFICES ASSUME Init PROVE IInv
  OBVIOUS
<1> USE SocketsAssumption DEF Init
<1>1. sq \in [Rings -> Seq(Sqes)]
  OBVIOUS
<1>2. TypeOK
  <2>1. live \subseteq Objects /\ ring \in [Objects -> Rings]
    OBVIOUS
  <2>2. fd \in [Objects -> Fds \cup {NoFd}]
    OBVIOUS
  <2>3. open \subseteq Fds /\ carried \subseteq open
    OBVIOUS
  <2>4. ops \subseteq Rings \X open /\ orphans \subseteq Rings \X Fds
    OBVIOUS
  <2>5. sq \in [Rings -> Seq(Sqes)]
    OBVIOUS
  <2>6. past \subseteq {"crossed", "partial"} /\ fails \in 0 .. MaxFails
    OBVIOUS
  <2> QED BY ONLY <2>1, <2>2, <2>3, <2>4, <2>5, <2>6 DEF TypeOK
<1>3. OneOwner /\ HeldIsOpen /\ NoLeak /\ CarriedIdle
  BY DEF OneOwner, HeldIsOpen, NoLeak, CarriedIdle
<1>4. OpsOnOwnRing /\ LateSqesHeld
  BY DEF OpsOnOwnRing, LateSqesHeld
<1>5. CloseCancelsAll
  BY <1>4 DEF CloseCancelsAll
<1> QED BY <1>2, <1>3, <1>5 DEF IInv

(* A step that leaves the rings alone and takes no descriptor from an       *)
(* object that has one, except to give it to one of the same ring.          *)
LEMMA LateSqesStay ==
  ASSUME LateSqesHeld, UNCHANGED sq,
         \A o \in live : \E p \in live' : ring'[p] = ring[o] /\ fd'[p] = fd[o]
  PROVE  LateSqesHeld'
BY DEF LateSqesHeld

-----------------------------------------------------------------------------
(* A descriptor reaches an object: new from socket(), or carried.           *)
LEMMA ConstructStep ==
  ASSUME IInv, NEW o \in Objects, NEW r \in Rings, Construct(o, r)
  PROVE  IInv'
<1> USE SocketsAssumption
<1>1. CASE \E f \in Fds \ open : Make(o, r, f) /\ open' = open \cup {f}
  <2>1. PICK f \in Fds \ open : Make(o, r, f) /\ open' = open \cup {f}
    BY <1>1
  <2> USE <2>1 DEF Make, Construct, IInv, TypeOK, rings, history
  <2>2. TypeOK'
    <3>1. live' \subseteq Objects /\ ring' \in [Objects -> Rings]
      OBVIOUS
    <3>2. fd' \in [Objects -> Fds \cup {NoFd}]
      OBVIOUS
    <3>3. open' \subseteq Fds /\ carried' \subseteq open'
      OBVIOUS
    <3>4. ops' \subseteq Rings \X open' /\ orphans' \subseteq Rings \X Fds
      OBVIOUS
    <3>5. sq' \in [Rings -> Seq(Sqes)]
      OBVIOUS
    <3>6. past' \subseteq {"crossed", "partial"} /\ fails' \in 0 .. MaxFails
      OBVIOUS
    <3> QED BY ONLY <3>1, <3>2, <3>3, <3>4, <3>5, <3>6 DEF TypeOK
  <2>3. OneOwner' /\ HeldIsOpen' /\ NoLeak' /\ CarriedIdle'
    BY DEF OneOwner, HeldIsOpen, NoLeak, CarriedIdle
  <2>4. CloseCancelsAll'
    <3> SUFFICES ASSUME past' = {}
        PROVE  orphans' = {} /\ OpsOnOwnRing' /\ LateSqesHeld'
      BY DEF CloseCancelsAll
    <3>1. past = {} /\ orphans = {} /\ OpsOnOwnRing /\ LateSqesHeld
      BY DEF CloseCancelsAll
    <3>2. orphans' = {}
      BY <3>1
    <3>3. OpsOnOwnRing'
      BY <3>1 DEF OpsOnOwnRing, HeldIsOpen
    <3>4. LateSqesHeld'
      BY <3>1, LateSqesStay
    <3> QED BY <3>2, <3>3, <3>4
  <2> QED BY <2>2, <2>3, <2>4
<1>2. CASE Make(o, r, NoFd) /\ UNCHANGED open
  <2> USE <1>2 DEF Make, Construct, IInv, TypeOK, rings, history
  <2>1. fd' = fd
    BY DEF HeldIsOpen
  <2>2. TypeOK'
    <3>1. live' \subseteq Objects /\ ring' \in [Objects -> Rings]
      BY <2>1
    <3>2. fd' \in [Objects -> Fds \cup {NoFd}]
      BY <2>1
    <3>3. open' \subseteq Fds /\ carried' \subseteq open'
      BY <2>1
    <3>4. ops' \subseteq Rings \X open' /\ orphans' \subseteq Rings \X Fds
      BY <2>1
    <3>5. sq' \in [Rings -> Seq(Sqes)]
      BY <2>1
    <3>6. past' \subseteq {"crossed", "partial"} /\ fails' \in 0 .. MaxFails
      BY <2>1
    <3> QED BY ONLY <3>1, <3>2, <3>3, <3>4, <3>5, <3>6 DEF TypeOK
  <2>3. OneOwner' /\ HeldIsOpen' /\ NoLeak' /\ CarriedIdle'
    BY <2>1 DEF OneOwner, HeldIsOpen, NoLeak, CarriedIdle
  <2>4. CloseCancelsAll'
    <3> SUFFICES ASSUME past' = {}
        PROVE  orphans' = {} /\ OpsOnOwnRing' /\ LateSqesHeld'
      BY DEF CloseCancelsAll
    <3>1. past = {} /\ orphans = {} /\ OpsOnOwnRing /\ LateSqesHeld
      BY DEF CloseCancelsAll
    <3>2. orphans' = {}
      BY <3>1
    <3>3. OpsOnOwnRing'
      <4>1. /\ fd[o] = NoFd /\ \A op \in ops : op[2] # NoFd
            /\ \A p \in Objects \ {o} : ring'[p] = ring[p]
        BY <2>1 DEF HeldIsOpen
      <4> QED BY <2>1, <3>1, <4>1 DEF OpsOnOwnRing
    <3>4. LateSqesHeld'
      BY <2>1, <3>1, LateSqesStay
    <3> QED BY <3>2, <3>3, <3>4
  <2> QED BY <2>2, <2>3, <2>4
<1> QED BY <1>1, <1>2 DEF Construct

(* A carried descriptor gets its owner, or is dropped if it is 0.           *)
LEMMA OnAcceptStep ==
  ASSUME IInv, NEW o \in Objects, NEW r \in Rings, NEW f \in carried,
         OnAccept(o, r, f)
  PROVE  IInv'
<1> USE SocketsAssumption DEF OnAccept, Make, objects, rings, history, IInv, TypeOK
<1>1. TypeOK'
  <2>1. live' \subseteq Objects /\ ring' \in [Objects -> Rings]
    OBVIOUS
  <2>2. fd' \in [Objects -> Fds \cup {NoFd}]
    OBVIOUS
  <2>3. open' \subseteq Fds /\ carried' \subseteq open'
    OBVIOUS
  <2>4. ops' \subseteq Rings \X open' /\ orphans' \subseteq Rings \X Fds
    OBVIOUS
  <2>5. sq' \in [Rings -> Seq(Sqes)]
    OBVIOUS
  <2>6. past' \subseteq {"crossed", "partial"} /\ fails' \in 0 .. MaxFails
    OBVIOUS
  <2> QED BY ONLY <2>1, <2>2, <2>3, <2>4, <2>5, <2>6 DEF TypeOK
<1>2. OneOwner'
  <2>1. CASE UNCHANGED objects
    BY <2>1 DEF OneOwner
  <2>2. CASE o \notin live /\ fd' = [fd EXCEPT ![o] = f]
    <3>1. \A p \in Objects : fd[p] # f
      BY DEF OneOwner
    <3> QED BY <2>2, <3>1 DEF OneOwner
  <2> QED BY <2>1, <2>2
<1>3. HeldIsOpen'
  BY DEF HeldIsOpen
<1>4. NoLeak'
  BY DEF NoLeak, HeldIsOpen
<1>5. CarriedIdle'
  BY DEF CarriedIdle
<1>6. CloseCancelsAll'
  <2> SUFFICES ASSUME past' = {}
      PROVE  orphans' = {} /\ OpsOnOwnRing' /\ LateSqesHeld'
    BY DEF CloseCancelsAll
  <2>1. past = {} /\ orphans = {} /\ OpsOnOwnRing /\ LateSqesHeld
    BY DEF CloseCancelsAll
  <2>2. orphans' = {}
    BY <2>1
  <2>3. OpsOnOwnRing'
    BY <2>1 DEF OpsOnOwnRing, CarriedIdle
  <2>4. LateSqesHeld'
    BY <2>1, LateSqesStay
  <2> QED BY <2>2, <2>3, <2>4
<1> QED BY <1>1, <1>2, <1>3, <1>4, <1>5, <1>6

(* Moves: descriptors change hands but are never duplicated or dropped.     *)
LEMMA MoveStep ==
  ASSUME IInv, NEW o \in Objects, NEW rhs \in Objects,
         MoveConstruct(o, rhs) \/ MoveAssign(o, rhs)
  PROVE  IInv'
<1> USE SocketsAssumption DEF IInv, TypeOK, rings, history
<1>1. CASE MoveConstruct(o, rhs)
  <2> USE <1>1 DEF MoveConstruct
  <2>1. TypeOK'
    <3>1. live' \subseteq Objects /\ ring' \in [Objects -> Rings]
      OBVIOUS
    <3>2. fd' \in [Objects -> Fds \cup {NoFd}]
      OBVIOUS
    <3>3. open' \subseteq Fds /\ carried' \subseteq open'
      OBVIOUS
    <3>4. ops' \subseteq Rings \X open' /\ orphans' \subseteq Rings \X Fds
      OBVIOUS
    <3>5. sq' \in [Rings -> Seq(Sqes)]
      OBVIOUS
    <3>6. past' \subseteq {"crossed", "partial"} /\ fails' \in 0 .. MaxFails
      OBVIOUS
    <3> QED BY ONLY <3>1, <3>2, <3>3, <3>4, <3>5, <3>6 DEF TypeOK
  <2>2. OneOwner'
    BY DEF OneOwner, HeldIsOpen
  <2>3. HeldIsOpen' /\ CarriedIdle'
    BY DEF HeldIsOpen, CarriedIdle
  <2>4. NoLeak'
    BY DEF NoLeak
  <2>5. CloseCancelsAll'
    <3> SUFFICES ASSUME past' = {}
        PROVE  orphans' = {} /\ OpsOnOwnRing' /\ LateSqesHeld'
      BY DEF CloseCancelsAll
    <3>1. past = {} /\ orphans = {} /\ OpsOnOwnRing /\ LateSqesHeld
      BY DEF CloseCancelsAll
    <3>2. orphans' = {}
      BY <3>1
    <3>3. OpsOnOwnRing'
      BY <3>1 DEF OpsOnOwnRing
    <3>4. LateSqesHeld'
      BY <3>1, LateSqesStay
    <3> QED BY <3>2, <3>3, <3>4
  <2> QED BY <2>1, <2>2, <2>3, <2>4, <2>5
<1>2. CASE MoveAssign(o, rhs)
  <2> USE <1>2 DEF MoveAssign
  <2>1. TypeOK'
    <3>1. live' \subseteq Objects /\ ring' \in [Objects -> Rings]
      OBVIOUS
    <3>2. fd' \in [Objects -> Fds \cup {NoFd}]
      OBVIOUS
    <3>3. open' \subseteq Fds /\ carried' \subseteq open'
      OBVIOUS
    <3>4. ops' \subseteq Rings \X open' /\ orphans' \subseteq Rings \X Fds
      OBVIOUS
    <3>5. sq' \in [Rings -> Seq(Sqes)]
      OBVIOUS
    <3>6. past' \subseteq {"crossed", "partial"} /\ fails' \in 0 .. MaxFails
      OBVIOUS
    <3> QED BY ONLY <3>1, <3>2, <3>3, <3>4, <3>5, <3>6 DEF TypeOK
  <2>2. OneOwner'
    BY DEF OneOwner
  <2>3. HeldIsOpen' /\ CarriedIdle'
    BY DEF HeldIsOpen, CarriedIdle
  <2>4. NoLeak'
    BY DEF NoLeak
  <2>5. CloseCancelsAll'
    <3> SUFFICES ASSUME past' = {}
        PROVE  orphans' = {} /\ OpsOnOwnRing' /\ LateSqesHeld'
      BY DEF CloseCancelsAll
    <3>1. past = {} /\ orphans = {} /\ OpsOnOwnRing /\ LateSqesHeld
      BY DEF CloseCancelsAll
    <3>2. orphans' = {}
      BY <3>1
    <3>3. OpsOnOwnRing'
      BY <3>1 DEF OpsOnOwnRing
    <3>4. LateSqesHeld'
      BY <3>1, LateSqesStay
    <3> QED BY <3>2, <3>3, <3>4
  <2> QED BY <2>1, <2>2, <2>3, <2>4, <2>5
<1> QED BY <1>1, <1>2

(* What a submit that returns leaves: SQEs of the right form, none if the   *)
(* kernel took all; it puts in flight only what is on open descriptors, and *)
(* on ring r only what r had or what an SQE named.                          *)
LEMMA SubmitsEffect ==
  ASSUME IInv, NEW r \in Rings, NEW sqe \in Sqes, NEW k \in Taken(r),
         Submits(r, sqe, k)
  PROVE  /\ sq' \in [Rings -> Seq(Sqes)]
         /\ \A r2 \in Rings : r2 # r => sq'[r2] = sq[r2]
         /\ past' = {} => sq'[r] = <<>> /\ k = Len(sq[r]) + 1
         /\ past' \subseteq {"crossed", "partial"}
         /\ fails' \in 0 .. MaxFails
         /\ past \subseteq past'
<1> DEFINE q == Append(sq[r], sqe)
<1>1. sq[r] \in Seq(Sqes) /\ q \in Seq(Sqes) /\ Len(q) = Len(sq[r]) + 1 /\ Len(sq[r]) \in Nat
  BY DEF IInv, TypeOK
<1>2. k \in 1 .. Len(q)
  BY <1>1 DEF Taken
<1>3. SubSeq(q, k + 1, Len(q)) \in Seq(Sqes)
  <2>1. \A i \in k + 1 .. Len(q) : q[i] \in Sqes
    BY <1>1, <1>2
  <2> QED BY <2>1, <1>1, <1>2, SubSeqProperties
<1>4. sq' = [sq EXCEPT ![r] = SubSeq(q, k + 1, Len(q))]
  BY DEF Submits
<1>5. k = Len(q) => sq'[r] = <<>>
  <2>1. k = Len(q) => SubSeq(q, k + 1, Len(q)) = <<>>
    BY <1>1, SubSeqEmpty
  <2> QED BY <1>4, <2>1 DEF IInv, TypeOK
<1>6. \/ k = Len(q) /\ UNCHANGED <<past, fails>>
      \/ k < Len(q) /\ fails < MaxFails /\ past' = past \cup {"partial"} /\ fails' = fails + 1
  BY DEF Submits, history
<1>7. sq' \in [Rings -> Seq(Sqes)] /\ \A r2 \in Rings : r2 # r => sq'[r2] = sq[r2]
  BY <1>3, <1>4 DEF IInv, TypeOK
<1>8. past' \subseteq {"crossed", "partial"} /\ past \subseteq past'
  BY <1>6 DEF IInv, TypeOK
<1>9. fails' \in 0 .. MaxFails
  <2>1. fails \in 0 .. MaxFails /\ MaxFails \in Nat
    BY SocketsAssumption DEF IInv, TypeOK
  <2>2. fails' = fails \/ (fails < MaxFails /\ fails' = fails + 1)
    BY <1>6
  <2> QED BY ONLY <2>1, <2>2
<1>10. past' = {} => k = Len(q)
  BY <1>6
<1> HIDE DEF q
<1> QED BY <1>1, <1>5, <1>7, <1>8, <1>9, <1>10

(* Operations the kernel starts are on open descriptors.                    *)
LEMMA InFlightOpen ==
  ASSUME IInv, NEW r \in Rings, NEW sqe, NEW k
  PROVE  InFlight(r, sqe, k) \subseteq Rings \X open
BY DEF InFlight, Started, IInv, TypeOK

(* When the kernel took every SQE, a ring has in flight what it had or what *)
(* an SQE of its own names, and nothing on a descriptor whose cancellation  *)
(* came last.                                                               *)
LEMMA InFlightOrigin ==
  ASSUME IInv, NEW r \in Rings, NEW sqe \in Sqes, NEW k, k = Len(sq[r]) + 1
  PROVE  /\ \A op \in InFlight(r, sqe, k) :
              \/ op \in ops
              \/ op[1] = r /\ op[2] = sqe[2]
              \/ op[1] = r /\ \E i \in DOMAIN sq[r] : op[2] = sq[r][i][2]
         /\ \A f \in Fds : sqe = <<"cancel", f>> =>
              <<r, f>> \notin InFlight(r, sqe, k)
<1> DEFINE q == Append(sq[r], sqe)
<1>1. /\ sq[r] \in Seq(Sqes) /\ q \in Seq(Sqes)
      /\ Len(q) = Len(sq[r]) + 1 /\ Len(sq[r]) \in Nat
      /\ q[Len(sq[r]) + 1] = sqe
      /\ \A i \in 1 .. Len(sq[r]) : q[i] = sq[r][i]
  BY DEF IInv, TypeOK
<1>2. SubSeq(q, 1, k) = q
  BY <1>1, SubSeqFull
<1> HIDE DEF q
<1>3. InFlight(r, sqe, k) = Started(r, q)
  BY <1>2 DEF InFlight, q
<1>4. DOMAIN q = 1 .. Len(sq[r]) + 1 /\ DOMAIN sq[r] = 1 .. Len(sq[r])
  BY <1>1
<1>5. ASSUME NEW op \in Started(r, q), op \notin ops
      PROVE  \/ op[1] = r /\ op[2] = sqe[2]
             \/ op[1] = r /\ \E i \in DOMAIN sq[r] : op[2] = sq[r][i][2]
  <2>1. op[1] = r /\ \E i \in DOMAIN q : q[i] = <<"op", op[2]>>
    BY <1>5 DEF Started
  <2>2. PICK i \in DOMAIN q : q[i] = <<"op", op[2]>>
    BY <2>1
  <2>3. CASE i = Len(sq[r]) + 1
    BY <2>1, <2>2, <2>3, <1>1
  <2>4. CASE i \in 1 .. Len(sq[r])
    BY <2>1, <2>2, <2>4, <1>1, <1>4
  <2> QED BY <2>3, <2>4, <1>1, <1>4
<1>6. ASSUME NEW f \in Fds, sqe = <<"cancel", f>>
      PROVE  <<r, f>> \notin Started(r, q)
  <2>1. q[Len(sq[r]) + 1] = <<"cancel", f>> /\ Len(sq[r]) + 1 \in DOMAIN q
    BY <1>1, <1>4, <1>6
  <2>2. \A i \in DOMAIN q : q[i] = <<"op", f>> => i < Len(sq[r]) + 1
    <3>1. <<"op", f>> # <<"cancel", f>>
      OBVIOUS
    <3> QED BY <3>1, <2>1, <1>1, <1>4
  <2> QED BY <2>1, <2>2, <1>1, <1>4 DEF Started
<1> QED BY <1>3, <1>5, <1>6

(* Releasing the descriptor of a live object, whether the object survives   *)
(* (close) or not (destructor).                                             *)
LEMMA ReleaseStep ==
  ASSUME IInv, NEW o \in Objects, o \in live, Release(o),
         live' \in {live, live \ {o}}, UNCHANGED <<ring, carried>>
  PROVE  IInv'
<1> USE SocketsAssumption
<1> DEFINE sqe == Cancel(o)
<1>1. /\ ring[o] \in Rings /\ fd[o] \in open /\ fd[o] \in Fds
      /\ sqe \in Sqes
  BY DEF IInv, TypeOK, HeldIsOpen, Release, Cancel, Sqes
<1>2. PICK k \in Taken(ring[o]) :
        /\ Submits(ring[o], sqe, k)
        /\ ops' = {op \in InFlight(ring[o], sqe, k) : op[2] # fd[o]}
        /\ orphans' = orphans \cup {op \in InFlight(ring[o], sqe, k) : op[2] = fd[o]}
  BY DEF Release
<1>3. open' = open \ {fd[o]} /\ fd' = [fd EXCEPT ![o] = NoFd]
  BY DEF Release, CloseFd
<1>4. /\ sq' \in [Rings -> Seq(Sqes)]
      /\ \A r2 \in Rings : r2 # ring[o] => sq'[r2] = sq[r2]
      /\ past' = {} => sq'[ring[o]] = <<>> /\ k = Len(sq[ring[o]]) + 1
      /\ past' \subseteq {"crossed", "partial"}
      /\ fails' \in 0 .. MaxFails
      /\ past \subseteq past'
  <2> HIDE DEF sqe
  <2> QED BY <1>1, <1>2, SubmitsEffect
<1>5. InFlight(ring[o], sqe, k) \subseteq Rings \X open
  <2> HIDE DEF sqe
  <2> QED BY <1>1, InFlightOpen
<1>6. past' = {} =>
        \A op \in InFlight(ring[o], sqe, k) :
          /\ \/ op \in ops
             \/ op[1] = ring[o] /\ op[2] = fd[o]
             \/ op[1] = ring[o] /\ \E i \in DOMAIN sq[ring[o]] : op[2] = sq[ring[o]][i][2]
          /\ op # <<ring[o], fd[o]>>
  <2>1. sqe[2] = fd[o] /\ sqe = <<"cancel", fd[o]>>
    BY DEF Cancel
  <2> HIDE DEF sqe
  <2> SUFFICES ASSUME past' = {}
               PROVE  \A op \in InFlight(ring[o], sqe, k) :
                        /\ \/ op \in ops
                           \/ op[1] = ring[o] /\ op[2] = fd[o]
                           \/ /\ op[1] = ring[o]
                              /\ \E i \in DOMAIN sq[ring[o]] : op[2] = sq[ring[o]][i][2]
                        /\ op # <<ring[o], fd[o]>>
    OBVIOUS
  <2>2. k = Len(sq[ring[o]]) + 1
    BY <1>4
  <2>3. /\ \A op \in InFlight(ring[o], sqe, k) :
             \/ op \in ops
             \/ op[1] = ring[o] /\ op[2] = sqe[2]
             \/ op[1] = ring[o] /\ \E i \in DOMAIN sq[ring[o]] : op[2] = sq[ring[o]][i][2]
        /\ \A f \in Fds : sqe = <<"cancel", f>> =>
             <<ring[o], f>> \notin InFlight(ring[o], sqe, k)
    BY ONLY IInv, <1>1, <2>2, InFlightOrigin
  <2> QED BY <1>1, <2>1, <2>3
<1> HIDE DEF sqe
<1>7. TypeOK'
  <2>1. carried' \subseteq open'
    BY <1>1, <1>3 DEF OneOwner, IInv, TypeOK
  <2>2. ops' \subseteq Rings \X open'
    BY <1>2, <1>3, <1>5
  <2>3. orphans' \subseteq Rings \X Fds
    BY <1>2, <1>5 DEF IInv, TypeOK
  <2>4. /\ live' \subseteq Objects
        /\ ring' \in [Objects -> Rings]
        /\ fd' \in [Objects -> Fds \cup {NoFd}]
        /\ open' \subseteq Fds
    BY <1>3 DEF IInv, TypeOK
  <2> QED BY <1>4, <2>1, <2>2, <2>3, <2>4 DEF TypeOK
<1>8. OneOwner' /\ HeldIsOpen'
  BY <1>1, <1>3 DEF OneOwner, HeldIsOpen, IInv, TypeOK
<1>9. NoLeak'
  BY <1>1, <1>3 DEF NoLeak, IInv, TypeOK
<1>10. past' = {} =>
          /\ past = {}
          /\ \A op \in InFlight(ring[o], sqe, k) :
               \/ op \in ops
               \/ op[1] = ring[o] /\ \E p \in live : ring[p] = ring[o] /\ fd[p] = op[2]
  <2> SUFFICES ASSUME past' = {}
               PROVE  /\ past = {}
                      /\ \A op \in InFlight(ring[o], sqe, k) :
                           \/ op \in ops
                           \/ op[1] = ring[o] /\ \E p \in live : ring[p] = ring[o] /\ fd[p] = op[2]
    OBVIOUS
  <2>1. past = {}
    BY <1>4
  <2>2. LateSqesHeld
    BY <2>1 DEF IInv, CloseCancelsAll
  <2> QED BY <1>1, <1>6, <2>1, <2>2 DEF LateSqesHeld
<1>11. CarriedIdle'
  <2> SUFFICES ASSUME past' = {}, NEW op \in ops'
               PROVE  op[2] \notin carried'
    BY DEF CarriedIdle
  <2>1. op \in InFlight(ring[o], sqe, k)
    BY <1>2
  <2>2. CASE op \in ops
    BY <2>2, <1>10 DEF CarriedIdle, IInv
  <2>3. CASE \E p \in live : fd[p] = op[2]
    BY <2>3 DEF OneOwner, IInv, TypeOK
  <2> QED BY <1>10, <2>1, <2>2, <2>3
<1>12. CloseCancelsAll'
  <2> SUFFICES ASSUME past' = {}
               PROVE  orphans' = {} /\ OpsOnOwnRing' /\ LateSqesHeld'
    BY DEF CloseCancelsAll
  <2>1. past = {}
    BY <1>4 DEF IInv, TypeOK
  <2>2. /\ orphans = {}
        /\ \A p \in Objects, op \in ops : op[2] = fd[p] => op[1] = ring[p]
        /\ \A r \in Rings : \A i \in DOMAIN sq[r] :
             \E p \in live : ring[p] = r /\ fd[p] = sq[r][i][2]
    BY <2>1 DEF IInv, CloseCancelsAll, OpsOnOwnRing, LateSqesHeld
  <2>3. orphans' = {}
    <3> SUFFICES ASSUME NEW op \in InFlight(ring[o], sqe, k), op[2] = fd[o] PROVE FALSE
      BY <1>2, <2>2
    <3>1. op[1] = ring[o]
      BY <1>10, <2>2
    <3>2. op = <<ring[o], fd[o]>>
      BY <3>1, <1>5
    <3> QED BY <3>2, <1>6
  <2>4. ASSUME NEW p \in Objects, NEW op \in ops', op[2] = fd'[p]
        PROVE  op[1] = ring'[p]
    <3>1. op \in InFlight(ring[o], sqe, k) /\ op[2] \in Fds
      BY <1>2, <1>5 DEF IInv, TypeOK
    <3>2. p # o /\ fd[p] = op[2]
      BY <2>4, <3>1, <1>3, SocketsAssumption DEF IInv, TypeOK
    <3>3. CASE op \in ops
      BY <3>2, <3>3, <2>2
    <3>4. CASE op[1] = ring[o] /\ \E p2 \in live : ring[p2] = ring[o] /\ fd[p2] = op[2]
      <4>1. PICK p2 \in live : ring[p2] = ring[o] /\ fd[p2] = op[2]
        BY <3>4
      <4>2. p2 = p
        BY <4>1, <3>1, <3>2, SocketsAssumption DEF IInv, OneOwner, TypeOK
      <4> QED BY <4>1, <4>2, <3>4
    <3> QED BY <3>1, <3>3, <3>4, <1>10
  <2>5. ASSUME NEW r \in Rings, NEW i \in DOMAIN sq'[r]
        PROVE  \E p \in live' : ring'[p] = r /\ fd'[p] = sq'[r][i][2]
    <3>1. r # ring[o]
      BY <1>4
    <3>2. PICK p \in live : ring[p] = r /\ fd[p] = sq[r][i][2]
      BY <3>1, <1>4, <2>2
    <3>3. p # o /\ p \in live' /\ fd'[p] = fd[p]
      BY <3>1, <3>2, <1>3 DEF IInv, TypeOK
    <3> QED BY <3>1, <3>2, <3>3, <1>4
  <2> QED BY <2>3, <2>4, <2>5 DEF OpsOnOwnRing, LateSqesHeld
<1> QED BY <1>7, <1>8, <1>9, <1>11, <1>12 DEF IInv

(* A destructor releases the descriptor, if the object has one.             *)
LEMMA DestroyStep ==
  ASSUME IInv, NEW o \in Objects, Destroy(o)
  PROVE  IInv'
<1>1. CASE Release(o)
  BY <1>1, ReleaseStep DEF Destroy
<1>2. CASE fd[o] = NoFd /\ UNCHANGED <<fd, open, rings, history>>
  <2> USE <1>2, SocketsAssumption DEF Destroy, IInv, TypeOK, rings, history
  <2>1. TypeOK'
    <3>1. live' \subseteq Objects /\ ring' \in [Objects -> Rings]
      OBVIOUS
    <3>2. fd' \in [Objects -> Fds \cup {NoFd}]
      OBVIOUS
    <3>3. open' \subseteq Fds /\ carried' \subseteq open'
      OBVIOUS
    <3>4. ops' \subseteq Rings \X open' /\ orphans' \subseteq Rings \X Fds
      OBVIOUS
    <3>5. sq' \in [Rings -> Seq(Sqes)]
      OBVIOUS
    <3>6. past' \subseteq {"crossed", "partial"} /\ fails' \in 0 .. MaxFails
      OBVIOUS
    <3> QED BY ONLY <3>1, <3>2, <3>3, <3>4, <3>5, <3>6 DEF TypeOK
  <2>2. OneOwner' /\ HeldIsOpen' /\ CarriedIdle'
    BY DEF OneOwner, HeldIsOpen, CarriedIdle
  <2>3. NoLeak'
    BY DEF NoLeak
  <2>4. CloseCancelsAll'
    <3> SUFFICES ASSUME past' = {}
          PROVE  orphans' = {} /\ OpsOnOwnRing' /\ LateSqesHeld'
      BY DEF CloseCancelsAll
    <3>1. past = {} /\ orphans = {} /\ OpsOnOwnRing /\ LateSqesHeld
      BY DEF CloseCancelsAll, IInv
    <3>2. orphans' = {} /\ OpsOnOwnRing'
      BY <3>1 DEF OpsOnOwnRing
    <3>3. LateSqesHeld'
      <4>1. \A i \in Rings : \A j \in DOMAIN sq[i] : sq[i][j][2] # NoFd
        BY DEF Sqes
      <4> QED BY <3>1, <4>1 DEF LateSqesHeld
    <3> QED BY <3>2, <3>3
  <2> QED BY <2>1, <2>2, <2>3, <2>4
<1> QED BY <1>1, <1>2 DEF Destroy

(* An operation starts, and with it the SQEs that waited before it.         *)
LEMMA StartOpStep ==
  ASSUME IInv, NEW o \in Objects, StartOp(o)
  PROVE  IInv'
<1> DEFINE sqe == <<"op", fd[o]>>
<1>1. /\ ring[o] \in Rings /\ o \in live /\ fd[o] \in open /\ fd[o] \in Fds
      /\ sqe \in Sqes /\ sqe[2] = fd[o]
  BY DEF IInv, TypeOK, HeldIsOpen, StartOp, Sqes
<1>2. PICK k \in Taken(ring[o]) :
        Submits(ring[o], sqe, k) /\ ops' = InFlight(ring[o], sqe, k)
  BY DEF StartOp
<1>3. UNCHANGED <<live, ring, fd, open, carried, orphans>>
  BY DEF StartOp, objects
<1> HIDE DEF sqe
<1>4. /\ sq' \in [Rings -> Seq(Sqes)]
      /\ \A r2 \in Rings : r2 # ring[o] => sq'[r2] = sq[r2]
      /\ past' = {} => sq'[ring[o]] = <<>> /\ k = Len(sq[ring[o]]) + 1
      /\ past' \subseteq {"crossed", "partial"}
      /\ fails' \in 0 .. MaxFails
      /\ past \subseteq past'
  BY <1>1, <1>2, SubmitsEffect
<1>5. ops' \subseteq Rings \X open
  BY <1>1, <1>2, InFlightOpen
<1>6. past' = {} =>
        /\ past = {}
        /\ \A op \in ops' :
             \/ op \in ops
             \/ op[1] = ring[o] /\ \E p \in live : ring[p] = ring[o] /\ fd[p] = op[2]
  <2>1. past' = {} =>
          \A op \in ops' :
            \/ op \in ops
            \/ op[1] = ring[o] /\ op[2] = fd[o]
            \/ op[1] = ring[o] /\ \E i \in DOMAIN sq[ring[o]] : op[2] = sq[ring[o]][i][2]
    BY <1>1, <1>2, <1>4, InFlightOrigin
  <2> SUFFICES ASSUME past' = {}
               PROVE  /\ past = {}
                      /\ \A op \in ops' :
                           \/ op \in ops
                           \/ op[1] = ring[o] /\ \E p \in live : ring[p] = ring[o] /\ fd[p] = op[2]
    OBVIOUS
  <2>2. past = {}
    BY <1>4
  <2>3. LateSqesHeld
    BY <2>2 DEF IInv, CloseCancelsAll
  <2> QED BY <1>1, <2>1, <2>2, <2>3 DEF LateSqesHeld
<1>7. TypeOK'
  BY <1>3, <1>4, <1>5 DEF IInv, TypeOK
<1>8. OneOwner' /\ HeldIsOpen' /\ NoLeak'
  BY <1>3 DEF IInv, OneOwner, HeldIsOpen, NoLeak
<1>9. CarriedIdle'
  <2> SUFFICES ASSUME past' = {}, NEW op \in ops'
               PROVE  op[2] \notin carried
    BY <1>3 DEF CarriedIdle
  <2>1. CASE op \in ops
    BY <2>1, <1>6 DEF CarriedIdle, IInv
  <2>2. CASE \E p \in live : fd[p] = op[2]
    BY <2>2 DEF OneOwner, IInv, TypeOK
  <2> QED BY <1>6, <2>1, <2>2
<1>10. CloseCancelsAll'
  <2> SUFFICES ASSUME past' = {}
               PROVE  orphans' = {} /\ OpsOnOwnRing' /\ LateSqesHeld'
    BY DEF CloseCancelsAll
  <2>1. /\ orphans = {}
        /\ \A p \in Objects, op \in ops : op[2] = fd[p] => op[1] = ring[p]
        /\ \A r \in Rings : \A i \in DOMAIN sq[r] :
             \E p \in live : ring[p] = r /\ fd[p] = sq[r][i][2]
    BY <1>6 DEF IInv, CloseCancelsAll, OpsOnOwnRing, LateSqesHeld
  <2>2. ASSUME NEW p \in Objects, NEW op \in ops', op[2] = fd[p]
        PROVE  op[1] = ring[p]
    <3>1. op[2] # NoFd
      BY <1>5, SocketsAssumption DEF IInv, TypeOK
    <3> QED BY <3>1, <1>6, <2>1, <2>2 DEF IInv, OneOwner, TypeOK
  <2>3. ASSUME NEW r \in Rings, NEW i \in DOMAIN sq'[r]
        PROVE  \E p \in live : ring[p] = r /\ fd[p] = sq'[r][i][2]
    <3>1. r # ring[o]
      BY <1>4
    <3> QED BY <3>1, <1>4, <2>1
  <2> QED BY <1>3, <2>1, <2>2, <2>3 DEF OpsOnOwnRing, LateSqesHeld
<1> QED BY <1>7, <1>8, <1>9, <1>10 DEF IInv

(* An SQE that a failed submit leaves names a descriptor that is held.      *)
LEMMA ThrowStep ==
  ASSUME IInv, NEW o \in Objects, CloseThrows(o) \/ StartOpThrows(o)
  PROVE  IInv'
<1>1. PICK sqe \in {Cancel(o), <<"op", fd[o]>>} : SubmitThrows(ring[o], sqe)
  BY DEF CloseThrows, StartOpThrows
<1>2. /\ o \in live /\ fd[o] \in Fds /\ ring[o] \in Rings
      /\ sqe \in Sqes /\ sqe[2] = fd[o]
      /\ UNCHANGED <<live, ring, fd, open, carried, ops, orphans, past>>
  BY <1>1 DEF CloseThrows, StartOpThrows, SubmitThrows, Cancel, Sqes, objects, IInv, TypeOK
<1>3. /\ sq' = [sq EXCEPT ![ring[o]] = Append(sq[ring[o]], sqe)]
      /\ fails' \in 0 .. MaxFails
  BY <1>1, SocketsAssumption DEF SubmitThrows, IInv, TypeOK
<1>4. TypeOK'
  BY <1>2, <1>3 DEF IInv, TypeOK
<1>5. OneOwner' /\ HeldIsOpen' /\ NoLeak' /\ CarriedIdle'
  BY <1>2 DEF IInv, OneOwner, HeldIsOpen, NoLeak, CarriedIdle
<1>6. ASSUME NEW r \in Rings, NEW i \in DOMAIN sq'[r]
      PROVE  \/ i \in DOMAIN sq[r] /\ sq'[r][i] = sq[r][i]
             \/ r = ring[o] /\ sq'[r][i] = sqe
  <2>1. sq[r] \in Seq(Sqes)
    BY DEF IInv, TypeOK
  <2>2. CASE r # ring[o]
    BY <2>2, <1>3 DEF IInv, TypeOK
  <2>3. CASE r = ring[o]
    <3>1. sq'[r] = Append(sq[r], sqe)
      BY <2>3, <1>3 DEF IInv, TypeOK
    <3> QED BY <2>1, <2>3, <3>1, <1>2
  <2> QED BY <2>2, <2>3
<1>7. CloseCancelsAll'
  <2> SUFFICES ASSUME past' = {}
        PROVE  orphans' = {} /\ OpsOnOwnRing' /\ LateSqesHeld'
    BY DEF CloseCancelsAll
  <2>1. past = {} /\ orphans = {} /\ OpsOnOwnRing /\ LateSqesHeld
    BY <1>2 DEF CloseCancelsAll, IInv
  <2>2. orphans' = {} /\ OpsOnOwnRing'
    BY <1>2, <2>1 DEF OpsOnOwnRing
  <2>3. LateSqesHeld'
    BY <1>2, <1>6, <2>1 DEF LateSqesHeld
  <2> QED BY <2>2, <2>3
<1> QED BY <1>4, <1>5, <1>7 DEF IInv

(* The kernel's steps, and stuttering.                                      *)
LEMMA OtherSteps ==
  ASSUME IInv,
         \/ \E f \in Fds : KernelAccepts(f)
         \/ \E op \in ops : OpCompletes(op)
         \/ \E op \in orphans : OrphanCompletes(op)
         \/ UNCHANGED vars
  PROVE  IInv'
<1> USE SocketsAssumption DEF IInv, TypeOK, objects, rings, history
<1>1. ASSUME NEW f \in Fds, KernelAccepts(f) PROVE IInv'
  <2> USE <1>1 DEF KernelAccepts
  <2>1. TypeOK'
    <3>1. live' \subseteq Objects /\ ring' \in [Objects -> Rings]
      OBVIOUS
    <3>2. fd' \in [Objects -> Fds \cup {NoFd}]
      OBVIOUS
    <3>3. open' \subseteq Fds /\ carried' \subseteq open'
      OBVIOUS
    <3>4. ops' \subseteq Rings \X open' /\ orphans' \subseteq Rings \X Fds
      OBVIOUS
    <3>5. sq' \in [Rings -> Seq(Sqes)]
      OBVIOUS
    <3>6. past' \subseteq {"crossed", "partial"} /\ fails' \in 0 .. MaxFails
      OBVIOUS
    <3> QED BY ONLY <3>1, <3>2, <3>3, <3>4, <3>5, <3>6 DEF TypeOK
  <2>2. OneOwner' /\ HeldIsOpen' /\ NoLeak'
    BY DEF OneOwner, HeldIsOpen, NoLeak
  <2>3. CarriedIdle'
    BY DEF CarriedIdle, CloseCancelsAll, OpsOnOwnRing
  <2>4. CloseCancelsAll'
    BY DEF CloseCancelsAll, OpsOnOwnRing, LateSqesHeld
  <2> QED BY <2>1, <2>2, <2>3, <2>4
<1>2. ASSUME NEW op \in ops, OpCompletes(op) PROVE IInv'
  <2> USE <1>2 DEF OpCompletes
  <2>1. TypeOK' /\ OneOwner' /\ HeldIsOpen' /\ NoLeak' /\ CarriedIdle'
    BY DEF OneOwner, HeldIsOpen, NoLeak, CarriedIdle
  <2>2. CloseCancelsAll'
    BY DEF CloseCancelsAll, OpsOnOwnRing, LateSqesHeld
  <2> QED BY <2>1, <2>2
<1>3. ASSUME NEW op \in orphans, OrphanCompletes(op) PROVE IInv'
  <2> USE <1>3 DEF OrphanCompletes
  <2>1. TypeOK' /\ OneOwner' /\ HeldIsOpen' /\ NoLeak' /\ CarriedIdle'
    BY DEF OneOwner, HeldIsOpen, NoLeak, CarriedIdle
  <2>2. CloseCancelsAll'
    BY DEF CloseCancelsAll, OpsOnOwnRing, LateSqesHeld
  <2> QED BY <2>1, <2>2
<1>4. CASE UNCHANGED vars
  <2> USE <1>4 DEF vars
  <2>1. TypeOK' /\ OneOwner' /\ HeldIsOpen' /\ NoLeak' /\ CarriedIdle'
    BY DEF OneOwner, HeldIsOpen, NoLeak, CarriedIdle
  <2>2. CloseCancelsAll'
    BY DEF CloseCancelsAll, OpsOnOwnRing, LateSqesHeld
  <2> QED BY <2>1, <2>2
<1> QED BY <1>1, <1>2, <1>3, <1>4

(* Every step, and every stutter, preserves the inductive invariant.        *)
LEMMA NextIInv == IInv /\ [Next]_vars => IInv'
<1> SUFFICES ASSUME IInv, [Next]_vars PROVE IInv'
  OBVIOUS
<1>1. ASSUME NEW o \in Objects, Close(o) PROVE IInv'
  BY <1>1, ReleaseStep DEF Close
<1> QED
  BY <1>1, ConstructStep, OnAcceptStep, MoveStep, DestroyStep, StartOpStep,
     ThrowStep, OtherSteps
  DEF Next

(* The inductive invariant holds in every reachable state.                  *)
LEMMA Inductive == Spec => []IInv
BY InitIInv, NextIInv, PTL DEF Spec

-----------------------------------------------------------------------------
(* The variables keep their types; in particular operations in flight are   *)
(* always on open descriptors.                                              *)
THEOREM TypeCorrect == Spec => []TypeOK
<1>1. IInv => TypeOK BY DEF IInv
<1> QED BY <1>1, Inductive, PTL

(* For any number of sockets moved around in any way, a descriptor has at   *)
(* most one owner, so that none is closed twice.                            *)
THEOREM Ownership == Spec => []OneOwner
<1>1. IInv => OneOwner BY DEF IInv
<1> QED BY <1>1, Inductive, PTL

(* No socket_t refers to a descriptor that was closed.                      *)
THEOREM NoDangling == Spec => []HeldIsOpen
<1>1. IInv => HeldIsOpen BY DEF IInv
<1> QED BY <1>1, Inductive, PTL

(* Moves, failed constructions and destructors leak no descriptor but 0.    *)
THEOREM LeakFree == Spec => []NoLeak
<1>1. IInv => NoLeak BY DEF IInv
<1> QED BY <1>1, Inductive, PTL

(* In a program that never assigns a socket of one ring to one of another,  *)
(* close() leaves no operation behind on the descriptor it closes.          *)
THEOREM Cancellation == Spec => []CloseCancelsAll
<1>1. IInv => CloseCancelsAll BY DEF IInv
<1> QED BY <1>1, Inductive, PTL
=============================================================================
