---------------------------- MODULE TasksProofs ----------------------------
(***************************************************************************)
(* Proofs about Tasks, for any number of tasks, waits and failures.        *)
(***************************************************************************)
EXTENDS Tasks, SequenceTheorems, TLAPS

(* A task that a throwing submit() ended has no frame.                      *)
ThrewGone == \A n \in threw : frame[wait[n].task] = "gone"

(* A coroutine that accepts waits on the ring for nothing else.             *)
OneKind ==
  \A m, n \in Waits : wait[m].task = wait[n].task => wait[m].multi = wait[n].multi

(* The ring knows each event once.                                          *)
OnceInRing == IsInjective(sq) /\ events \cap Range(sq) = {}

IInv ==
  /\ TypeOK
  /\ EventsInLiveFrames
  /\ RoomForSqe
  /\ StackIsRunning
  /\ ContinuationWaits
  /\ ThrewGone
  /\ OneKind
  /\ OnceInRing

(* The inductive invariant holds initially.                                 *)
LEMMA InitIInv == Init => IInv
<1> SUFFICES ASSUME Init PROVE IInv
  OBVIOUS
<1> USE TasksAssumption DEF Init, AllTasks, None, Range, Waits
<1>1. Len(wait) = 0 /\ wait \in Seq([task : AllTasks, multi : BOOLEAN])
  OBVIOUS
<1>2. TypeOK
  BY <1>1 DEF TypeOK
<1>3. EventsInLiveFrames /\ RoomForSqe /\ ContinuationWaits /\ ThrewGone /\ OneKind
  BY <1>1 DEF EventsInLiveFrames, RoomForSqe, ContinuationWaits, ThrewGone, OneKind
<1>4. StackIsRunning /\ OnceInRing
  BY DEF StackIsRunning, OnceInRing, IsInjective
<1> QED BY <1>2, <1>3, <1>4 DEF IInv

(* What is recorded of a wait.                                              *)
LEMMA WaitIsRecord ==
  ASSUME TypeOK, NEW n \in Waits
  PROVE  /\ wait[n] \in [task : AllTasks, multi : BOOLEAN]
         /\ wait[n].task \in AllTasks /\ wait[n].multi \in BOOLEAN
         /\ wait[n] = [task |-> wait[n].task, multi |-> wait[n].multi]
         /\ n # None
<1> DEFINE R == [task : AllTasks, multi : BOOLEAN]
<1>1. wait \in Seq(R) /\ n \in 1 .. Len(wait)
  BY DEF TypeOK, Waits
<1> HIDE DEF R
<1>2. wait[n] \in R
  BY <1>1
<1>3. wait[n] \in [task : AllTasks, multi : BOOLEAN]
  BY <1>2 DEF R
<1> QED BY <1>1, <1>3 DEF None

(* Handing over the first k of the SQEs that wait and of the new one, n:    *)
(* what the ring knows grows by n, and no more wait than before.            *)
LEMMA HandOver ==
  ASSUME NEW S, NEW n \in S, sq \in Seq(S), events \subseteq S,
         OnceInRing, n \notin events, n \notin Range(sq),
         NEW k \in 1 .. Len(sq) + 1,
         events' = events \cup {Append(sq, n)[i] : i \in 1 .. k},
         sq' = SubSeq(Append(sq, n), k + 1, Len(Append(sq, n)))
  PROVE  /\ sq' \in Seq(S)
         /\ Len(sq') <= Len(sq)
         /\ events' \subseteq S
         /\ events' \cup Range(sq') \subseteq events \cup Range(sq) \cup {n}
         /\ OnceInRing'
<1> DEFINE q == Append(sq, n)
<1>1. /\ q \in Seq(S) /\ Len(q) = Len(sq) + 1 /\ Len(sq) \in Nat
      /\ q[Len(sq) + 1] = n
      /\ \A i \in 1 .. Len(sq) : q[i] = sq[i]
      /\ DOMAIN sq = 1 .. Len(sq)
  OBVIOUS
<1>2. /\ events' = events \cup {q[i] : i \in 1 .. k}
      /\ sq' = SubSeq(q, k + 1, Len(q))
  OBVIOUS
<1> HIDE DEF q
<1>3. \A i \in 1 .. Len(q) : /\ q[i] \in Range(sq) \cup {n} /\ q[i] \in S
                            /\ q[i] \notin events
  BY <1>1 DEF Range, OnceInRing
<1>4. /\ sq' \in Seq(S)
      /\ Len(sq') = Len(q) - k
      /\ \A i \in 1 .. Len(q) - k : sq'[i] = q[k + i]
  <2>1. \A i \in k + 1 .. Len(q) : q[i] \in S
    BY <1>1, <1>3
  <2>2. /\ SubSeq(q, k + 1, Len(q)) \in Seq(S)
        /\ Len(SubSeq(q, k + 1, Len(q))) =
             IF k + 1 <= Len(q) THEN Len(q) - (k + 1) + 1 ELSE 0
        /\ \A i \in 1 .. Len(q) - (k + 1) + 1 :
             SubSeq(q, k + 1, Len(q))[i] = q[k + 1 + i - 1]
    BY <1>1, <2>1, SubSeqProperties
  <2>3. Len(q) - (k + 1) + 1 = Len(q) - k /\ k <= Len(q)
    BY <1>1
  <2>4. ASSUME NEW i \in 1 .. Len(q) - k
        PROVE  SubSeq(q, k + 1, Len(q))[i] = q[k + i]
    <3>1. k + 1 + i - 1 = k + i
      BY <1>1
    <3> QED BY <2>2, <2>3, <3>1
  <2>5. Len(SubSeq(q, k + 1, Len(q))) = Len(q) - k
    BY <1>1, <2>2
  <2> QED BY <1>2, <2>2, <2>4, <2>5
<1>5. /\ DOMAIN sq' = 1 .. Len(q) - k
      /\ \A i \in 1 .. Len(q) - k : k + i \in 1 .. Len(q)
  BY <1>1, <1>4
<1>6. Range(sq') \subseteq Range(sq) \cup {n}
  BY <1>3, <1>4, <1>5 DEF Range
<1>7. events' \subseteq events \cup Range(sq) \cup {n} /\ events' \subseteq S
  BY <1>1, <1>2, <1>3
<1>8. \A i, j \in 1 .. Len(q) : q[i] = q[j] => i = j
  <2>1. \A i, j \in 1 .. Len(sq) : sq[i] = sq[j] => i = j
    BY <1>1 DEF OnceInRing, IsInjective
  <2>2. \A i \in 1 .. Len(sq) : sq[i] # n
    BY <1>1 DEF Range
  <2> QED BY <1>1, <2>1, <2>2
<1>9. IsInjective(sq')
  <2>1. ASSUME NEW i \in 1 .. Len(q) - k, NEW j \in 1 .. Len(q) - k, sq'[i] = sq'[j]
        PROVE  i = j
    <3>1. /\ k + i \in 1 .. Len(q) /\ k + j \in 1 .. Len(q)
          /\ q[k + i] = q[k + j]
      BY ONLY <1>4, <1>5, <2>1
    <3>2. k + i = k + j
      BY ONLY <1>8, <3>1
    <3>3. k \in Int
      OBVIOUS
    <3> QED BY ONLY <3>2, <3>3, i \in 1 .. Len(q) - k, j \in 1 .. Len(q) - k
  <2>2. \A i, j \in DOMAIN sq' : sq'[i] = sq'[j] => i = j
    BY ONLY <1>5, <2>1
  <2> QED BY ONLY <2>2 DEF IsInjective
<1>10. events' \cap Range(sq') = {}
  <2> SUFFICES ASSUME NEW i \in 1 .. Len(q) - k, sq'[i] \in events'
               PROVE  FALSE
    BY <1>5 DEF Range
  <2>1. sq'[i] = q[k + i] /\ k + i \in 1 .. Len(q) /\ k + i \notin 1 .. k
    BY <1>1, <1>4, <1>5
  <2>2. sq'[i] \notin events
    BY <1>3, <2>1
  <2>3. \A j \in 1 .. k : q[j] # q[k + i]
    BY <1>1, <1>8, <2>1
  <2> QED BY <1>2, <2>1, <2>2, <2>3
<1> QED BY <1>1, <1>4, <1>6, <1>7, <1>9, <1>10 DEF OnceInRing

(* Leaving the innermost coroutine takes it, and only it, off the stack.    *)
LEMMA Pop ==
  ASSUME IInv, NEW t \in AllTasks, Running(t), stack' = Front(stack)
  PROVE  /\ frame[t] = "running"
         /\ stack' \in Seq(AllTasks)
         /\ Range(stack') = Range(stack) \ {t}
         /\ IsInjective(stack')
<1>1. /\ stack \in Seq(AllTasks)
      /\ stack # <<>>
      /\ t = stack[Len(stack)]
  BY DEF IInv, TypeOK, Running, Current, Last
<1>2. /\ stack' = SubSeq(stack, 1, Len(stack) - 1)
      /\ stack' \in Seq(AllTasks)
      /\ Len(stack') = Len(stack) - 1
      /\ Len(stack) \in Nat \ {0}
      /\ \A i \in 1 .. Len(stack) - 1 : stack'[i] = stack[i]
  <2>1. stack' = SubSeq(stack, 1, Len(stack) - 1)
    BY DEF Front
  <2>2. Len(stack) \in Nat \ {0}
    BY <1>1
  <2>3. /\ stack' \in Seq(AllTasks)
        /\ Len(stack') = Len(stack) - 1
        /\ \A i \in 1 .. Len(stack) - 1 : stack'[i] = stack[i]
    <3>1. \A i \in 1 .. Len(stack) - 1 : stack[i] \in AllTasks
      BY <1>1, <2>2
    <3>2. /\ SubSeq(stack, 1, Len(stack) - 1) \in Seq(AllTasks)
          /\ Len(SubSeq(stack, 1, Len(stack) - 1)) =
               IF 1 <= Len(stack) - 1 THEN Len(stack) - 1 - 1 + 1 ELSE 0
          /\ \A i \in 1 .. Len(stack) - 1 - 1 + 1 :
               SubSeq(stack, 1, Len(stack) - 1)[i] = stack[1 + i - 1]
      BY <2>2, <3>1, SubSeqProperties
    <3>3. Len(stack) - 1 - 1 + 1 = Len(stack) - 1
      BY <2>2
    <3>4. ASSUME NEW i \in 1 .. Len(stack) - 1
          PROVE  stack'[i] = stack[i]
      <4>1. 1 + i - 1 = i
        BY <2>2
      <4> QED BY <4>1, <3>2, <3>3, <2>1
    <3>5. Len(stack') = Len(stack) - 1
      <4>1. CASE Len(stack) = 1
        BY <4>1, <3>2, <2>1
      <4>2. CASE Len(stack) # 1
        BY <4>2, <3>2, <3>3, <2>1, <2>2
      <4> QED BY <4>1, <4>2
    <3> QED BY <3>2, <3>4, <3>5, <2>1
  <2> QED BY <2>1, <2>2, <2>3
<1>3. \A i, j \in 1 .. Len(stack) : stack[i] = stack[j] => i = j
  BY <1>1 DEF IInv, StackIsRunning, IsInjective
<1>4. t \in Range(stack)
  BY <1>1, <1>2 DEF Range
<1>5. Range(stack') = Range(stack) \ {t}
  <2>1. /\ DOMAIN stack = 1 .. Len(stack)
        /\ DOMAIN stack' = 1 .. Len(stack) - 1
    BY <1>1, <1>2
  <2>2. Range(stack') \subseteq Range(stack) \ {t}
    BY <1>1, <1>2, <1>3, <2>1 DEF Range
  <2>3. ASSUME NEW u \in Range(stack), u # t
        PROVE  u \in Range(stack')
    <3>1. PICK i \in 1 .. Len(stack) : stack[i] = u
      BY <2>1 DEF Range
    <3>2. i \in 1 .. Len(stack) - 1
      BY <3>1, <2>3, <1>1, <1>2
    <3> QED BY <3>1, <3>2, <2>1, <1>2 DEF Range
  <2> QED BY <2>2, <2>3
<1>6. IsInjective(stack')
  BY <1>2, <1>3 DEF IsInjective
<1> QED BY <1>2, <1>4, <1>5, <1>6 DEF IInv, StackIsRunning

(* A coroutine is called: a new frame, on the stack of its caller.          *)
LEMMA CallStep ==
  ASSUME IInv, NEW t \in AllTasks, Call(t)
  PROVE  IInv'
<1> USE DEF Call, IInv, TypeOK, ring, history, Waits
<1>1. Current \in AllTasks \cup {None}
  BY DEF Current, Last, None
<1>2. TypeOK'
  BY <1>1
<1>3. /\ EventsInLiveFrames' /\ RoomForSqe' /\ ContinuationWaits'
      /\ ThrewGone' /\ OneKind' /\ OnceInRing'
  <2>1. \A n \in threw : wait[n].task \in AllTasks
    BY WaitIsRecord
  <2> QED BY <2>1 DEF EventsInLiveFrames, RoomForSqe, ContinuationWaits, Accepts,
                      ThrewGone, OneKind, OnceInRing
<1>4. StackIsRunning'
  <2>1. t \notin Range(stack)
    BY DEF StackIsRunning
  <2>2. Range(stack') = Range(stack) \cup {t}
    <3>1. /\ DOMAIN stack = 1 .. Len(stack)
          /\ DOMAIN stack' = 1 .. Len(stack) + 1
          /\ stack'[Len(stack) + 1] = t
          /\ \A i \in 1 .. Len(stack) : stack'[i] = stack[i]
          /\ Len(stack) \in Nat
      OBVIOUS
    <3>2. 1 .. Len(stack) + 1 = (1 .. Len(stack)) \cup {Len(stack) + 1}
      BY <3>1
    <3> QED BY ONLY <3>1, <3>2 DEF Range
  <2>3. IsInjective(stack')
    BY <2>1 DEF StackIsRunning, IsInjective, Range
  <2> QED BY <2>2, <2>3 DEF StackIsRunning
<1> QED BY <1>2, <1>3, <1>4

(* A wait begins: it gets the next number, and the earlier ones keep their  *)
(* meaning.                                                                 *)
LEMMA BeginWait ==
  ASSUME IInv, NEW t \in AllTasks, NEW multi \in BOOLEAN, Begin(t, multi)
  PROVE  /\ wait' \in Seq([task : AllTasks, multi : BOOLEAN]) /\ Len(wait') <= MaxWaits
         /\ Len(wait') = Len(wait) + 1 /\ Len(wait) \in Nat
         /\ Waits' = Waits \cup {Len(wait')} /\ Len(wait') \notin Waits
         /\ \A n \in Waits : wait'[n] = wait[n] /\ wait[n] \in [task : AllTasks, multi : BOOLEAN]
         /\ wait'[Len(wait')] = [task |-> t, multi |-> multi]
         /\ OneKind'
<1>1. /\ wait \in Seq([task : AllTasks, multi : BOOLEAN])
      /\ wait' = Append(wait, [task |-> t, multi |-> multi])
      /\ Len(wait) < MaxWaits /\ MaxWaits \in Nat
      /\ \A n \in DOMAIN wait : wait[n].task = t => wait[n].multi = multi
  BY TasksAssumption DEF Begin, IInv, TypeOK
<1>2. /\ Len(wait') = Len(wait) + 1 /\ Len(wait) \in Nat
      /\ wait' \in Seq([task : AllTasks, multi : BOOLEAN])
      /\ \A n \in 1 .. Len(wait) : wait'[n] = wait[n] /\ wait[n] \in [task : AllTasks, multi : BOOLEAN]
      /\ wait'[Len(wait) + 1] = [task |-> t, multi |-> multi]
      /\ DOMAIN wait = 1 .. Len(wait)
  <2> DEFINE R == [task : AllTasks, multi : BOOLEAN]
             e == [task |-> t, multi |-> multi]
  <2>1. wait \in Seq(R) /\ e \in R /\ wait' = Append(wait, e)
    BY <1>1
  <2> HIDE DEF R, e
  <2>2. /\ Len(wait') = Len(wait) + 1 /\ Len(wait) \in Nat
        /\ wait' \in Seq(R)
        /\ \A n \in 1 .. Len(wait) : wait'[n] = wait[n] /\ wait[n] \in R
        /\ wait'[Len(wait) + 1] = e
        /\ DOMAIN wait = 1 .. Len(wait)
    BY <2>1
  <2> QED BY <2>2 DEF R, e
<1>3. Waits' = Waits \cup {Len(wait')} /\ Len(wait') \notin Waits
  BY <1>2 DEF Waits
<1>4. OneKind'
  <2> SUFFICES ASSUME NEW m \in Waits', NEW n \in Waits',
                      wait'[m].task = wait'[n].task
               PROVE  wait'[m].multi = wait'[n].multi
    BY DEF OneKind
  <2>1. \A i \in Waits : wait'[i].task = t => wait'[i].multi = multi
    BY <1>1, <1>2 DEF Waits
  <2>2. wait'[Len(wait')].task = t /\ wait'[Len(wait')].multi = multi
    BY <1>2
  <2>3. CASE m \in Waits /\ n \in Waits
    BY <1>2, <2>3 DEF IInv, OneKind, Waits
  <2> QED BY <1>3, <2>1, <2>2, <2>3
<1> QED BY <1>1, <1>2, <1>3, <1>4 DEF Waits

(* A coroutine leaves the stack, to wait on the ring or for good.           *)
LEMMA LeaveStack ==
  ASSUME IInv, NEW t \in AllTasks, Running(t), stack' = Front(stack),
         frame' \in {[frame EXCEPT ![t] = "ring"], [frame EXCEPT ![t] = "gone"]},
         UNCHANGED <<awaits, continuation, strayed>>,
         Waits \subseteq Waits', \A n \in Waits : wait'[n] = wait[n]
  PROVE  /\ frame[t] = "running" /\ at[t] = None
         /\ stack' \in Seq(AllTasks)
         /\ StackIsRunning' /\ ContinuationWaits'
<1>1. /\ frame[t] = "running"
      /\ stack' \in Seq(AllTasks)
      /\ Range(stack') = Range(stack) \ {t}
      /\ IsInjective(stack')
  BY Pop
<1>2. StackIsRunning'
  BY <1>1 DEF IInv, TypeOK, StackIsRunning
<1>3. \A u \in AllTasks : Accepts(u) => Accepts(u)'
  BY DEF Accepts
<1>4. ContinuationWaits'
  BY <1>1, <1>3 DEF IInv, TypeOK, ContinuationWaits
<1> QED BY <1>1, <1>2, <1>4 DEF IInv, TypeOK

(* A wait on the ring.                                                      *)
LEMMA WaitStep ==
  ASSUME IInv, NEW t \in AllTasks, NEW multi \in BOOLEAN, WaitOnRing(t, multi)
  PROVE  IInv'
<1> DEFINE n == Len(wait')
<1>1. /\ Begin(t, multi) /\ Running(t)
      /\ frame' = [frame EXCEPT ![t] = "ring"]
      /\ at' = [at EXCEPT ![t] = n]
      /\ stack' = Front(stack)
      /\ UNCHANGED <<caller, awaits, continuation, program, fails, threw, passed, strayed, lost>>
  BY DEF WaitOnRing, Begin
<1>2. PICK k \in 1 .. Len(sq) + 1 :
        /\ events' = events \cup {Append(sq, n)[i] : i \in 1 .. k}
        /\ sq' = SubSeq(Append(sq, n), k + 1, Len(Append(sq, n)))
  BY DEF WaitOnRing, Taken
<1>3. /\ wait' \in Seq([task : AllTasks, multi : BOOLEAN]) /\ n <= MaxWaits
      /\ n = Len(wait) + 1 /\ Len(wait) \in Nat
      /\ Waits' = Waits \cup {n} /\ n \notin Waits
      /\ \A m \in Waits : wait'[m] = wait[m] /\ wait[m] \in [task : AllTasks, multi : BOOLEAN]
      /\ wait'[n] = [task |-> t, multi |-> multi]
      /\ OneKind'
  BY <1>1, BeginWait
<1> HIDE DEF n
<1>4. /\ frame[t] = "running" /\ at[t] = None
      /\ stack' \in Seq(AllTasks)
      /\ StackIsRunning' /\ ContinuationWaits'
  BY <1>1, <1>3, LeaveStack
<1>5. /\ sq \in Seq(Waits) /\ events \subseteq Waits /\ Len(sq) \in Nat
      /\ at \in [AllTasks -> Waits \cup {None}]
      /\ frame \in [AllTasks -> {"absent", "running", "ring", "await", "gone"}]
  BY DEF IInv, TypeOK
<1>6. sq \in Seq(Waits')
  BY <1>3, <1>5
<1>7. Range(sq) \subseteq Waits
  <2>1. DOMAIN sq = 1 .. Len(sq) /\ \A i \in 1 .. Len(sq) : sq[i] \in Waits
    BY <1>5
  <2> QED BY ONLY <2>1 DEF Range
<1>8. /\ sq' \in Seq(Waits')
      /\ Len(sq') <= Len(sq)
      /\ events' \subseteq Waits'
      /\ events' \cup Range(sq') \subseteq events \cup Range(sq) \cup {n}
      /\ OnceInRing'
  <2>1. n \in Waits' /\ events \subseteq Waits'
    BY <1>3, <1>5
  <2> DEFINE S == Waits'
  <2> HIDE DEF S
  <2>2. n \in S /\ events \subseteq S /\ sq \in Seq(S)
    BY <2>1, <1>6 DEF S
  <2>3. OnceInRing /\ n \notin events /\ n \notin Range(sq)
    BY <1>3, <1>5, <1>7 DEF IInv
  <2>4. /\ sq' \in Seq(S)
        /\ Len(sq') <= Len(sq)
        /\ events' \subseteq S
        /\ events' \cup Range(sq') \subseteq events \cup Range(sq) \cup {n}
        /\ OnceInRing'
    BY ONLY <2>2, <2>3, <1>2, HandOver
  <2> QED BY <2>4 DEF S
<1>9. EventsInLiveFrames'
  <2> SUFFICES ASSUME NEW m \in events' \cup Range(sq')
               PROVE  \/ at'[wait'[m].task] = m
                      \/ m \in threw'
                      \/ m \in passed' /\ wait'[m].multi
    BY DEF EventsInLiveFrames
  <2>1. CASE m = n
    <3>1. wait'[m].task = t
      BY <1>3, <2>1
    <3> QED BY <1>1, <1>5, <2>1, <3>1
  <2>2. CASE m \in events \cup Range(sq)
    <3>1. /\ m \in Waits /\ wait'[m] = wait[m] /\ wait[m].task \in AllTasks
          /\ m # None
      BY <1>3, <1>5, <1>7, <2>2 DEF Waits, None
    <3>2. \/ at[wait[m].task] = m
          \/ m \in threw
          \/ m \in passed /\ wait[m].multi
      BY <2>2 DEF IInv, EventsInLiveFrames
    <3> QED BY <1>1, <1>4, <1>5, <3>1, <3>2
  <2> QED BY <1>8, <2>1, <2>2
<1>10. RoomForSqe'
  <2>1. Len(sq') \in Nat /\ Len(sq) <= fails /\ fails \in Nat
    BY <1>8, TasksAssumption DEF IInv, TypeOK, RoomForSqe
  <2> QED BY <1>1, <1>5, <1>8, <2>1 DEF RoomForSqe
<1>11. ThrewGone'
  <2>1. \A m \in threw : /\ wait'[m] = wait[m] /\ wait[m].task \in AllTasks
                        /\ frame[wait[m].task] = "gone"
    BY <1>3 DEF IInv, TypeOK, ThrewGone
  <2> QED BY <1>1, <1>4, <1>5, <2>1 DEF ThrewGone
<1>12. TypeOK'
  <2>1. at' \in [AllTasks -> Waits' \cup {None}] /\ n # None
    BY <1>1, <1>3, <1>5 DEF None
  <2>2. \A u \in AllTasks : /\ frame'[u] = "await" <=> awaits'[u] # None
                           /\ frame'[u] = "ring" <=> at'[u] # None
    BY <1>1, <1>4, <1>5, <2>1 DEF IInv, TypeOK
  <2> QED BY <1>1, <1>3, <1>4, <1>8, <2>1, <2>2 DEF IInv, TypeOK, n
<1> QED BY <1>3, <1>4, <1>8, <1>9, <1>10, <1>11, <1>12 DEF IInv

(* A submit() that throws: the task ends, its SQE stays.                    *)
LEMMA ThrowStep ==
  ASSUME IInv, NEW t \in AllTasks, NEW multi \in BOOLEAN, SubmitThrows(t, multi)
  PROVE  IInv'
<1> DEFINE n == Len(wait')
<1>1. /\ Begin(t, multi) /\ Running(t)
      /\ fails < MaxFails /\ fails' = fails + 1
      /\ threw' = threw \cup {n}
      /\ frame' = [frame EXCEPT ![t] = "gone"]
      /\ sq' = Append(sq, n)
      /\ stack' = Front(stack)
      /\ UNCHANGED <<caller, awaits, continuation, at, events, program, passed, strayed, lost>>
  BY DEF SubmitThrows, Begin
<1>2. /\ wait' \in Seq([task : AllTasks, multi : BOOLEAN]) /\ n <= MaxWaits
      /\ n = Len(wait) + 1 /\ Len(wait) \in Nat
      /\ Waits' = Waits \cup {n} /\ n \notin Waits
      /\ \A m \in Waits : wait'[m] = wait[m] /\ wait[m] \in [task : AllTasks, multi : BOOLEAN]
      /\ wait'[n] = [task |-> t, multi |-> multi]
      /\ OneKind'
  BY <1>1, BeginWait
<1> HIDE DEF n
<1>3. /\ frame[t] = "running" /\ at[t] = None
      /\ stack' \in Seq(AllTasks)
      /\ StackIsRunning' /\ ContinuationWaits'
  BY <1>1, <1>2, LeaveStack
<1>4. /\ sq \in Seq(Waits) /\ events \subseteq Waits /\ Len(sq) \in Nat
      /\ threw \subseteq Waits
      /\ at \in [AllTasks -> Waits \cup {None}]
      /\ frame \in [AllTasks -> {"absent", "running", "ring", "await", "gone"}]
      /\ fails \in 0 .. MaxFails /\ MaxFails \in Nat
  BY TasksAssumption DEF IInv, TypeOK
<1>5. sq \in Seq(Waits') /\ n \in Waits'
  BY <1>2, <1>4
<1>6. /\ sq' \in Seq(Waits') /\ Len(sq') = Len(sq) + 1
      /\ Range(sq') \subseteq Range(sq) \cup {n}
  <2>1. /\ sq' \in Seq(Waits') /\ Len(sq') = Len(sq) + 1
        /\ sq'[Len(sq) + 1] = n
        /\ \A i \in 1 .. Len(sq) : sq'[i] = sq[i]
        /\ DOMAIN sq = 1 .. Len(sq) /\ DOMAIN sq' = 1 .. Len(sq) + 1
    BY <1>1, <1>5
  <2>2. 1 .. Len(sq) + 1 = (1 .. Len(sq)) \cup {Len(sq) + 1}
    BY <1>4
  <2>3. Range(sq') \subseteq Range(sq) \cup {n}
    BY ONLY <2>1, <2>2 DEF Range
  <2> QED BY <2>1, <2>3
<1>7. Range(sq) \subseteq Waits
  <2>1. DOMAIN sq = 1 .. Len(sq) /\ \A i \in 1 .. Len(sq) : sq[i] \in Waits
    BY <1>4
  <2> QED BY ONLY <2>1 DEF Range
<1>8. EventsInLiveFrames'
  <2> SUFFICES ASSUME NEW m \in events' \cup Range(sq'), m # n
               PROVE  \/ at'[wait'[m].task] = m
                      \/ m \in threw'
                      \/ m \in passed' /\ wait'[m].multi
    BY <1>1 DEF EventsInLiveFrames
  <2>1. m \in events \cup Range(sq) /\ wait'[m] = wait[m]
    BY <1>1, <1>2, <1>4, <1>6, <1>7
  <2> QED BY <1>1, <2>1 DEF IInv, EventsInLiveFrames
<1>9. RoomForSqe'
  BY <1>1, <1>4, <1>6 DEF IInv, RoomForSqe
<1>10. ThrewGone'
  <2> SUFFICES ASSUME NEW m \in threw' PROVE frame'[wait'[m].task] = "gone"
    BY DEF ThrewGone
  <2>1. CASE m = n
    BY <1>1, <1>2, <1>4, <2>1
  <2>2. CASE m \in threw
    <3>1. wait'[m] = wait[m] /\ wait[m].task \in AllTasks /\ frame[wait[m].task] = "gone"
      BY <1>2, <1>4, <2>2 DEF IInv, ThrewGone
    <3> QED BY <1>1, <1>4, <3>1
  <2> QED BY <1>1, <2>1, <2>2
<1>11. TypeOK'
  <2>1. threw' \subseteq Waits' /\ passed' \subseteq Waits' /\ events' \subseteq Waits'
    BY <1>1, <1>2, <1>4 DEF IInv, TypeOK
  <2>2. at' \in [AllTasks -> Waits' \cup {None}]
    BY <1>1, <1>2, <1>4
  <2>3. \A u \in AllTasks : /\ frame'[u] = "await" <=> awaits'[u] # None
                           /\ frame'[u] = "ring" <=> at'[u] # None
    BY <1>1, <1>3, <1>4 DEF IInv, TypeOK
  <2>4. fails' \in 0 .. MaxFails
    BY <1>1, <1>4
  <2> QED BY <1>1, <1>2, <1>3, <1>6, <2>1, <2>2, <2>3, <2>4 DEF IInv, TypeOK, n
<1>12. OnceInRing'
  <2>1. IsInjective(sq')
    <3>1. \A i, j \in 1 .. Len(sq) : sq[i] = sq[j] => i = j
      BY <1>4 DEF IInv, OnceInRing, IsInjective
    <3>2. \A i \in 1 .. Len(sq) : sq[i] # n
      BY <1>2, <1>4
    <3> QED BY <1>1, <1>4, <1>5, <3>1, <3>2 DEF IsInjective
  <2>2. events' \cap Range(sq') = {}
    BY <1>1, <1>2, <1>4, <1>6 DEF IInv, OnceInRing
  <2> QED BY <2>1, <2>2 DEF OnceInRing
<1> QED BY <1>2, <1>3, <1>8, <1>9, <1>10, <1>11, <1>12 DEF IInv

(* A task ends.                                                             *)
LEMMA FinishStep ==
  ASSUME IInv, NEW t \in AllTasks, Finish(t)
  PROVE  IInv'
<1>1. /\ Running(t) /\ stack' = Front(stack)
      /\ frame' = [frame EXCEPT ![t] = "gone"]
      /\ UNCHANGED <<caller, awaits, continuation, at, sq, events, program,
                     wait, fails, threw, passed, strayed, lost>>
  BY DEF Finish, ring, history
<1>2. Waits' = Waits
  BY <1>1 DEF Waits
<1>3. /\ frame[t] = "running" /\ at[t] = None
      /\ stack' \in Seq(AllTasks)
      /\ StackIsRunning' /\ ContinuationWaits'
  BY <1>1, <1>2, LeaveStack
<1>4. EventsInLiveFrames' /\ RoomForSqe' /\ OneKind' /\ OnceInRing'
  BY <1>1, <1>2 DEF IInv, EventsInLiveFrames, RoomForSqe, OneKind, OnceInRing
<1>5. ThrewGone'
  <2>1. \A n \in threw : wait[n].task \in AllTasks
    <3>1. TypeOK /\ threw \subseteq Waits
      BY DEF IInv, TypeOK
    <3> QED BY <3>1, WaitIsRecord
  <2> QED BY <1>1, <2>1 DEF IInv, TypeOK, ThrewGone
<1>6. TypeOK'
  <2>1. \A u \in AllTasks : /\ frame'[u] = "await" <=> awaits'[u] # None
                           /\ frame'[u] = "ring" <=> at'[u] # None
    BY <1>1, <1>3 DEF IInv, TypeOK
  <2> QED BY <1>1, <1>2, <1>3, <2>1 DEF IInv, TypeOK
<1> QED BY <1>3, <1>4, <1>5, <1>6 DEF IInv

(* A coroutine waits for another one.                                       *)
LEMMA AwaitStep ==
  ASSUME IInv, NEW t \in AllTasks, NEW u \in AllTasks, Await(t, u)
  PROVE  IInv'
<1>1. /\ frame[t] = "running"
      /\ stack' \in Seq(AllTasks)
      /\ Range(stack') = Range(stack) \ {t}
      /\ IsInjective(stack')
  BY Pop DEF Await
<1>2. /\ frame' = [frame EXCEPT ![t] = "await"]
      /\ awaits' = [awaits EXCEPT ![t] = u]
      /\ u # None /\ t # None
      /\ UNCHANGED <<caller, at, sq, events, wait, fails, threw, passed, strayed>>
      /\ continuation' \in {continuation, [continuation EXCEPT ![u] = t]}
      /\ lost' \in {lost, lost \cup {t}}
      /\ program' \in {"up", "aborted"}
  BY DEF Await, ring, None, AllTasks, IInv, TypeOK
<1>3. Waits' = Waits
  BY <1>2 DEF Waits
<1>4. TypeOK'
  <2>1. \A x \in AllTasks : /\ frame'[x] = "await" <=> awaits'[x] # None
                           /\ frame'[x] = "ring" <=> at'[x] # None
    BY <1>1, <1>2 DEF IInv, TypeOK
  <2>2. /\ continuation' \in [AllTasks -> AllTasks \cup {None}]
        /\ lost' \subseteq AllTasks
    BY <1>2 DEF IInv, TypeOK
  <2> QED BY <1>1, <1>2, <1>3, <2>1, <2>2 DEF IInv, TypeOK
<1>5. StackIsRunning'
  BY <1>1, <1>2 DEF IInv, TypeOK, StackIsRunning
<1>6. ContinuationWaits'
  <2>1. \A x \in AllTasks : Accepts(x)' <=> Accepts(x)
    BY <1>2, <1>3 DEF Accepts
  <2> QED BY <1>1, <1>2, <2>1 DEF IInv, TypeOK, ContinuationWaits
<1>7. EventsInLiveFrames' /\ RoomForSqe' /\ OneKind' /\ OnceInRing'
  BY <1>2, <1>3 DEF IInv, EventsInLiveFrames, RoomForSqe, OneKind, OnceInRing
<1>8. ThrewGone'
  <2>1. \A n \in threw : wait[n].task \in AllTasks
    <3>1. TypeOK /\ threw \subseteq Waits
      BY DEF IInv, TypeOK
    <3> QED BY <3>1, WaitIsRecord
  <2> QED BY <1>1, <1>2, <2>1 DEF IInv, TypeOK, ThrewGone
<1> QED BY <1>4, <1>5, <1>6, <1>7, <1>8 DEF IInv

(* A completion resumes a coroutine, tells it nothing, or finds its event   *)
(* gone.                                                                    *)
LEMMA ResumeStep ==
  ASSUME IInv, NEW n \in events, Resume(n)
  PROVE  IInv'
<1> DEFINE t == wait[n].task
<1>1. /\ n \in Waits /\ n # None /\ t \in AllTasks /\ wait[n].multi \in BOOLEAN
      /\ stack = <<>>
      /\ UNCHANGED <<caller, continuation, sq, wait, fails, threw, lost>>
  <2>1. TypeOK /\ n \in Waits
    BY DEF IInv, TypeOK
  <2> QED BY <2>1, WaitIsRecord DEF Resume
<1>2. Waits' = Waits /\ \A u \in AllTasks : Accepts(u)' <=> Accepts(u)
  BY <1>1 DEF Waits, Accepts
<1>3. events' \subseteq events /\ (n \in events' => wait[n].multi)
  BY DEF Resume, GoesOn, NotTold, EventGone, MayStay
<1>4. RoomForSqe' /\ OneKind' /\ OnceInRing'
  BY <1>1, <1>2, <1>3 DEF IInv, RoomForSqe, OneKind, OnceInRing
<1>5. Resume(n) => GoesOn(n, t) \/ NotTold(n, t) \/ EventGone(n, t)
  BY DEF Resume
<1> HIDE DEF t
<1>6. CASE NotTold(n, t) \/ EventGone(n, t)
  <2>1. /\ UNCHANGED <<frame, awaits, stack, at, passed, strayed>>
        /\ program' \in {"up", "aborted"}
    BY <1>6 DEF NotTold, EventGone, IInv, TypeOK
  <2>2. TypeOK'
    BY <1>1, <1>2, <1>3, <2>1 DEF IInv, TypeOK
  <2>3. StackIsRunning' /\ ContinuationWaits' /\ ThrewGone'
    BY <1>1, <1>2, <2>1 DEF IInv, StackIsRunning, ContinuationWaits, ThrewGone
  <2>4. EventsInLiveFrames'
    BY <1>1, <1>3, <2>1 DEF IInv, EventsInLiveFrames
  <2> QED BY <1>4, <2>2, <2>3, <2>4 DEF IInv
<1>7. CASE GoesOn(n, t)
  <2>1. /\ frame[t] \in {"ring", "await"}
        /\ frame' = [frame EXCEPT ![t] = "running"]
        /\ at' = [at EXCEPT ![t] = None]
        /\ awaits' = [awaits EXCEPT ![t] = None]
        /\ stack' = <<t>>
        /\ passed' = passed \cup ({n, at[t]} \ {None})
        /\ strayed' = IF frame[t] = "await" THEN strayed \cup {t} ELSE strayed
        /\ UNCHANGED program
    BY <1>7 DEF GoesOn
  <2>2. n \notin threw
    BY <2>1 DEF IInv, ThrewGone, t
  <2>3. at[t] = n \/ (n \in passed /\ wait[n].multi)
    BY <2>2 DEF IInv, EventsInLiveFrames, t
  <2>4. TypeOK'
    <3>1. passed' \subseteq Waits /\ strayed' \subseteq AllTasks
      BY <1>1, <2>1 DEF IInv, TypeOK
    <3>2. \A u \in AllTasks : /\ frame'[u] = "await" <=> awaits'[u] # None
                             /\ frame'[u] = "ring" <=> at'[u] # None
      BY <1>1, <2>1 DEF IInv, TypeOK
    <3>3. stack' \in Seq(AllTasks)
      BY <1>1, <2>1
    <3>4. /\ frame' \in [AllTasks -> {"absent", "running", "ring", "await", "gone"}]
          /\ at' \in [AllTasks -> Waits \cup {None}]
          /\ awaits' \in [AllTasks -> AllTasks \cup {None}]
      BY <1>1, <2>1 DEF IInv, TypeOK
    <3> QED BY <1>1, <1>2, <1>3, <2>1, <3>1, <3>2, <3>3, <3>4 DEF IInv, TypeOK
  <2>5. StackIsRunning'
    <3>1. Range(stack) = {} /\ Range(stack') = {t} /\ IsInjective(stack')
      BY <1>1, <2>1 DEF Range, IsInjective
    <3> QED BY <1>1, <2>1, <3>1 DEF IInv, TypeOK, StackIsRunning
  <2>6. ContinuationWaits'
    <3>1. frame[t] = "await" => Accepts(t)
      <4>1. frame[t] = "await" => at[t] # n
        BY <1>1 DEF IInv, TypeOK
      <4>2. wait[n].multi => wait[n] = [task |-> t, multi |-> TRUE]
        <5>1. wait[n] = [task |-> wait[n].task, multi |-> wait[n].multi]
          BY <1>1, WaitIsRecord DEF IInv
        <5> QED BY <1>1, <5>1 DEF t
      <4> QED BY <1>1, <2>3, <4>1, <4>2 DEF Accepts
    <3> SUFFICES ASSUME NEW x \in AllTasks, NEW u \in AllTasks, continuation[u] = x
                 PROVE  \/ frame'[x] = "await" /\ awaits'[x] = u
                        \/ x \in strayed' /\ Accepts(x)'
      BY <1>1 DEF ContinuationWaits
    <3>2. (frame[x] = "await" /\ awaits[x] = u) \/ (x \in strayed /\ Accepts(x))
      BY DEF IInv, ContinuationWaits
    <3> QED BY <1>1, <1>2, <2>1, <3>1, <3>2 DEF IInv, TypeOK
  <2>7. ThrewGone'
    <3>1. \A m \in threw : wait[m].task \in AllTasks /\ frame[wait[m].task] = "gone"
      <4>1. TypeOK /\ threw \subseteq Waits
        BY DEF IInv, TypeOK
      <4> QED BY <4>1, WaitIsRecord DEF IInv, ThrewGone
    <3> QED BY <1>1, <2>1, <3>1 DEF IInv, TypeOK, ThrewGone
  <2>8. EventsInLiveFrames'
    <3> SUFFICES ASSUME NEW m \in events' \cup Range(sq)
                 PROVE  \/ at'[wait[m].task] = m
                        \/ m \in threw
                        \/ m \in passed' /\ wait[m].multi
      BY <1>1 DEF EventsInLiveFrames
    <3>1. m \in Waits /\ m # None /\ wait[m].task \in AllTasks
      <4>1. DOMAIN sq = 1 .. Len(sq) /\ \A i \in 1 .. Len(sq) : sq[i] \in Waits
        BY DEF IInv, TypeOK
      <4>2. Range(sq) \subseteq Waits
        BY ONLY <4>1 DEF Range
      <4>3. m \in Waits /\ TypeOK
        BY <1>3, <4>2 DEF IInv, TypeOK
      <4> QED BY <4>3, WaitIsRecord
    <3>2. \/ at[wait[m].task] = m
          \/ m \in threw
          \/ m \in passed /\ wait[m].multi
      BY <1>3 DEF IInv, EventsInLiveFrames
    <3>3. CASE at[wait[m].task] = m /\ wait[m].task = t
      <4>1. m \in passed'
        BY <2>1, <3>1, <3>3
      <4>2. CASE wait[n].multi
        BY <1>1, <3>1, <3>3, <4>1, <4>2 DEF IInv, OneKind, t
      <4>3. CASE ~wait[n].multi
        <5>1. m = n /\ n \notin events'
          BY <1>3, <2>3, <3>3, <4>3
        <5>2. n \notin Range(sq)
          BY DEF IInv, OnceInRing
        <5> QED BY <5>1, <5>2
      <4> QED BY <4>2, <4>3
    <3>4. CASE at[wait[m].task] = m /\ wait[m].task # t
      BY <1>1, <2>1, <3>1, <3>4 DEF IInv, TypeOK
    <3> QED BY <2>1, <3>2, <3>3, <3>4
  <2> QED BY <1>4, <2>4, <2>5, <2>6, <2>7, <2>8 DEF IInv
<1> QED BY <1>5, <1>6, <1>7

(* Every step, and every stutter, preserves the inductive invariant.        *)
LEMMA NextIInv == IInv /\ [Next]_vars => IInv'
<1> SUFFICES ASSUME IInv, [Next]_vars PROVE IInv'
  OBVIOUS
<1>1. CASE UNCHANGED vars
  BY <1>1 DEF vars, coroutines, ring, history, IInv, TypeOK, EventsInLiveFrames,
     RoomForSqe, StackIsRunning, ContinuationWaits, Accepts, ThrewGone, OneKind,
     OnceInRing, Waits
<1>2. ASSUME NEW t \in AllTasks, NoSqe(t) PROVE IInv'
  <2>1. /\ UNCHANGED <<coroutines, ring, history>>
        /\ program' = "aborted"
    BY <1>2 DEF NoSqe
  <2> QED BY <2>1 DEF coroutines, ring, history, IInv, TypeOK, EventsInLiveFrames,
             RoomForSqe, StackIsRunning, ContinuationWaits, Accepts, ThrewGone, OneKind,
             OnceInRing, Waits
<1> QED BY <1>1, <1>2, CallStep, WaitStep, ThrowStep, FinishStep, AwaitStep, ResumeStep
        DEF Next, Step

(* The inductive invariant holds in every reachable state.                  *)
LEMMA Inductive == Spec => []IInv
BY InitIInv, NextIInv, PTL DEF Spec

-----------------------------------------------------------------------------
(* The variables keep their types, and a task is suspended at the wait for  *)
(* another one exactly when it is recorded whom it waits for.               *)
THEOREM TypeCorrect == Spec => []TypeOK
<1>1. IInv => TypeOK BY DEF IInv
<1> QED BY <1>1, Inductive, PTL

(* For any number of tasks: the ring holds only events of coroutines that   *)
(* are suspended at the wait on them, of tasks that a throwing submit()     *)
(* ended, and of accepts whose task was resumed; the last two are the       *)
(* code's, and there are no others.                                         *)
THEOREM EventsLive == Spec => []EventsInLiveFrames
<1>1. IInv => EventsInLiveFrames BY DEF IInv
<1> QED BY <1>1, Inductive, PTL

(* However many SQEs each submit() leaves behind, no more wait than submits *)
(* have thrown: prepare() finds a slot until SqSize of them have.           *)
THEOREM SqeRoom == Spec => []RoomForSqe
<1>1. IInv => RoomForSqe BY DEF IInv
<1> QED BY <1>1, Inductive, PTL

(* No coroutine is resumed while it runs.                                   *)
THEOREM NoReentry == Spec => []StackIsRunning
<1>1. IInv => StackIsRunning BY DEF IInv
<1> QED BY <1>1, Inductive, PTL

(* A continuation that is recorded is one it would be right to resume, but  *)
(* for that of an accepting coroutine that a later connection resumed at    *)
(* its wait for another task.                                               *)
THEOREM ContinuationsRight == Spec => []ContinuationWaits
<1>1. IInv => ContinuationWaits BY DEF IInv
<1> QED BY <1>1, Inductive, PTL
=============================================================================
