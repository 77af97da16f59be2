----------------------------- MODULE RingProofs -----------------------------
(***************************************************************************)
(* Proofs about Ring, for every size of the rings and every bound.         *)
(***************************************************************************)
EXTENDS Ring, TLAPS

(* How far the pass has got, the running handler's completion included.     *)
Visited == head + (IF pc = "handler" THEN 1 ELSE 0)

(* What the reader may rely on: the completions not yet given back fit the  *)
(* ring, the pass stays behind the tail, and it is at its start whenever    *)
(* wait_for_events is not in its loop.                                      *)
PassInv ==
  /\ ktail - khead <= CqSize
  /\ Visited <= ktail
  /\ head = khead + completions
  /\ pc \in {"user", "wait"} => completions = 0

(* The completion ring is a window of the log: every slot not yet given     *)
(* back holds the completion the reader expects there, however the kernel   *)
(* laps the ring and whatever overflowed meanwhile.                         *)
WindowIntact ==
  \A n \in khead .. ktail - 1 : slots[Slot(n)] = n + 1

(* The history: everything up to Visited was handled, and the running       *)
(* handler was given the completion at head.                          *)
HandledInv ==
  /\ \A n \in 1 .. Visited : \E i \in 1 .. Len(handled) : handled[i] = n
  /\ pc = "handler" => /\ Len(handled) > 0
                       /\ handled[Len(handled)] = head + 1

IInv ==
  /\ TypeOK
  /\ PassInv
  /\ WindowIntact
  /\ HandledInv
  /\ InOrderOnce

-----------------------------------------------------------------------------
(* Two completions less than a ring apart never share a slot: the fact that *)
(* lets the kernel write a slot while the reader holds others.              *)
LEMMA SlotDistinct ==
  ASSUME NEW m \in Nat, NEW n \in Nat, m < n, n - m < CqSize
  PROVE  Slot(m) # Slot(n)
<1>1. CqSize \in Nat \ {0} BY RingAssumption
<1>2. SUFFICES ASSUME Slot(m) = Slot(n) PROVE FALSE
  OBVIOUS
<1>3. PICK d \in Int : n - m = CqSize * d
  <2>1. m = CqSize * (m \div CqSize) + (m % CqSize)
    BY <1>1, SMT
  <2>2. n = CqSize * (n \div CqSize) + (n % CqSize)
    BY <1>1, SMT
  <2>3. /\ m \div CqSize \in Int
        /\ n \div CqSize \in Int
    BY <1>1, SMT
  <2>4. CqSize * ((n \div CqSize) - (m \div CqSize)) = n - m
    BY <1>1, <1>2, <2>1, <2>2, <2>3, SMT DEF Slot
  <2> QED BY <2>3, <2>4
<1>4. CASE d <= 0
  <2>1. CqSize * d <= 0 BY <1>1, <1>4, SMT
  <2> QED BY <1>1, <1>3, <2>1
<1>5. CASE d >= 1
  <2>1. CqSize * d >= CqSize BY <1>1, <1>5, SMT
  <2> QED BY <1>1, <1>3, <2>1
<1> QED BY <1>4, <1>5

-----------------------------------------------------------------------------
(* The inductive invariant holds initially.                                 *)
LEMMA InitIInv == Init => IInv
BY RingAssumption DEF Init, IInv, TypeOK, PassInv, WindowIntact, HandledInv,
   InOrderOnce, Visited

(* The steps of prepare, submit and of the start of a wait leave the        *)
(* completion side alone.                                                   *)
LEMMA SubmissionSteps ==
  ASSUME IInv,
         (\E shot \in Shots : Prepare(shot)) \/ Submit \/ WaitForEvents \/ WaitFails
  PROVE  IInv'
<1> USE RingAssumption
<1>1. CASE \E shot \in Shots : Prepare(shot)
  BY <1>1 DEF IInv, Prepare, TypeOK, PassInv, WindowIntact, HandledInv,
     InOrderOnce, Visited, Slot, kernel, ring, loop
<1>2. CASE Submit
  <2>1. PICK r \in 1 .. Len(sqes) - sqHead :
          /\ sqHead' = sqHead + r
          /\ inflight' = inflight \cup (sqHead + 1 .. sqHead + r)
    BY <1>2 DEF Submit
  <2>2. /\ UNCHANGED <<sqes, posted, ktail, slots>>
        /\ UNCHANGED <<khead, pc, head, completions, handled, throws>>
    BY <1>2 DEF Submit, ring, loop
  <2>3. TypeOK'
    <3>1. inflight' \subseteq 1 .. sqHead'
      BY <2>1, <2>2 DEF IInv, TypeOK
    <3>2. posted' \in Seq(1 .. sqHead')
      BY <2>1, <2>2 DEF IInv, TypeOK
    <3> QED BY <2>1, <2>2, <3>1, <3>2 DEF IInv, TypeOK
  <2> QED
    BY <2>2, <2>3 DEF IInv, PassInv, WindowIntact, HandledInv,
       InOrderOnce, Visited, Slot
<1>3. CASE WaitForEvents \/ WaitFails
  BY <1>3 DEF IInv, WaitForEvents, WaitFails, TypeOK, PassInv, WindowIntact,
     HandledInv, InOrderOnce, Visited, Slot, submission, kernel, ring
<1> QED BY <1>1, <1>2, <1>3

(* A pass: the handler is given the completion at head because the    *)
(* window is intact, and only the end of the pass moves the window.         *)
LEMMA LoopSteps ==
  ASSUME IInv,
         WaitOver \/ CallHandler \/ HandlerReturns \/ HandlerThrows \/ PassEnds
  PROVE  IInv'
<1> USE RingAssumption
<1>1. CASE WaitOver
  BY <1>1 DEF IInv, WaitOver, TypeOK, PassInv, WindowIntact, HandledInv,
     InOrderOnce, Visited, Slot, submission, kernel, ring
<1>2. CASE CallHandler
  <2> USE <1>2 DEF CallHandler, submission, kernel, ring
  <2>1. /\ slots[Slot(head)] = head + 1
        /\ head + 1 \in 1 .. ktail
    BY DEF IInv, TypeOK, PassInv, WindowIntact, Visited
  <2>2. /\ handled' = Append(handled, head + 1)
        /\ Len(handled') = Len(handled) + 1
        /\ handled'[Len(handled')] = head + 1
        /\ \A i \in 1 .. Len(handled) : handled'[i] = handled[i]
    BY <2>1 DEF IInv, TypeOK
  <2>3. TypeOK'
    BY <2>1, <2>2 DEF IInv, TypeOK
  <2>4. PassInv' /\ WindowIntact'
    BY DEF IInv, TypeOK, PassInv, WindowIntact, Visited, Slot
  <2>5. HandledInv'
    <3>1. ASSUME NEW n \in 1 .. Visited'
          PROVE  \E i \in 1 .. Len(handled') : handled'[i] = n
      <4>1. CASE n = head + 1
        <5>1. Len(handled') \in 1 .. Len(handled')
          BY <2>2 DEF IInv, TypeOK
        <5> QED BY <5>1, <4>1, <2>2
      <4>2. CASE n # head + 1
        <5>1. n \in 1 .. Visited
          BY <4>2 DEF IInv, TypeOK, Visited
        <5>2. PICK i \in 1 .. Len(handled) : handled[i] = n
          BY <5>1 DEF IInv, HandledInv
        <5> QED BY <5>2, <2>2 DEF IInv, TypeOK
      <4> QED BY <4>1, <4>2
    <3>2. Len(handled') > 0 /\ handled'[Len(handled')] = head' + 1
      BY <2>2 DEF IInv, TypeOK
    <3> QED BY <3>1, <3>2 DEF HandledInv
  <2>6. InOrderOnce'
    <3>1. UNCHANGED <<head, throws>> /\ pc = "loop" /\ pc' = "handler"
      OBVIOUS
    <3>2. CASE throws = 0
      <4>1. /\ Len(handled) = head /\ head \in Nat
            /\ \A i \in 1 .. Len(handled) : handled[i] = i
        BY <3>1, <3>2 DEF IInv, TypeOK, InOrderOnce
      <4>2. Len(handled') = head + 1 /\ handled'[head + 1] = head + 1
        BY <2>2, <4>1
      <4>3. \A i \in 1 .. head + 1 : i \in 1 .. head \/ i = head + 1
        BY <4>1
      <4>4. \A i \in 1 .. Len(handled') : handled'[i] = i
        BY <2>2, <4>1, <4>2, <4>3
      <4> QED BY <3>1, <4>2, <4>4 DEF InOrderOnce
    <3>3. CASE throws # 0
      BY <3>1, <3>3 DEF InOrderOnce
    <3> QED BY <3>2, <3>3
  <2> QED BY <2>3, <2>4, <2>5, <2>6 DEF IInv
<1>3. CASE HandlerReturns
  BY <1>3 DEF IInv, HandlerReturns, TypeOK, PassInv, WindowIntact, HandledInv,
     InOrderOnce, Visited, Slot, submission, kernel, ring
<1>4. CASE HandlerThrows
  <2> USE <1>4 DEF HandlerThrows, submission, kernel, ring
  <2>1. TypeOK' /\ PassInv' /\ WindowIntact'
    BY DEF IInv, TypeOK, PassInv, WindowIntact, Visited, Slot
  <2>2. HandledInv'
    <3>1. 1 .. Visited' \subseteq 1 .. Visited
      BY DEF IInv, TypeOK, PassInv, Visited
    <3> QED BY <3>1 DEF IInv, HandledInv
  <2>3. InOrderOnce'
    BY DEF IInv, TypeOK, InOrderOnce
  <2> QED BY <2>1, <2>2, <2>3 DEF IInv
<1>5. CASE PassEnds
  BY <1>5 DEF IInv, PassEnds, Advance, TypeOK, PassInv, WindowIntact, HandledInv,
     InOrderOnce, Visited, Slot, submission, kernel, ring
<1> QED BY <1>1, <1>2, <1>3, <1>4, <1>5

(* The kernel places a completion only in a slot the reader gave back.      *)
LEMMA PlaceStep ==
  ASSUME IInv, HasRoom, Place, UNCHANGED <<submission, loop>>,
         inflight' \subseteq 1 .. sqHead, posted' \in Seq(1 .. sqHead),
         ktail < Len(posted')
  PROVE  IInv'
<1> USE RingAssumption DEF submission, loop, Place
<1>1. /\ Slot(ktail) \in 0 .. CqSize - 1
      /\ slots'[Slot(ktail)] = ktail + 1
  BY DEF IInv, TypeOK, Slot
<1>2. TypeOK'
  <2>1. slots' \in [0 .. CqSize - 1 -> 0 .. ktail']
    BY <1>1 DEF IInv, TypeOK
  <2>2. handled' \in Seq(1 .. ktail')
    BY DEF IInv, TypeOK
  <2> QED BY <2>1, <2>2 DEF IInv, TypeOK
<1>3. PassInv'
  BY DEF IInv, TypeOK, PassInv, HasRoom, Visited
<1>4. WindowIntact'
  <2>1. ASSUME NEW n \in khead .. ktail - 1
        PROVE  slots'[Slot(n)] = n + 1
    <3>1. Slot(n) # Slot(ktail)
      <4>1. /\ n \in Nat /\ ktail \in Nat
            /\ n < ktail /\ ktail - n < CqSize
        BY DEF IInv, TypeOK, HasRoom
      <4> QED BY <4>1, SlotDistinct
    <3>2. slots'[Slot(n)] = slots[Slot(n)]
      BY <3>1 DEF IInv, TypeOK, Slot
    <3> QED BY <3>2 DEF IInv, WindowIntact
  <2>2. khead' .. ktail' - 1 \subseteq (khead .. ktail - 1) \cup {ktail}
    BY DEF IInv, TypeOK
  <2> QED BY <2>1, <2>2, <1>1 DEF WindowIntact
<1>5. HandledInv' /\ InOrderOnce'
  BY DEF IInv, HandledInv, InOrderOnce, Visited
<1> QED BY <1>2, <1>3, <1>4, <1>5 DEF IInv

(* What the kernel does keeps the inductive invariant.                      *)
LEMMA KernelSteps ==
  ASSUME IInv, Kernel
  PROVE  IInv'
<1> USE RingAssumption
<1>1. CASE Flush
  <2>1. /\ inflight' \subseteq 1 .. sqHead /\ posted' \in Seq(1 .. sqHead)
        /\ ktail < Len(posted')
    BY <1>1 DEF Flush, kernel, IInv, TypeOK
  <2> QED BY <1>1, <2>1, PlaceStep DEF Flush
<1>2. ASSUME NEW r \in inflight, NEW more \in BOOLEAN, Complete(r, more)
      PROVE  IInv'
  <2>1. /\ r \in 1 .. sqHead
        /\ posted' = Append(posted, r)
        /\ UNCHANGED <<submission, loop>>
    BY <1>2 DEF Complete, IInv, TypeOK
  <2>2. /\ posted' \in Seq(1 .. sqHead)
        /\ Len(posted') = Len(posted) + 1
        /\ ktail < Len(posted')
    BY <2>1 DEF IInv, TypeOK
  <2>3. inflight' \subseteq 1 .. sqHead
    BY <1>2 DEF Complete, IInv, TypeOK
  <2>4. CASE HasRoom /\ Place
    BY <2>1, <2>2, <2>3, <2>4, PlaceStep
  <2>5. CASE UNCHANGED ring
    <3>1. TypeOK'
      BY <2>1, <2>2, <2>3, <2>5 DEF IInv, TypeOK, submission, loop, ring
    <3> QED
      BY <2>1, <2>5, <3>1 DEF IInv, PassInv, WindowIntact, HandledInv,
         InOrderOnce, Visited, Slot, submission, loop, ring
  <2> QED BY <1>2, <2>4, <2>5 DEF Complete
<1> QED BY <1>1, <1>2 DEF Kernel

(* Every step, and every stutter, preserves the inductive invariant.        *)
LEMMA NextIInv == IInv /\ [Next]_vars => IInv'
<1> SUFFICES ASSUME IInv, [Next]_vars PROVE IInv'
  OBVIOUS
<1>1. CASE User
  BY <1>1, SubmissionSteps, LoopSteps DEF User
<1>2. CASE Kernel
  BY <1>2, KernelSteps
<1>3. CASE UNCHANGED vars
  BY <1>3 DEF vars, submission, kernel, ring, loop, IInv, TypeOK, PassInv,
     WindowIntact, HandledInv, InOrderOnce, Visited, Slot
<1> QED BY <1>1, <1>2, <1>3 DEF Next

(* The inductive invariant holds in every reachable state.                  *)
LEMMA Inductive == Spec => []IInv
BY InitIInv, NextIInv, PTL DEF Spec

-----------------------------------------------------------------------------
(* Every reachable state of ring_t has the types the declarations give it.  *)
THEOREM TypeCorrect == Spec => []TypeOK
<1>1. IInv => TypeOK BY DEF IInv
<1> QED BY <1>1, Inductive, PTL

(* While no exception escapes a handler, the handlers are called for every  *)
(* completion once and in the kernel's order.                               *)
THEOREM HandledInOrder == Spec => []InOrderOnce
<1>1. IInv => InOrderOnce BY DEF IInv
<1> QED BY <1>1, Inductive, PTL

(* The CQE a running handler reads is not overwritten under it.             *)
THEOREM CqeStable == Spec => []HandlerCqeIntact
<1>1. IInv => HandlerCqeIntact
  <2> SUFFICES ASSUME IInv, pc = "handler" PROVE slots[Slot(head)] = handled[Len(handled)]
    BY DEF HandlerCqeIntact
  <2>1. head + 1 <= ktail /\ head = khead + completions
    BY DEF IInv, PassInv, Visited
  <2>2. head \in Nat /\ khead \in Nat /\ completions \in Nat /\ ktail \in Nat
    BY DEF IInv, TypeOK
  <2>3. head \in khead .. ktail - 1
    BY <2>1, <2>2
  <2> QED BY <2>3 DEF IInv, WindowIntact, HandledInv
<1> QED BY <1>1, Inductive, PTL

(* A slot is given back only after its completion reached its handler, even *)
(* when handlers throw.                                                     *)
THEOREM NoCompletionLost == Spec => []NoneLost
<1>1. IInv => NoneLost
  <2>1. IInv => 1 .. khead \subseteq 1 .. Visited
    BY DEF IInv, TypeOK, PassInv, Visited
  <2> QED BY <2>1 DEF IInv, HandledInv, NoneLost
<1> QED BY <1>1, Inductive, PTL

(* One pass of the dispatch loop calls at most CqSize handlers.             *)
THEOREM PassIsBounded == Spec => []PassBounded
<1>1. IInv => PassBounded
  BY RingAssumption DEF IInv, TypeOK, PassInv, PassBounded, Visited
<1> QED BY <1>1, Inductive, PTL

-----------------------------------------------------------------------------
(* The refinement of CompletionLog.                                         *)

LogCurrent == IF pc = "handler" THEN slots[Slot(head)] ELSE 0

CurrentIsHead ==
  LogCurrent = IF pc = "handler" THEN head + 1 ELSE 0

(* The completion a handler has is the oldest one in the ring.              *)
LEMMA CurrentIs == IInv => CurrentIsHead
<1>1. IInv => (pc = "handler" => slots[Slot(head)] = head + 1)
  BY DEF IInv, TypeOK, PassInv, WindowIntact, Visited
<1> QED BY <1>1 DEF LogCurrent, CurrentIsHead

(* The same of the state after a step.                                      *)
LEMMA CurrentNext == IInv' => CurrentIsHead'
BY CurrentIs, PTL

(* Every step of the ring is a step of the log, or leaves it alone.         *)
LEMMA LogStep == IInv /\ IInv' /\ [Next]_vars => [Log!Next]_(Log!vars)
<1> SUFFICES ASSUME IInv, IInv', [Next]_vars
             PROVE  Log!Next \/ UNCHANGED Log!vars
  OBVIOUS
<1>1. /\ LogCurrent = IF pc = "handler" THEN head + 1 ELSE 0
      /\ LogCurrent' = IF pc' = "handler" THEN head' + 1 ELSE 0
  BY CurrentIs, CurrentNext DEF CurrentIsHead
<1>2. CASE CallHandler
  <2>1. Log!Deliver
    BY <1>1, <1>2 DEF Log!Deliver, CallHandler, LogCurrent, IInv, TypeOK,
       submission, kernel, ring
  <2> QED BY <2>1 DEF Log!Next
<1>3. CASE HandlerReturns
  <2>1. Log!Return
    BY <1>1, <1>3 DEF Log!Return, HandlerReturns, LogCurrent, IInv,
       TypeOK, submission, kernel, ring
  <2> QED BY <2>1 DEF Log!Next
<1>4. CASE HandlerThrows
  <2>1. Log!Abandon
    BY <1>1, <1>4 DEF Log!Abandon, HandlerThrows, LogCurrent, IInv,
       TypeOK, submission, kernel, ring
  <2> QED BY <2>1 DEF Log!Next
<1>5. CASE PassEnds
  <2>1. Log!Release
    BY <1>1, <1>5 DEF Log!Release, PassEnds, Advance, LogCurrent, IInv,
       TypeOK, PassInv, submission, kernel, ring
  <2> QED BY <2>1 DEF Log!Next
<1>6. ASSUME NEW r \in inflight, NEW more \in BOOLEAN, Complete(r, more)
      PROVE  Log!Next
  <2>1. /\ Len(posted') = Len(posted) + 1
        /\ UNCHANGED loop
    BY <1>6 DEF Complete, IInv, TypeOK
  <2>2. Log!Produce
    BY <1>1, <2>1 DEF Log!Produce, LogCurrent, loop
  <2> QED BY <2>2 DEF Log!Next
<1>7. CASE Flush
  BY <1>1, <1>7 DEF Flush, Log!vars, LogCurrent, kernel, loop
<1>8. CASE (\E shot \in Shots : Prepare(shot)) \/ Submit
  BY <1>8 DEF Prepare, Submit, Log!vars, Slot, kernel, ring, loop
<1>9. CASE WaitForEvents \/ WaitFails \/ WaitOver
  BY <1>9 DEF WaitForEvents, WaitFails, WaitOver, Log!vars, Slot,
     submission, kernel, ring, IInv, PassInv
<1>10. CASE UNCHANGED vars
  BY <1>10 DEF vars, Log!vars, Slot, submission, kernel, ring, loop
<1> QED BY <1>2, <1>3, <1>4, <1>5, <1>6, <1>7, <1>8, <1>9, <1>10
        DEF Next, User, Kernel

(* ring_t, with its slots, overflow and batched give-back, behaves as one   *)
(* log of completions handled one at a time and in order.                   *)
THEOREM RefinesLog == Spec => ImplementsLog
<1>1. Init => Log!Init
  BY DEF Init, Log!Init
<1> QED BY <1>1, LogStep, Inductive, PTL DEF ImplementsLog, Log!Spec, Spec
=============================================================================
