-------------------------------- MODULE Ring --------------------------------
(***************************************************************************)
(* ring_t over liburing (iouring-cpp/src/iouring_impl_liburing.hpp): the   *)
(* submission ring filled by prepare() and drained by submit(), the kernel *)
(* working on what it was given, and the completion ring read by           *)
(* wait_for_events(), which calls the handler of each completion and frees *)
(* the slots of a whole pass with one io_uring_cq_advance at the end.      *)
(*                                                                         *)
(* A request is the number of its SQE, a completion the number of its CQE, *)
(* both counted from 1; the event_t a CQE leads to is that of its request. *)
(* One thread uses the ring; the kernel runs beside it.                    *)
(***************************************************************************)
EXTENDS Integers, Sequences

CONSTANTS
  SqSize,    \* entries of the submission ring (q_depth_ = 1024)
  CqSize,    \* slots of the completion ring (the kernel makes it 2 * SqSize)
  MaxSqe,    \* bound: SQEs prepared in a behaviour
  MaxCqe,    \* bound: CQEs produced in a behaviour
  MaxThrows  \* bound: handlers that let an exception escape

ASSUME RingAssumption ==
  /\ SqSize \in Nat \ {0}
  /\ CqSize \in Nat \ {0}
  /\ MaxSqe \in Nat
  /\ MaxCqe \in Nat
  /\ MaxThrows \in Nat

VARIABLES
  sqes,        \* the SQEs prepared so far: "single" or "multi" shot
  sqHead,      \* how many of them io_uring_submit handed to the kernel
  inflight,    \* requests the kernel is working on
  posted,      \* the request of each completion, in the order produced
  ktail,       \* completions placed in the ring; the rest overflowed
  khead,       \* completions whose slot was given back (cq.khead)
  slots,       \* the ring: the completion each slot holds, 0 if none yet
  pc,          \* where the thread is in wait_for_events
  head,        \* its local variable: the CQE io_uring_for_each_cqe is at
  completions, \* its local variable: CQEs visited in this pass
  handled,     \* history: the completions handlers were called with
  throws       \* history: exceptions that escaped a handler

submission == <<sqes, sqHead>>
kernel == <<inflight, posted>>
ring == <<ktail, slots>>
loop == <<khead, pc, head, completions, handled, throws>>
vars == <<submission, kernel, ring, loop>>

Shots == {"single", "multi"}

Slot(n) == n % CqSize

Init ==
  /\ sqes = <<>>
  /\ sqHead = 0
  /\ inflight = {}
  /\ posted = <<>>
  /\ ktail = 0
  /\ khead = 0
  /\ head = 0
  /\ slots = [s \in 0 .. CqSize - 1 |-> 0]
  /\ pc = "user"
  /\ completions = 0
  /\ handled = <<>>
  /\ throws = 0

-----------------------------------------------------------------------------
(* The user thread.  It calls prepare and submit from ordinary code (pc is  *)
(* "user") or from a handler, where resumed coroutines arm their next wait. *)

CanCall == pc \in {"user", "handler"}

(* impl_t::prepare.  io_uring_get_sqe returns null when the submission ring *)
(* is full and prepare writes through it: callers must leave room.          *)
Prepare(shot) ==
  /\ CanCall
  /\ Len(sqes) < MaxSqe
  /\ Len(sqes) - sqHead < SqSize
  /\ sqes' = Append(sqes, shot)
  /\ UNCHANGED <<sqHead, kernel, ring, loop>>

(* impl_t::submit.  The kernel takes SQEs in order; it may take fewer than  *)
(* there are, and submit() is content with any r > 0.  With r <= 0 nothing  *)
(* was taken and submit() throws: to ordinary code, or inside a coroutine,  *)
(* whose promise swallows it, without a change of state here.               *)
Submit ==
  /\ CanCall
  /\ \E r \in 1 .. Len(sqes) - sqHead :
       /\ sqHead' = sqHead + r
       /\ inflight' = inflight \cup (sqHead + 1 .. sqHead + r)
  /\ UNCHANGED <<sqes, posted, ring, loop>>

WaitForEvents ==
  /\ pc = "user"
  /\ pc' = "wait"
  /\ UNCHANGED <<submission, kernel, ring, khead, head, completions, handled, throws>>

(* io_uring_wait_cqes gave an error: -ETIME returns, any other is thrown.   *)
(* Either way no completion is looked at, even when some arrived meanwhile. *)
WaitFails ==
  /\ pc = "wait"
  /\ pc' = "user"
  /\ UNCHANGED <<submission, kernel, ring, khead, head, completions, handled, throws>>

(* Variant: it asks for one completion too many.                            *)
WaitOverLate ==
  /\ pc = "wait"
  /\ khead + 1 < ktail
  /\ pc' = "loop"
  /\ head' = khead
  /\ completions' = 0
  /\ UNCHANGED <<submission, kernel, ring, khead, handled, throws>>

(* It gave 0: there is at least one completion, as many as were asked for   *)
(* or fewer if the wait timed out.  The argument count decides nothing else.*)
WaitOver ==
  /\ pc = "wait"
  /\ khead < ktail
  /\ pc' = "loop"
  /\ head' = khead
  /\ completions' = 0
  /\ UNCHANGED <<submission, kernel, ring, khead, handled, throws>>

(* Variant: the slot is given back before the handler is called.            *)
CallHandlerReleased ==
  /\ pc = "loop"
  /\ head < ktail
  /\ pc' = "handler"
  /\ handled' = Append(handled, slots[Slot(head)])
  /\ khead' = khead + 1
  /\ UNCHANGED <<submission, kernel, ring, head, completions, throws>>

(* One turn of io_uring_for_each_cqe: the tail is read anew each time, so a *)
(* completion placed while handlers ran belongs to the same pass.           *)
CallHandler ==
  /\ pc = "loop"
  /\ head < ktail
  /\ pc' = "handler"
  /\ handled' = Append(handled, slots[Slot(head)])
  /\ UNCHANGED <<submission, kernel, ring, khead, head, completions, throws>>

(* Variant: each slot is given back when its handler has returned.          *)
HandlerReturnsSeen ==
  /\ pc = "handler"
  /\ pc' = "loop"
  /\ head' = head + 1
  /\ khead' = khead + 1
  /\ completions' = completions + 1
  /\ UNCHANGED <<submission, kernel, ring, handled, throws>>

HandlerReturns ==
  /\ pc = "handler"
  /\ pc' = "loop"
  /\ head' = head + 1
  /\ completions' = completions + 1
  /\ UNCHANGED <<submission, kernel, ring, khead, handled, throws>>

(* Variant: the slots of the handlers that returned are given back.         *)
HandlerThrowsReleasing ==
  /\ pc = "handler"
  /\ throws < MaxThrows
  /\ throws' = throws + 1
  /\ pc' = "user"
  /\ khead' = khead + completions
  /\ head' = khead'
  /\ completions' = 0
  /\ UNCHANGED <<submission, kernel, ring, handled>>

(* An exception leaves the loop and wait_for_events before cq_advance.  The *)
(* locals are gone; here they are as at the start of the next pass.         *)
HandlerThrows ==
  /\ pc = "handler"
  /\ throws < MaxThrows
  /\ throws' = throws + 1
  /\ pc' = "user"
  /\ head' = khead
  /\ completions' = 0
  /\ UNCHANGED <<submission, kernel, ring, khead, handled>>

(* io_uring_cq_advance.  Variants: one slot too many, or none.              *)
AdvanceOneMore == khead' = khead + completions + 1
AdvanceNone == khead' = khead

Advance == khead' = khead + completions

PassEnds ==
  /\ pc = "loop"
  /\ head = ktail
  /\ Advance
  /\ head' = khead'
  /\ completions' = 0
  /\ pc' = "user"
  /\ UNCHANGED <<submission, kernel, ring, handled, throws>>

-----------------------------------------------------------------------------
(* The kernel.                                                              *)

HasRoom == ktail - khead < CqSize

Place ==
  /\ slots' = [slots EXCEPT ![Slot(ktail)] = ktail + 1]
  /\ ktail' = ktail + 1

(* A request completes, for good or, when multi-shot, with more to come.  A *)
(* completion that finds no free slot, or others waiting for one, overflows.*)
Complete(r, more) ==
  /\ r \in inflight
  /\ more => sqes[r] = "multi"
  /\ Len(posted) < MaxCqe
  /\ posted' = Append(posted, r)
  /\ inflight' = IF more THEN inflight ELSE inflight \ {r}
  /\ IF ktail = Len(posted) /\ HasRoom THEN Place ELSE UNCHANGED ring
  /\ UNCHANGED <<submission, loop>>

(* io_uring_enter, called by submit and by the wait, moves overflowed       *)
(* completions into the ring, oldest first.                                 *)
Flush ==
  /\ pc # "loop"
  /\ ktail < Len(posted)
  /\ HasRoom
  /\ Place
  /\ UNCHANGED <<submission, kernel, loop>>

-----------------------------------------------------------------------------
User ==
  \/ \E shot \in Shots : Prepare(shot)
  \/ Submit
  \/ WaitForEvents
  \/ WaitFails
  \/ WaitOver
  \/ CallHandler
  \/ HandlerReturns
  \/ HandlerThrows
  \/ PassEnds

Kernel ==
  \/ \E r \in inflight, more \in BOOLEAN : Complete(r, more)
  \/ Flush

Next == User \/ Kernel

Spec == Init /\ [][Next]_vars

(* ring_t::run calls wait_for_events for ever, handlers return, and a wait  *)
(* that finds completions time and again does not fail every time.  The     *)
(* kernel flushes on every wait.  Requests need never complete.             *)
Fairness ==
  /\ WF_vars(WaitForEvents)
  /\ SF_vars(WaitOver)
  /\ WF_vars(CallHandler)
  /\ WF_vars(HandlerReturns)
  /\ WF_vars(PassEnds)
  /\ SF_vars(Flush)

FairSpec == Spec /\ Fairness

-----------------------------------------------------------------------------
TypeOK ==
  /\ sqes \in Seq(Shots)
  /\ sqHead \in 0 .. Len(sqes)
  /\ inflight \subseteq 1 .. sqHead
  /\ posted \in Seq(1 .. sqHead)
  /\ ktail \in 0 .. Len(posted)
  /\ khead \in 0 .. ktail
  /\ slots \in [0 .. CqSize - 1 -> 0 .. ktail]
  /\ pc \in {"user", "wait", "loop", "handler"}
  /\ head \in Nat
  /\ completions \in Nat
  /\ handled \in Seq(1 .. ktail)
  /\ throws \in Nat

(* As long as no exception escapes a handler, the handlers are called with  *)
(* every completion exactly once, in the order the kernel produced them.    *)
InOrderOnce ==
  throws = 0 => /\ \A i \in 1 .. Len(handled) : handled[i] = i
                /\ Len(handled) = head + (IF pc = "handler" THEN 1 ELSE 0)

(* The cqe that a running handler was called with is still the one in its   *)
(* slot, whatever the kernel produces while the coroutine that the handler  *)
(* resumes submits: a slot is not reused before the pass ends.              *)
HandlerCqeIntact ==
  pc = "handler" => slots[Slot(head)] = handled[Len(handled)]

(* A slot is given back only after the handler of its completion was        *)
(* called: even if handlers throw, no completion is lost.                   *)
NoneLost ==
  \A n \in 1 .. khead : \E i \in 1 .. Len(handled) : handled[i] = n

(* A pass visits at most CqSize completions, even if every handler makes    *)
(* new ones at once: run(stopped) gets back to reading its flag.            *)
PassBounded == completions + (IF pc = "handler" THEN 1 ELSE 0) <= CqSize

(* Every completion the kernel produces reaches a handler, overflow or not, *)
(* for a thread that keeps waiting as run() does.                           *)
EveryCompletionHandled ==
  \A n \in 1 .. MaxCqe :
    (Len(posted) >= n) ~> (\E i \in 1 .. Len(handled) : handled[i] = n)

(* The ring implements the completion log.                                  *)
Log == INSTANCE CompletionLog WITH
  length   <- Len(posted),
  passed   <- head + (IF pc = "handler" THEN 1 ELSE 0),
  released <- khead,
  current  <- IF pc = "handler" THEN slots[Slot(head)] ELSE 0

ImplementsLog == Log!Spec
=============================================================================
