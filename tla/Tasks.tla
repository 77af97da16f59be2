------------------------------- MODULE Tasks -------------------------------
(***************************************************************************)
(* The coroutine protocol of iouring-cpp/include/iouring_coroutine.hpp.    *)
(* A task (awaitable_task_t) runs when it is called, as far as its first   *)
(* wait, on the stack of its caller; a wait on the ring (ring_awaitable_t) *)
(* suspends it until the dispatch loop resumes it; co_await on a task it   *)
(* called (awaitable_t) suspends it as well.  The frame of a task that     *)
(* ends, normally or by an exception, is destroyed at once.  A wait passes *)
(* through the submission ring, where the SQE of a submit() that throws    *)
(* stays; the build runs under the address sanitizer, which ends the       *)
(* program at a use of destroyed memory if it notices it.                  *)
(*                                                                         *)
(* accept is a multishot request: its event may stay with the kernel when  *)
(* its coroutine was resumed, and be completed again while that coroutine  *)
(* is elsewhere.  In this repository a coroutine that accepts waits on the *)
(* ring for nothing else (run_echo_server, run_server).                    *)
(*                                                                         *)
(* Tasks are numbered in the order in which they are called.               *)
(***************************************************************************)
EXTENDS Integers, Sequences, SequencesExt

CONSTANTS
  MaxTasks, \* bound: tasks called in a behaviour
  MaxWaits, \* bound: waits on the ring
  MaxFails, \* bound: calls of submit() that throw
  SqSize    \* slots of the submission ring, q_depth_

ASSUME TasksAssumption ==
  /\ MaxTasks \in Nat \ {0}
  /\ MaxWaits \in Nat
  /\ MaxFails \in Nat
  /\ SqSize \in Nat \ {0}

AllTasks == 1 .. MaxTasks
None == 0

VARIABLES
  frame,        \* per task: "absent", "running", "ring", "await" or "gone"
  caller,       \* who called it and holds its awaitable_t; None: main()
  awaits,       \* the task whose awaitable_t it is suspended at, or None
  continuation, \* continuation_ of its promise
  stack,        \* the coroutines running, the innermost last
  at,           \* the wait on the ring it is suspended at, or None
  sq,           \* waits whose event_t an SQE not handed over names, oldest first
  events,       \* waits whose event_t is with the kernel
  program,      \* "up" or "aborted"
  wait,         \* history: the waits on the ring, numbered as they began
  fails,        \* history: submits that threw
  threw,        \* history: waits whose submit() threw and ended the task
  passed,       \* history: waits that their task has left
  strayed,      \* history: tasks that left the wait for another one too early
  lost          \* history: tasks that awaited a destroyed frame

coroutines == <<frame, caller, awaits, continuation, stack, at>>
ring == <<sq, events>>
history == <<wait, fails, threw, passed, strayed, lost>>
vars == <<coroutines, ring, program, history>>

Init ==
  /\ frame = [t \in AllTasks |-> "absent"]
  /\ caller = [t \in AllTasks |-> None]
  /\ awaits = [t \in AllTasks |-> None]
  /\ continuation = [t \in AllTasks |-> None]
  /\ stack = <<>>
  /\ at = [t \in AllTasks |-> None]
  /\ sq = <<>>
  /\ events = {}
  /\ program = "up"
  /\ wait = <<>>
  /\ fails = 0
  /\ threw = {} /\ passed = {} /\ strayed = {} /\ lost = {}

Current == IF stack = <<>> THEN None ELSE Last(stack)
Running(t) == program = "up" /\ t # None /\ t = Current

-----------------------------------------------------------------------------
(* Calling a coroutine: the promise is made, initial_suspend does not       *)
(* suspend.  main() calls tasks too, before it runs the ring.               *)
Call(t) ==
  /\ program = "up"
  /\ frame[t] = "absent"
  /\ t > 1 => frame[t - 1] # "absent"
  /\ frame' = [frame EXCEPT ![t] = "running"]
  /\ caller' = [caller EXCEPT ![t] = Current]
  /\ stack' = Append(stack, t)
  /\ UNCHANGED <<awaits, continuation, at, ring, program, history>>

(* The next wait, multi if it is an accept.                                 *)
Begin(t, multi) ==
  /\ Running(t)
  /\ Len(wait) < MaxWaits
  /\ Len(sq) < SqSize
  /\ \A n \in DOMAIN wait : wait[n].task = t => wait[n].multi = multi
  /\ wait' = Append(wait, [task |-> t, multi |-> multi])

(* A submit() that returns: the kernel took that many SQEs, at least one    *)
(* and perhaps not all.  Variant: 0 is taken for success.                   *)
TakenOrNone == 0 .. Len(sq) + 1

Taken == 1 .. Len(sq) + 1

(* co_await of a ring_awaitable_t: the event gets the coroutine, prepare    *)
(* and submit hand it to the ring after the SQEs that wait there, and       *)
(* control returns to the resumer.                                          *)
WaitOnRing(t, multi) ==
  /\ Begin(t, multi)
  /\ frame' = [frame EXCEPT ![t] = "ring"]
  /\ at' = [at EXCEPT ![t] = Len(wait')]
  /\ stack' = Front(stack)
  /\ LET q == Append(sq, Len(wait'))
     IN \E k \in Taken :
          /\ events' = events \cup {q[i] : i \in 1 .. k}
          /\ sq' = SubSeq(q, k + 1, Len(q))
  /\ UNCHANGED <<caller, awaits, continuation, program, fails, threw, passed, strayed, lost>>

(* submit() throws after prepare(): the exception ends the task, and the    *)
(* SQE stays in the submission ring with the address of its event.          *)
SubmitThrows(t, multi) ==
  /\ Begin(t, multi)
  /\ fails < MaxFails
  /\ fails' = fails + 1
  /\ threw' = threw \cup {Len(wait')}
  /\ frame' = [frame EXCEPT ![t] = "gone"]
  /\ sq' = Append(sq, Len(wait'))
  /\ stack' = Front(stack)
  /\ UNCHANGED <<caller, awaits, continuation, at, events, program, passed, strayed, lost>>

(* The submission ring is full: io_uring_get_sqe gives no SQE, and prepare  *)
(* writes through the null pointer.                                         *)
NoSqe(t) ==
  /\ Running(t)
  /\ Len(sq) = SqSize
  /\ program' = "aborted"
  /\ UNCHANGED <<coroutines, ring, history>>

(* Variants: the promise of the awaiting task is written, not that of the   *)
(* awaited one; the wait is found ready although its task has not ended.    *)
AwaitSwapped(t, u) ==
  /\ Running(t)
  /\ caller[u] = t
  /\ frame' = [frame EXCEPT ![t] = "await"]
  /\ awaits' = [awaits EXCEPT ![t] = u]
  /\ stack' = Front(stack)
  /\ continuation' = [continuation EXCEPT ![t] = u]
  /\ UNCHANGED <<caller, at, ring, program, history>>

AwaitReady(t, u) ==
  /\ Running(t)
  /\ caller[u] = t
  /\ awaits' = [awaits EXCEPT ![t] = u]
  /\ UNCHANGED <<frame, caller, continuation, stack, at, ring, program, history>>

(* co_await of an awaitable_t: never ready, so always suspended; it writes  *)
(* the promise of the awaited task, which may be gone.                      *)
Await(t, u) ==
  /\ Running(t)
  /\ caller[u] = t
  /\ frame' = [frame EXCEPT ![t] = "await"]
  /\ awaits' = [awaits EXCEPT ![t] = u]
  /\ stack' = Front(stack)
  /\ \/ /\ frame[u] # "gone"
        /\ continuation' = [continuation EXCEPT ![u] = t]
        /\ UNCHANGED <<program, lost>>
     \/ /\ frame[u] = "gone"
        /\ program' \in {"up", "aborted"}
        /\ lost' = lost \cup {t}
        /\ UNCHANGED continuation
  /\ UNCHANGED <<caller, at, ring, wait, fails, threw, passed, strayed>>

(* Variant: final_suspend suspends, and the frame is kept.                  *)
FinishSuspended(t) ==
  /\ Running(t)
  /\ stack' = Front(stack)
  /\ UNCHANGED <<frame, caller, awaits, continuation, at, ring, program, history>>

(* The task returns, or an exception reaches its unhandled_exception, which *)
(* drops it; final_suspend does not suspend and nothing reads continuation_.*)
Finish(t) ==
  /\ Running(t)
  /\ frame' = [frame EXCEPT ![t] = "gone"]
  /\ stack' = Front(stack)
  /\ UNCHANGED <<caller, awaits, continuation, at, ring, program, history>>

(* Whether the event may stay with the kernel at a completion: that of a    *)
(* multishot request, with IORING_CQE_F_MORE.  Variant: so may any other.   *)
AnyMayStay(n) == TRUE

MayStay(n) == wait[n].multi

(* The dispatch loop calls the handler of a completion.  It resumes the     *)
(* coroutine wherever that is suspended: at this wait; at a later accept,   *)
(* whose event has the place of this one; or at the wait for another task,  *)
(* which then seems to be over.                                             *)
GoesOn(n, t) ==
  /\ frame[t] \in {"ring", "await"}
  /\ frame' = [frame EXCEPT ![t] = "running"]
  /\ at' = [at EXCEPT ![t] = None]
  /\ awaits' = [awaits EXCEPT ![t] = None]
  /\ stack' = <<t>>
  /\ passed' = passed \cup ({n, at[t]} \ {None})
  /\ strayed' = IF frame[t] = "await" THEN strayed \cup {t} ELSE strayed
  /\ events' \in {events \ {n}} \cup (IF MayStay(n) THEN {events} ELSE {})
  /\ UNCHANGED program

(* on_send and on_accept resume nobody after an error.                      *)
NotTold(n, t) ==
  /\ frame[t] \in {"ring", "await"}
  /\ events' = events \ {n}
  /\ UNCHANGED <<frame, awaits, stack, at, program, passed, strayed>>

(* The event is gone, with its frame or because the task left its wait:     *)
(* the sanitizer ends the program, or the handler does nothing.             *)
EventGone(n, t) ==
  /\ frame[t] \notin {"ring", "running"}
  /\ events' \in {events \ {n}} \cup (IF MayStay(n) THEN {events} ELSE {})
  /\ program' \in {"up", "aborted"}
  /\ UNCHANGED <<frame, awaits, stack, at, passed, strayed>>

Resume(n) ==
  /\ program = "up"
  /\ stack = <<>>
  /\ n \in events
  /\ LET t == wait[n].task IN GoesOn(n, t) \/ NotTold(n, t) \/ EventGone(n, t)
  /\ UNCHANGED <<caller, continuation, sq, wait, fails, threw, lost>>

-----------------------------------------------------------------------------
Step(t) ==
  \/ \E multi \in BOOLEAN : WaitOnRing(t, multi) \/ SubmitThrows(t, multi)
  \/ NoSqe(t)
  \/ \E u \in AllTasks : Await(t, u)
  \/ Finish(t)

Next == (\E t \in AllTasks : Call(t) \/ Step(t)) \/ (\E n \in events : Resume(n))

Spec == Init /\ [][Next]_vars

(* A task does not run for ever without a wait; every request but an accept *)
(* is completed and the loop dispatches it.                                 *)
FairSpec ==
  /\ Spec
  /\ \A t \in AllTasks : WF_vars(Step(t))
  /\ \A n \in 1 .. MaxWaits : WF_vars(Resume(n) /\ ~wait[n].multi)

-----------------------------------------------------------------------------
Waits == 1 .. Len(wait)

TypeOK ==
  /\ frame \in [AllTasks -> {"absent", "running", "ring", "await", "gone"}]
  /\ caller \in [AllTasks -> AllTasks \cup {None}]
  /\ awaits \in [AllTasks -> AllTasks \cup {None}]
  /\ continuation \in [AllTasks -> AllTasks \cup {None}]
  /\ stack \in Seq(AllTasks)
  /\ wait \in Seq([task : AllTasks, multi : BOOLEAN]) /\ Len(wait) <= MaxWaits
  /\ at \in [AllTasks -> Waits \cup {None}]
  /\ sq \in Seq(Waits)
  /\ events \subseteq Waits
  /\ program \in {"up", "aborted"}
  /\ fails \in 0 .. MaxFails
  /\ threw \subseteq Waits /\ passed \subseteq Waits
  /\ strayed \subseteq AllTasks /\ lost \subseteq AllTasks
  /\ \A t \in AllTasks : /\ frame[t] = "await" <=> awaits[t] # None
                         /\ frame[t] = "ring" <=> at[t] # None

(* Every event the ring knows, handed over or not, is that of the wait its  *)
(* coroutine is suspended at, so that its handler may write the event and   *)
(* resume the coroutine.  The two exceptions are the code's: the event of a *)
(* task that a throwing submit() ended, and the event of an accept whose    *)
(* task was resumed.  So no coroutine has two events of other requests.     *)
EventsInLiveFrames ==
  \A n \in events \cup Range(sq) :
    \/ at[wait[n].task] = n
    \/ n \in threw
    \/ n \in passed /\ wait[n].multi

(* Each SQE that waits has cost a submit() that threw, whatever later ones  *)
(* left behind: prepare() finds room until as many as the ring has slots    *)
(* have thrown.                                                             *)
RoomForSqe == Len(sq) <= fails

(* A coroutine is on the stack exactly when it runs, and only once: no      *)
(* handler resumes one that is already running further out.                 *)
StackIsRunning ==
  /\ \A t \in AllTasks : frame[t] = "running" <=> t \in Range(stack)
  /\ IsInjective(stack)

(* If a promise has a continuation, that coroutine is suspended at the wait *)
(* for this very task: resuming it would be right.  Only for a coroutine    *)
(* that accepts it may be wrong, once a later connection has resumed it at  *)
(* that wait, as in run_server: then its frame may even be gone.            *)
Accepts(t) == \E n \in Waits : wait[n] = [task |-> t, multi |-> TRUE]

ContinuationWaits ==
  \A t, u \in AllTasks :
    continuation[u] = t =>
      (frame[t] = "await" /\ awaits[t] = u) \/ (t \in strayed /\ Accepts(t))

(* co_await of a task that still runs continues when the task has ended,    *)
(* unless the program ends first.                                           *)
AwaitReturns ==
  \A t \in AllTasks :
    (t \notin lost /\ awaits[t] # None /\ frame[awaits[t]] = "gone")
      ~> (frame[t] # "await" \/ program = "aborted")
=============================================================================
