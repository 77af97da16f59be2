--------------------------- MODULE CompletionLog ---------------------------
(***************************************************************************)
(* What ring_t promises to the coroutines that use it, with the rings, the *)
(* slots and the overflow list left out: the completions form one log, and *)
(* the handlers are called for them one at a time and in log order.  The   *)
(* completions handled in a pass of the dispatch loop are given back       *)
(* together at its end; when a handler lets an exception escape, the pass  *)
(* is abandoned and the log is read again from the last one given back.    *)
(***************************************************************************)
EXTENDS Integers

VARIABLES
  length,   \* number of completions produced so far; they are 1..length
  passed,   \* last completion whose handler was called in this reading
  released, \* last completion given back to the kernel
  current   \* the completion a running handler was given, 0 if none runs

vars == <<length, passed, released, current>>

Init == length = 0 /\ passed = 0 /\ released = 0 /\ current = 0

Produce ==
  /\ length' = length + 1
  /\ UNCHANGED <<passed, released, current>>

Deliver ==
  /\ current = 0
  /\ passed < length
  /\ passed' = passed + 1
  /\ current' = passed + 1
  /\ UNCHANGED <<length, released>>

Return ==
  /\ current # 0
  /\ current' = 0
  /\ UNCHANGED <<length, passed, released>>

Release ==
  /\ current = 0
  /\ released' = passed
  /\ UNCHANGED <<length, passed, current>>

Abandon ==
  /\ current # 0
  /\ current' = 0
  /\ passed' = released
  /\ UNCHANGED <<length, released>>

Next == Produce \/ Deliver \/ Return \/ Release \/ Abandon

Spec == Init /\ [][Next]_vars
=============================================================================
