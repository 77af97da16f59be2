---------------------------- MODULE EchoService ----------------------------
(***************************************************************************)
(* What the clients of the echo server may rely on: whatever reaches a     *)
(* client are bytes it sent itself, in the order it sent them and none of  *)
(* them twice.  Nothing in between is missing either, until the kernel     *)
(* takes only a part of a send for that client; the service may stop at    *)
(* any time.                                                               *)
(***************************************************************************)
EXTENDS Integers, Sequences, SequencesExt

CONSTANT Clients

VARIABLES
  sent,   \* per client, how many bytes it sent; they are 1..sent[c]
  echoed, \* the bytes it got back
  cut     \* the clients for which a send was cut short

vars == <<sent, echoed, cut>>

Increasing(s) == \A i, j \in DOMAIN s : i < j => s[i] < s[j]
Complete(s) == \A i \in DOMAIN s : s[i] = i

Init ==
  /\ sent = [c \in Clients |-> 0]
  /\ echoed = [c \in Clients |-> <<>>]
  /\ cut = {}

Send(c) ==
  /\ sent'[c] \in Nat /\ sent'[c] > sent[c]
  /\ sent' = [sent EXCEPT ![c] = sent'[c]]
  /\ UNCHANGED <<echoed, cut>>

Echo(c) ==
  /\ IsStrictPrefix(echoed[c], echoed'[c])
  /\ Range(echoed'[c]) \subseteq 1 .. sent[c]
  /\ Increasing(echoed'[c])
  /\ c \notin cut => Complete(echoed'[c])
  /\ echoed' = [echoed EXCEPT ![c] = echoed'[c]]
  /\ cut' \in {cut, cut \cup {c}}
  /\ UNCHANGED sent

Cut(c) ==
  /\ cut' = cut \cup {c}
  /\ UNCHANGED <<sent, echoed>>

Next == \E c \in Clients : Send(c) \/ Echo(c) \/ Cut(c)

Spec == Init /\ [][Next]_vars
=============================================================================
