------------------------------ MODULE Sockets ------------------------------
(***************************************************************************)
(* The ownership of descriptors by socket_t objects (iouring_net.hpp and   *)
(* iouring_net.cpp): construction, moves, close and destruction, and       *)
(* descriptors that accept completions bring.  An object keeps the ring it *)
(* was made with; operations in flight hold the open file, not the object. *)
(* A submit() that throws leaves its SQE in the submission ring, where the *)
(* next submit() of that ring hands it over.                               *)
(***************************************************************************)
EXTENDS Integers, Sequences

CONSTANTS
  Objects,  \* the socket_t objects that exist at some time
  Rings,    \* the ring_t objects of the program
  Fds,      \* the descriptors the kernel may hand out
  NoFd,     \* invalid_socket_fd
  MaxFails  \* bound: submits that throw or leave SQEs behind

ASSUME SocketsAssumption ==
  /\ Fds \subseteq Nat
  /\ NoFd \notin Fds
  /\ MaxFails \in Nat

Sqes == {"op", "cancel"} \X Fds

VARIABLES
  live,    \* the objects constructed and not destroyed
  ring,    \* ring_ of each object
  fd,      \* fd_ of each object
  open,    \* the descriptors open in the kernel
  carried, \* accepted descriptors whose completion was not handled yet
  sq,      \* per ring, the SQEs prepared and not handed over
  ops,     \* operations in flight, as pairs of ring and descriptor
  orphans, \* operations in flight whose descriptor was closed under them
  past,    \* history: "crossed", a move assignment between objects of two
           \* rings; "partial", a submit() that returned with SQEs left
  fails    \* history: submits that threw or left SQEs

objects == <<live, ring, fd>>
rings == <<sq, ops, orphans>>
history == <<past, fails>>
vars == <<objects, open, carried, rings, history>>

Init ==
  /\ live = {}
  /\ ring \in [Objects -> Rings]
  /\ fd = [o \in Objects |-> NoFd]
  /\ open = {}
  /\ carried = {}
  /\ sq = [r \in Rings |-> <<>>]
  /\ ops = {}
  /\ orphans = {}
  /\ past = {}
  /\ fails = 0

Make(o, r, f) ==
  /\ o \notin live
  /\ live' = live \cup {o}
  /\ ring' = [ring EXCEPT ![o] = r]
  /\ fd' = [fd EXCEPT ![o] = f]

(* The public constructor: socket() gives a new descriptor, or fails and    *)
(* its -1 makes an object that is invalid from the start.                   *)
Construct(o, r) ==
  /\ \/ \E f \in Fds \ open : Make(o, r, f) /\ open' = open \cup {f}
     \/ Make(o, r, NoFd) /\ UNCHANGED open
  /\ UNCHANGED <<carried, rings, history>>

(* A multishot accept completes: the descriptor is open before any object   *)
(* holds it.                                                                *)
KernelAccepts(f) ==
  /\ f \in Fds \ open
  /\ open' = open \cup {f}
  /\ carried' = carried \cup {f}
  /\ UNCHANGED <<objects, rings, history>>

(* Variant: the completion is not given back, and will be handled again.    *)
OnAcceptRepeated(o, r, f) ==
  /\ f \in carried
  /\ carried' = carried
  /\ IF f > 0 THEN Make(o, r, f) ELSE UNCHANGED objects
  /\ UNCHANGED <<open, rings, history>>

(* on_accept: a socket is made for a descriptor above 0; 0 is dropped.      *)
OnAccept(o, r, f) ==
  /\ f \in carried
  /\ carried' = carried \ {f}
  /\ IF f > 0 THEN Make(o, r, f) ELSE UNCHANGED objects
  /\ UNCHANGED <<open, rings, history>>

(* Variant: a defaulted move, which copies the descriptor.                  *)
MoveConstructCopying(o, rhs) ==
  /\ rhs \in live
  /\ o \notin live
  /\ live' = live \cup {o}
  /\ ring' = [ring EXCEPT ![o] = ring[rhs]]
  /\ fd' = [fd EXCEPT ![o] = fd[rhs]]
  /\ UNCHANGED <<open, carried, rings, history>>

(* socket_t(socket_t &&)                                                    *)
MoveConstruct(o, rhs) ==
  /\ rhs \in live
  /\ o \notin live
  /\ live' = live \cup {o}
  /\ ring' = [ring EXCEPT ![o] = ring[rhs]]
  /\ fd' = [fd EXCEPT ![o] = fd[rhs], ![rhs] = NoFd]
  /\ UNCHANGED <<open, carried, rings, history>>

(* operator = (socket_t &&) swaps the descriptors and leaves the rings: the *)
(* exchange of ring_ is commented out.                                      *)
MoveAssign(o, rhs) ==
  /\ {o, rhs} \subseteq live
  /\ o # rhs
  /\ fd' = [fd EXCEPT ![o] = fd[rhs], ![rhs] = fd[o]]
  /\ past' = IF ring[o] = ring[rhs] THEN past ELSE past \cup {"crossed"}
  /\ UNCHANGED <<live, ring, open, carried, rings, fails>>

-----------------------------------------------------------------------------
(* What ring r has in flight once the SQEs of q are handed over in order:   *)
(* a cancellation ends what the ring has on that descriptor's file, and an  *)
(* operation on a descriptor that is not open fails at once.                *)
Started(r, q) ==
  {op \in ops : op[1] = r => \A i \in DOMAIN q : q[i] # <<"cancel", op[2]>>}
    \cup {op \in {r} \X open :
            \E i \in DOMAIN q :
              /\ q[i] = <<"op", op[2]>>
              /\ \A j \in DOMAIN q : j > i => q[j] # <<"cancel", op[2]>>}

(* prepare() and a submit() that returns: the kernel takes the first k of   *)
(* the SQEs waiting and the new one, at least one, and may stop early.      *)
Taken(r) == 1 .. Len(sq[r]) + 1

Submits(r, sqe, k) ==
  LET q == Append(sq[r], sqe)
  IN /\ sq' = [sq EXCEPT ![r] = SubSeq(q, k + 1, Len(q))]
     /\ \/ k = Len(q) /\ UNCHANGED history
        \/ k < Len(q) /\ fails < MaxFails /\ past' = past \cup {"partial"} /\ fails' = fails + 1

InFlight(r, sqe, k) == Started(r, SubSeq(Append(sq[r], sqe), 1, k))

(* prepare() and a submit() that throws: the SQE stays.                     *)
SubmitThrows(r, sqe) ==
  /\ fails < MaxFails
  /\ fails' = fails + 1
  /\ sq' = [sq EXCEPT ![r] = Append(@, sqe)]
  /\ UNCHANGED <<ops, orphans, past>>

(* What close() prepares for a valid object, io_uring_prep_cancel_fd.       *)
(* Variant: with the descriptor already exchanged.                          *)
CancelInvalid(o) == <<"cancel", NoFd>>

Cancel(o) == <<"cancel", fd[o]>>

(* ::close(std::exchange(fd_, invalid_socket_fd)).  Variants: without the   *)
(* exchange; with the exchange before, so that -1 is closed.                *)
CloseFdKept(o) ==
  /\ open' = open \ {fd[o]}
  /\ fd' = fd

CloseFdInvalid(o) ==
  /\ open' = open
  /\ fd' = [fd EXCEPT ![o] = NoFd]

CloseFd(o) ==
  /\ open' = open \ {fd[o]}
  /\ fd' = [fd EXCEPT ![o] = NoFd]

(* What close() does for a valid object: what is in flight on the file and  *)
(* was not cancelled goes on without a descriptor.                          *)
Release(o) ==
  /\ fd[o] # NoFd
  /\ \E k \in Taken(ring[o]) :
       LET inFlight == InFlight(ring[o], Cancel(o), k)
       IN /\ Submits(ring[o], Cancel(o), k)
          /\ ops' = {op \in inFlight : op[2] # fd[o]}
          /\ orphans' = orphans \cup {op \in inFlight : op[2] = fd[o]}
  /\ CloseFd(o)

Close(o) ==
  /\ o \in live
  /\ Release(o)
  /\ UNCHANGED <<live, ring, carried>>

(* close() whose submit() throws: the descriptor is neither closed nor      *)
(* given up.                                                                *)
CloseThrows(o) ==
  /\ o \in live
  /\ fd[o] # NoFd
  /\ SubmitThrows(ring[o], Cancel(o))
  /\ UNCHANGED <<objects, open, carried>>

(* ~socket_t calls close(), which does nothing for an invalid object.  If   *)
(* submit() throws the program ends, as the destructor is noexcept.         *)
Destroy(o) ==
  /\ o \in live
  /\ live' = live \ {o}
  /\ \/ Release(o)
     \/ fd[o] = NoFd /\ UNCHANGED <<fd, open, rings, history>>
  /\ UNCHANGED <<ring, carried>>

(* connect, send, recv, accept: the operation goes to the object's ring.    *)
StartOp(o) ==
  /\ o \in live
  /\ fd[o] # NoFd
  /\ \E k \in Taken(ring[o]) :
       /\ Submits(ring[o], <<"op", fd[o]>>, k)
       /\ ops' = InFlight(ring[o], <<"op", fd[o]>>, k)
  /\ UNCHANGED <<objects, open, carried, orphans>>

StartOpThrows(o) ==
  /\ o \in live
  /\ fd[o] # NoFd
  /\ SubmitThrows(ring[o], <<"op", fd[o]>>)
  /\ UNCHANGED <<objects, open, carried>>

OpCompletes(op) ==
  /\ op \in ops
  /\ ops' = ops \ {op}
  /\ UNCHANGED <<objects, open, carried, sq, orphans, history>>

OrphanCompletes(op) ==
  /\ op \in orphans
  /\ orphans' = orphans \ {op}
  /\ UNCHANGED <<objects, open, carried, sq, ops, history>>

Next ==
  \/ \E o \in Objects, r \in Rings : Construct(o, r)
  \/ \E f \in Fds : KernelAccepts(f)
  \/ \E o \in Objects, r \in Rings, f \in carried : OnAccept(o, r, f)
  \/ \E o, rhs \in Objects : MoveConstruct(o, rhs) \/ MoveAssign(o, rhs)
  \/ \E o \in Objects : Close(o) \/ CloseThrows(o) \/ Destroy(o)
  \/ \E o \in Objects : StartOp(o) \/ StartOpThrows(o)
  \/ \E op \in ops : OpCompletes(op)
  \/ \E op \in orphans : OrphanCompletes(op)

Spec == Init /\ [][Next]_vars

-----------------------------------------------------------------------------
TypeOK ==
  /\ live \subseteq Objects
  /\ ring \in [Objects -> Rings]
  /\ fd \in [Objects -> Fds \cup {NoFd}]
  /\ open \subseteq Fds
  /\ carried \subseteq open
  /\ sq \in [Rings -> Seq(Sqes)]
  /\ ops \subseteq Rings \X open
  /\ orphans \subseteq Rings \X Fds
  /\ past \subseteq {"crossed", "partial"}
  /\ fails \in 0 .. MaxFails

(* However objects are moved, two of them never hold the same descriptor,   *)
(* nor does one hold a descriptor that is still to be delivered: none is    *)
(* closed twice, and none is closed while another object uses it.           *)
OneOwner ==
  /\ \A o, p \in Objects : o # p /\ fd[o] = fd[p] => fd[o] = NoFd
  /\ \A o \in Objects : fd[o] \notin carried

(* The descriptor of an object is open, and only live objects have one: no  *)
(* operation is started on a descriptor that may belong to someone else.    *)
HeldIsOpen ==
  \A o \in Objects : fd[o] # NoFd => fd[o] \in open /\ o \in live

(* Every open descriptor is held or on its way, so that it will be closed;  *)
(* only descriptor 0, which on_accept drops, can leak.                      *)
NoLeak ==
  \A f \in open \ {0} : f \in carried \/ \E o \in live : fd[o] = f

(* An object's operations are on its own ring.                              *)
OpsOnOwnRing ==
  \A o \in Objects, op \in ops : op[2] = fd[o] => op[1] = ring[o]

(* Every SQE that waits in a ring names a descriptor that an object of that *)
(* ring holds.                                                              *)
LateSqesHeld ==
  \A r \in Rings : \A i \in DOMAIN sq[r] :
    \E o \in live : ring[o] = r /\ fd[o] = sq[r][i][2]

(* As long as sockets are assigned within one ring and submit() leaves no   *)
(* SQE behind when it returns, closing a socket leaves nothing in flight on *)
(* its file, and every SQE a failed submit() left names a descriptor that   *)
(* an object of that ring still holds: handed over late, it never reaches   *)
(* the descriptor of another socket.                                        *)
CloseCancelsAll ==
  past = {} =>
    /\ orphans = {}
    /\ OpsOnOwnRing
    /\ LateSqesHeld
=============================================================================
