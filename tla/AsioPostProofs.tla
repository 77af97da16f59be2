--------------------------- MODULE AsioPostProofs ---------------------------
(***************************************************************************)
(* Proofs about AsioPost, for any number of waits and of bytes.            *)
(***************************************************************************)
EXTENDS AsioPost, SequenceTheorems, TLAPS

Uses == io \in {"call", "read", "resume"}
Runs == io \in {"call", "read", "resume", "finish"}

(* The context counts what is queued, what runs, and what main() is about   *)
(* to queue.                                                                *)
WorkCounted ==
  work = Len(queue) + (IF Runs THEN 1 ELSE 0) + (IF main = "push" THEN 1 ELSE 0)

(* Where the one handler is, for each place of main() and of the coroutine. *)
HandlerPlaced ==
  /\ main \in {"post", "push"} => coroutine = 0
  /\ main = "over" => io = "returned"
  /\ coroutine = 0 =>
       /\ main \in {"post", "push"} => queue = <<>> /\ ~Runs
       /\ main \in {"join", "over"} =>
            \/ queue = <<0>> /\ ~Runs
            \/ queue = <<>> /\ io = "call" /\ handler = 0
  /\ coroutine \in 1 .. Waits =>
       \/ queue = <<coroutine>> /\ io \in {"loop", "finish"}
       \/ queue = <<>> /\ Uses /\ handler = coroutine
  /\ coroutine = Ended => queue = <<>> /\ io \in {"finish", "stop", "returned"}
  /\ io = "read" => coroutine = Waits
  /\ io = "resume" => coroutine \in 1 .. Waits
  /\ stopped => io = "returned"

(* The values given so far, and the one about to be given.                  *)
ValuesGiven ==
  /\ \A k \in 1 .. Len(results) : results[k] = k
  /\ Len(results) = IF coroutine = 0 THEN 0
                    ELSE IF coroutine - 1 <= Valued THEN coroutine - 1 ELSE Valued
  /\ io = "resume" /\ handler <= Valued => value = handler

(* What is on the wire and what was read are the first bytes of the number. *)
FirstBytes(s) == Len(s) <= Bytes /\ \A i \in 1 .. Len(s) : s[i] = i

AnswerGiven ==
  /\ FirstBytes(wire)
  /\ FirstBytes(buf)
  /\ answers = <<>> => Len(buf) < Bytes
  /\ \A i \in 1 .. Len(answers) : answers[i] \in {Nullopt, Number}
  /\ Len(answers) = IF coroutine = Ended \/ (io = "resume" /\ handler = Waits) THEN 1 ELSE 0

IInv == TypeOK /\ WorkCounted /\ HandlerPlaced /\ ValuesGiven /\ AnswerGiven

(* Where the handler that is about to run comes from, and what stays queued. *)
LEMMA NextHandler ==
  ASSUME IInv, CallHandler
  PROVE  /\ queue = <<coroutine>> /\ coroutine \in 0 .. Waits
         /\ handler' = coroutine /\ queue' = <<>>
         /\ main # "post" /\ main # "push" /\ main # "over"
<1>1. queue = <<coroutine>> /\ coroutine \in 0 .. Waits
  BY AsioAssumption DEF IInv, CallHandler, TypeOK, HandlerPlaced, Ended, Runs
<1>2. Head(queue) = coroutine /\ Tail(queue) = <<>>
  BY <1>1
<1> QED BY <1>1, <1>2 DEF IInv, CallHandler, TypeOK, HandlerPlaced, Runs

(* What the coroutine does when it goes on from its wait.                   *)
LEMMA GoesOn ==
  ASSUME IInv, CallCoroutines \/ Resume
  PROVE  /\ coroutine \in 0 .. Waits /\ handler = coroutine /\ queue = <<>>
         /\ coroutine' = coroutine + 1 /\ value' = NoValue
         /\ coroutine' \in 0 .. Ended /\ value' \in 0 .. Valued
         /\ \/ coroutine' \in 1 .. Waits /\ queue' = <<coroutine'>> /\ work' = work + 1
            \/ coroutine' = Ended /\ queue' = <<>> /\ work' = work
<1>1. coroutine' = coroutine + 1 /\ value' = NoValue
  BY DEF GoOn, CallCoroutines, Resume
<1>0. coroutine \in 0 .. Waits /\ handler = coroutine /\ queue = <<>>
  BY AsioAssumption DEF IInv, TypeOK, HandlerPlaced, CallCoroutines, Resume, Ended, Uses, Runs
<1>4. coroutine' \in 0 .. Ended /\ value' \in 0 .. Valued
  BY <1>0, <1>1, AsioAssumption DEF Ended, NoValue
<1>2. CASE coroutine' # Ended
  <2>1. coroutine' \in 1 .. Waits
    BY <1>0, <1>1, <1>2, AsioAssumption DEF Ended
  <2>2. queue' = Append(<<>>, coroutine') /\ work' = work + 1
    BY <1>0, <1>2 DEF GoOn, Post, CallCoroutines, Resume
  <2> QED BY <1>0, <1>1, <1>4, <2>1, <2>2
<1>3. CASE coroutine' = Ended
  BY <1>0, <1>1, <1>3, <1>4 DEF GoOn, CallCoroutines, Resume
<1> QED BY <1>0, <1>1, <1>2, <1>3, <1>4

(* A read brings more of the first bytes of the number.                     *)
LEMMA ReadBytes ==
  ASSUME IInv, Read
  PROVE  /\ buf' \in Seq(1 .. Bytes)
         /\ FirstBytes(buf')
         /\ \/ /\ Len(buf') = Bytes
               /\ buf' = Number /\ answers' = Append(answers, Number) /\ io' = "resume"
            \/ Len(buf') < Bytes /\ UNCHANGED <<io, answers>>
<1>1. PICK n \in Len(buf) + 1 .. Len(wire) : buf' = SubSeq(wire, 1, n)
  BY DEF Read
<1>2. /\ wire \in Seq(1 .. Bytes) /\ Len(wire) <= Bytes
      /\ \A i \in 1 .. Len(wire) : wire[i] = i
      /\ Len(buf) \in Nat /\ Bytes \in Nat /\ n \in Nat /\ n <= Len(wire) /\ 1 <= n
  BY AsioAssumption DEF IInv, TypeOK, AnswerGiven, FirstBytes
<1>3. /\ buf' \in Seq(1 .. Bytes)
      /\ Len(buf') = n
      /\ \A i \in 1 .. n : buf'[i] = i
  BY <1>1, <1>2
<1>4. ASSUME n = Bytes PROVE buf' = Number
  <2>1. buf' = [i \in 1 .. Bytes |-> buf'[i]]
    BY <1>3, <1>4
  <2> QED BY <2>1, <1>3, <1>4 DEF Number
<1>5. FirstBytes(buf')
  BY <1>2, <1>3 DEF FirstBytes
<1> QED BY <1>2, <1>3, <1>4, <1>5 DEF Read, CallBack

(* Every step keeps the types.                                              *)
LEMMA TypeOKStep == IInv /\ [Next]_vars => TypeOK'
<1> SUFFICES ASSUME IInv, [Next]_vars PROVE TypeOK'
  OBVIOUS
<1> USE AsioAssumption DEF IInv, context, coro, net
<1>1. CASE MainCounts
  BY <1>1 DEF MainCounts, TypeOK, Idle, Ended
<1>2. CASE MainQueues
  BY <1>2 DEF MainQueues, TypeOK, Idle, Ended
<1>3. CASE MainJoins
  BY <1>3 DEF MainJoins, TypeOK, Idle, Ended
<1>4. CASE RunBegins
  BY <1>4 DEF RunBegins, TypeOK, Idle, Ended
<1>5. CASE Stop
  BY <1>5 DEF Stop, TypeOK, Idle, Ended
<1>6. CASE CallHandler
  BY <1>6, NextHandler DEF CallHandler, TypeOK, Idle, Ended
<1>7. CASE HandlerReturns
  BY <1>7 DEF HandlerReturns, TypeOK, Idle, Ended, WorkCounted, Runs
<1>8. CASE CallCoroutines
  <2>1. /\ coroutine' \in 0 .. Ended
        /\ queue' \in Seq(0 .. Waits)
        /\ work' \in Nat
        /\ value' \in 0 .. Valued
    <3>1. coroutine' \in 0 .. Ended /\ value' \in 0 .. Valued /\ work \in Nat
      BY <1>8, GoesOn DEF TypeOK
    <3>2. <<>> \in Seq(0 .. Waits) /\ \A c \in 1 .. Waits : <<c>> \in Seq(0 .. Waits)
      OBVIOUS
    <3>3. queue' \in Seq(0 .. Waits)
      BY <1>8, GoesOn, <3>2
    <3>4. work' \in Nat
      BY <1>8, GoesOn, <3>1
    <3> QED BY <3>1, <3>3, <3>4
  <2>2. results' \in Seq(0 .. Valued)
    BY <1>8 DEF CallCoroutines, TypeOK
  <2> QED BY <1>8, <2>1, <2>2 DEF CallCoroutines, TypeOK
<1>9. CASE CallFunction
  BY <1>9 DEF CallFunction, Store, TypeOK, Idle, Ended
<1>10. CASE Resume
  <2>1. /\ coroutine' \in 0 .. Ended
        /\ queue' \in Seq(0 .. Waits)
        /\ work' \in Nat
        /\ value' \in 0 .. Valued
    <3>1. coroutine' \in 0 .. Ended /\ value' \in 0 .. Valued /\ work \in Nat
      BY <1>10, GoesOn DEF TypeOK
    <3>2. <<>> \in Seq(0 .. Waits) /\ \A c \in 1 .. Waits : <<c>> \in Seq(0 .. Waits)
      OBVIOUS
    <3>3. queue' \in Seq(0 .. Waits)
      BY <1>10, GoesOn, <3>2
    <3>4. work' \in Nat
      BY <1>10, GoesOn, <3>1
    <3> QED BY <3>1, <3>3, <3>4
  <2>2. results' \in Seq(0 .. Valued)
    BY <1>10, AppendProperties DEF Resume, TypeOK, Idle
  <2> QED BY <1>10, <2>1, <2>2 DEF Resume, TypeOK
<1>11. CASE FetchConnects
  BY <1>11 DEF FetchConnects, TypeOK, Idle, Ended
<1>12. CASE ConnectFails
  BY <1>12 DEF ConnectFails, CallBack, Nullopt, TypeOK, Idle, Ended
<1>13. CASE Read
  <2>1. UNCHANGED <<main, queue, work, stopped, handler, coroutine, value, results, server, link, wire>>
    BY <1>13 DEF Read
  <2>2. Number \in Seq(1 .. Bytes)
    BY DEF Number
  <2>3. io' \in {"read", "resume"} /\ answers' \in Seq(Seq(1 .. Bytes))
    <3>1. io = "read" /\ answers \in Seq(Seq(1 .. Bytes))
      BY <1>13 DEF Read, TypeOK
    <3>2. Append(answers, Number) \in Seq(Seq(1 .. Bytes))
      BY <3>1, <2>2, AppendProperties
    <3> QED BY <1>13, ReadBytes, <3>1, <3>2
  <2> QED BY <1>13, ReadBytes, <2>1, <2>3 DEF TypeOK
<1>14. CASE ReadFails
  BY <1>14 DEF ReadFails, CallBack, Nullopt, TypeOK, Idle, Ended
<1>15. CASE ServerStarts
  BY <1>15 DEF ServerStarts, TypeOK, Idle, Ended
<1>16. CASE ServerStops
  BY <1>16 DEF ServerStops, TypeOK, Idle, Ended
<1>17. CASE ServerSends
  BY <1>17 DEF ServerSends, Number, TypeOK, Idle, Ended
<1>18. CASE UNCHANGED vars
  BY <1>18 DEF vars, TypeOK, Idle, Ended
<1> QED BY <1>1, <1>2, <1>3, <1>4, <1>5, <1>6, <1>7, <1>8, <1>9, <1>10, <1>11, <1>12, <1>13, <1>14, <1>15, <1>16, <1>17, <1>18 DEF Next, Main, Io, Server


(* Every step keeps the count of work equal to what is queued or running.   *)
LEMMA WorkCountedStep == IInv /\ [Next]_vars => WorkCounted'
<1> SUFFICES ASSUME IInv, [Next]_vars PROVE WorkCounted'
  OBVIOUS
<1> USE AsioAssumption DEF IInv, context, coro, net
<1>1. CASE MainCounts
  BY <1>1 DEF MainCounts, WorkCounted, HandlerPlaced, TypeOK, Runs, Uses, Ended, Idle
<1>2. CASE MainQueues
  BY <1>2 DEF MainQueues, WorkCounted, HandlerPlaced, TypeOK, Runs, Uses, Ended, Idle
<1>3. CASE MainJoins
  BY <1>3 DEF MainJoins, WorkCounted, HandlerPlaced, TypeOK, Runs, Uses, Ended, Idle
<1>4. CASE RunBegins
  BY <1>4 DEF RunBegins, WorkCounted, HandlerPlaced, TypeOK, Runs, Uses, Ended, Idle
<1>5. CASE Stop
  BY <1>5 DEF Stop, WorkCounted, HandlerPlaced, TypeOK, Runs, Uses, Ended, Idle
<1>6. CASE CallHandler
  BY <1>6, NextHandler DEF CallHandler, WorkCounted, HandlerPlaced, TypeOK, Runs, Uses, Ended, Idle
<1>7. CASE HandlerReturns
  BY <1>7 DEF HandlerReturns, WorkCounted, HandlerPlaced, TypeOK, Runs, Uses, Ended, Idle
<1>8. CASE CallCoroutines
  <2>1. /\ main = "join" /\ main' = main
        /\ Runs /\ io' = "finish"
    BY <1>8, GoesOn DEF CallCoroutines, TypeOK, HandlerPlaced, Uses, Runs
  <2>2. work = 1
    BY <1>8, GoesOn, <2>1 DEF WorkCounted
  <2>3. Len(queue') = IF coroutine' = Ended THEN 0 ELSE 1
    BY <1>8, GoesOn DEF Ended
  <2> QED BY <1>8, GoesOn, <2>1, <2>2, <2>3 DEF WorkCounted, Runs, Ended
<1>9. CASE CallFunction
  BY <1>9 DEF CallFunction, Store, WorkCounted, HandlerPlaced, TypeOK, Runs, Uses, Ended, Idle
<1>10. CASE Resume
  <2>1. /\ main = "join" /\ main' = main
        /\ Runs /\ io' = "finish"
    BY <1>10, GoesOn DEF Resume, TypeOK, HandlerPlaced, Uses, Runs
  <2>2. work = 1
    BY <1>10, GoesOn, <2>1 DEF WorkCounted
  <2>3. Len(queue') = IF coroutine' = Ended THEN 0 ELSE 1
    BY <1>10, GoesOn DEF Ended
  <2> QED BY <1>10, GoesOn, <2>1, <2>2, <2>3 DEF WorkCounted, Runs, Ended
<1>11. CASE FetchConnects
  BY <1>11 DEF FetchConnects, WorkCounted, HandlerPlaced, TypeOK, Runs, Uses, Ended, Idle
<1>12. CASE ConnectFails
  BY <1>12 DEF ConnectFails, CallBack, Nullopt, WorkCounted, HandlerPlaced, TypeOK, Runs, Uses, Ended, Idle
<1>13. CASE Read
  BY <1>13, ReadBytes DEF Read, CallBack, WorkCounted, HandlerPlaced, TypeOK, Runs, Uses, Ended, Idle
<1>14. CASE ReadFails
  BY <1>14 DEF ReadFails, CallBack, Nullopt, WorkCounted, HandlerPlaced, TypeOK, Runs, Uses, Ended, Idle
<1>15. CASE ServerStarts
  BY <1>15 DEF ServerStarts, WorkCounted, HandlerPlaced, TypeOK, Runs, Uses, Ended, Idle
<1>16. CASE ServerStops
  BY <1>16 DEF ServerStops, WorkCounted, HandlerPlaced, TypeOK, Runs, Uses, Ended, Idle
<1>17. CASE ServerSends
  BY <1>17 DEF ServerSends, Number, WorkCounted, HandlerPlaced, TypeOK, Runs, Uses, Ended, Idle
<1>18. CASE UNCHANGED vars
  BY <1>18 DEF vars, WorkCounted, HandlerPlaced, TypeOK, Runs, Uses, Ended, Idle
<1> QED BY <1>1, <1>2, <1>3, <1>4, <1>5, <1>6, <1>7, <1>8, <1>9, <1>10, <1>11, <1>12, <1>13, <1>14, <1>15, <1>16, <1>17, <1>18 DEF Next, Main, Io, Server


(* Every step keeps the one handler where the coroutine waits for it.       *)
LEMMA HandlerPlacedStep == IInv /\ [Next]_vars => HandlerPlaced'
<1> SUFFICES ASSUME IInv, [Next]_vars PROVE HandlerPlaced'
  OBVIOUS
<1> USE AsioAssumption DEF IInv, context, coro, net
<1>1. CASE MainCounts
  BY <1>1 DEF MainCounts, WorkCounted, HandlerPlaced, TypeOK, Runs, Uses, Ended, Idle
<1>2. CASE MainQueues
  BY <1>2 DEF MainQueues, WorkCounted, HandlerPlaced, TypeOK, Runs, Uses, Ended, Idle
<1>3. CASE MainJoins
  BY <1>3 DEF MainJoins, WorkCounted, HandlerPlaced, TypeOK, Runs, Uses, Ended, Idle
<1>4. CASE RunBegins
  BY <1>4 DEF RunBegins, WorkCounted, HandlerPlaced, TypeOK, Runs, Uses, Ended, Idle
<1>5. CASE Stop
  BY <1>5 DEF Stop, WorkCounted, HandlerPlaced, TypeOK, Runs, Uses, Ended, Idle
<1>6. CASE CallHandler
  BY <1>6, NextHandler DEF CallHandler, WorkCounted, HandlerPlaced, TypeOK, Runs, Uses, Ended, Idle
<1>7. CASE HandlerReturns
  <2>1. /\ ~stopped /\ io = "finish" /\ main \notin {"post", "push", "over"}
        /\ UNCHANGED <<main, queue, stopped, coroutine>>
        /\ coroutine \in 1 .. Waits \/ coroutine = Ended
    BY <1>7 DEF HandlerReturns, TypeOK, HandlerPlaced, Runs, Uses, Ended
  <2>2. work = Len(queue) + 1
    BY <2>1 DEF WorkCounted, TypeOK, Runs
  <2>3. CASE coroutine \in 1 .. Waits
    <3>1. queue = <<coroutine>> /\ coroutine # Ended
      BY <2>1, <2>3 DEF HandlerPlaced, Ended, Uses
    <3>2. io' = "loop"
      <4>1. Len(queue) = 1
        BY <3>1
      <4> QED BY <1>7, <2>2, <4>1 DEF HandlerReturns
    <3> QED BY <2>1, <2>3, <3>1, <3>2 DEF HandlerPlaced, Ended
  <2>4. CASE coroutine = Ended
    <3>1. io' = "stop" /\ queue = <<>>
      BY <1>7, <2>1, <2>2, <2>4 DEF HandlerReturns, HandlerPlaced
    <3> QED BY <2>1, <2>4, <3>1 DEF HandlerPlaced, Ended
  <2> QED BY <2>1, <2>3, <2>4
<1>8. CASE CallCoroutines
  <2>1. main = "join" /\ ~stopped /\ io' = "finish"
    BY <1>8, GoesOn DEF CallCoroutines, TypeOK, HandlerPlaced, Uses, Runs
  <2>2. UNCHANGED <<main, stopped>>
    BY <1>8 DEF CallCoroutines
  <2> QED BY <1>8, GoesOn, <2>1, <2>2 DEF HandlerPlaced, Uses, Runs, Ended
<1>9. CASE CallFunction
  BY <1>9 DEF CallFunction, Store, WorkCounted, HandlerPlaced, TypeOK, Runs, Uses, Ended, Idle
<1>10. CASE Resume
  <2>1. main = "join" /\ ~stopped /\ io' = "finish"
    BY <1>10, GoesOn DEF Resume, TypeOK, HandlerPlaced, Uses, Runs
  <2>2. UNCHANGED <<main, stopped>>
    BY <1>10 DEF Resume
  <2> QED BY <1>10, GoesOn, <2>1, <2>2 DEF HandlerPlaced, Uses, Runs, Ended
<1>11. CASE FetchConnects
  BY <1>11 DEF FetchConnects, WorkCounted, HandlerPlaced, TypeOK, Runs, Uses, Ended, Idle
<1>12. CASE ConnectFails
  BY <1>12 DEF ConnectFails, CallBack, Nullopt, WorkCounted, HandlerPlaced, TypeOK, Runs, Uses, Ended, Idle
<1>13. CASE Read
  BY <1>13, ReadBytes DEF Read, CallBack, WorkCounted, HandlerPlaced, TypeOK, Runs, Uses, Ended, Idle
<1>14. CASE ReadFails
  BY <1>14 DEF ReadFails, CallBack, Nullopt, WorkCounted, HandlerPlaced, TypeOK, Runs, Uses, Ended, Idle
<1>15. CASE ServerStarts
  BY <1>15 DEF ServerStarts, WorkCounted, HandlerPlaced, TypeOK, Runs, Uses, Ended, Idle
<1>16. CASE ServerStops
  BY <1>16 DEF ServerStops, WorkCounted, HandlerPlaced, TypeOK, Runs, Uses, Ended, Idle
<1>17. CASE ServerSends
  BY <1>17 DEF ServerSends, Number, WorkCounted, HandlerPlaced, TypeOK, Runs, Uses, Ended, Idle
<1>18. CASE UNCHANGED vars
  BY <1>18 DEF vars, WorkCounted, HandlerPlaced, TypeOK, Runs, Uses, Ended, Idle
<1> QED BY <1>1, <1>2, <1>3, <1>4, <1>5, <1>6, <1>7, <1>8, <1>9, <1>10, <1>11, <1>12, <1>13, <1>14, <1>15, <1>16, <1>17, <1>18 DEF Next, Main, Io, Server


(* Every step keeps the results those of the waits that are over.           *)
LEMMA ValuesGivenStep == IInv /\ [Next]_vars => ValuesGiven'
<1> SUFFICES ASSUME IInv, [Next]_vars PROVE ValuesGiven'
  OBVIOUS
<1> USE AsioAssumption DEF IInv, context, coro, net
<1>1. CASE MainCounts
  BY <1>1 DEF MainCounts, HandlerPlaced, ValuesGiven, TypeOK, Runs, Uses, Ended, Idle, NoValue
<1>2. CASE MainQueues
  BY <1>2 DEF MainQueues, HandlerPlaced, ValuesGiven, TypeOK, Runs, Uses, Ended, Idle, NoValue
<1>3. CASE MainJoins
  BY <1>3 DEF MainJoins, HandlerPlaced, ValuesGiven, TypeOK, Runs, Uses, Ended, Idle, NoValue
<1>4. CASE RunBegins
  BY <1>4 DEF RunBegins, HandlerPlaced, ValuesGiven, TypeOK, Runs, Uses, Ended, Idle, NoValue
<1>5. CASE Stop
  BY <1>5 DEF Stop, HandlerPlaced, ValuesGiven, TypeOK, Runs, Uses, Ended, Idle, NoValue
<1>6. CASE CallHandler
  BY <1>6, NextHandler DEF CallHandler, HandlerPlaced, ValuesGiven, TypeOK, Runs, Uses, Ended, Idle, NoValue
<1>7. CASE HandlerReturns
  BY <1>7 DEF HandlerReturns, HandlerPlaced, ValuesGiven, TypeOK, Runs, Uses, Ended, Idle, NoValue
<1>8. CASE CallCoroutines
  BY <1>8, GoesOn DEF CallCoroutines, HandlerPlaced, ValuesGiven, TypeOK, Runs, Uses, Ended, Idle, NoValue
<1>9. CASE CallFunction
  BY <1>9 DEF CallFunction, Store, HandlerPlaced, ValuesGiven, TypeOK, Runs, Uses, Ended, Idle, NoValue
<1>10. CASE Resume
  <2>1. /\ handler = coroutine /\ coroutine \in 1 .. Waits /\ coroutine' = coroutine + 1
        /\ io = "resume" /\ io' = "finish"
        /\ results' = IF coroutine <= Valued THEN Append(results, value) ELSE results
    BY <1>10, GoesOn DEF Resume, HandlerPlaced
  <2>2. /\ results \in Seq(0 .. Valued) /\ value \in 0 .. Valued
        /\ Len(results) = IF coroutine - 1 <= Valued THEN coroutine - 1 ELSE Valued
        /\ \A k \in 1 .. Len(results) : results[k] = k
        /\ coroutine <= Valued => value = coroutine
    BY <2>1 DEF TypeOK, ValuesGiven
  <2>3. CASE coroutine <= Valued
    <3>1. Len(results') = coroutine /\ results'[coroutine] = coroutine
      BY <2>1, <2>2, <2>3
    <3>2. \A k \in 1 .. coroutine - 1 : results'[k] = k
      BY <2>1, <2>2, <2>3
    <3> QED BY <2>1, <2>3, <3>1, <3>2 DEF ValuesGiven
  <2>4. CASE coroutine > Valued
    BY <2>1, <2>2, <2>4 DEF ValuesGiven
  <2> QED BY <2>1, <2>3, <2>4
<1>11. CASE FetchConnects
  BY <1>11 DEF FetchConnects, HandlerPlaced, ValuesGiven, TypeOK, Runs, Uses, Ended, Idle, NoValue
<1>12. CASE ConnectFails
  BY <1>12 DEF ConnectFails, CallBack, Nullopt, HandlerPlaced, ValuesGiven, TypeOK, Runs, Uses, Ended, Idle, NoValue
<1>13. CASE Read
  <2>1. handler = Waits /\ UNCHANGED <<handler, coroutine, value, results>>
    BY <1>13 DEF Read, HandlerPlaced, Uses
  <2> QED BY <2>1 DEF ValuesGiven
<1>14. CASE ReadFails
  BY <1>14 DEF ReadFails, CallBack, Nullopt, HandlerPlaced, ValuesGiven, TypeOK, Runs, Uses, Ended, Idle, NoValue
<1>15. CASE ServerStarts
  BY <1>15 DEF ServerStarts, HandlerPlaced, ValuesGiven, TypeOK, Runs, Uses, Ended, Idle, NoValue
<1>16. CASE ServerStops
  BY <1>16 DEF ServerStops, HandlerPlaced, ValuesGiven, TypeOK, Runs, Uses, Ended, Idle, NoValue
<1>17. CASE ServerSends
  BY <1>17 DEF ServerSends, Number, HandlerPlaced, ValuesGiven, TypeOK, Runs, Uses, Ended, Idle, NoValue
<1>18. CASE UNCHANGED vars
  BY <1>18 DEF vars, HandlerPlaced, ValuesGiven, TypeOK, Runs, Uses, Ended, Idle, NoValue
<1> QED BY <1>1, <1>2, <1>3, <1>4, <1>5, <1>6, <1>7, <1>8, <1>9, <1>10, <1>11, <1>12, <1>13, <1>14, <1>15, <1>16, <1>17, <1>18 DEF Next, Main, Io, Server


(* Every step keeps the answer of fetch to one, and whole.                  *)
LEMMA AnswerGivenStep == IInv /\ [Next]_vars => AnswerGiven'
<1> SUFFICES ASSUME IInv, [Next]_vars PROVE AnswerGiven'
  OBVIOUS
<1> USE AsioAssumption DEF IInv, context, coro, net
<1>1. CASE MainCounts
  BY <1>1 DEF MainCounts, HandlerPlaced, AnswerGiven, TypeOK, FirstBytes, Runs, Uses, Ended, Idle
<1>2. CASE MainQueues
  BY <1>2 DEF MainQueues, HandlerPlaced, AnswerGiven, TypeOK, FirstBytes, Runs, Uses, Ended, Idle
<1>3. CASE MainJoins
  BY <1>3 DEF MainJoins, HandlerPlaced, AnswerGiven, TypeOK, FirstBytes, Runs, Uses, Ended, Idle
<1>4. CASE RunBegins
  BY <1>4 DEF RunBegins, HandlerPlaced, AnswerGiven, TypeOK, FirstBytes, Runs, Uses, Ended, Idle
<1>5. CASE Stop
  BY <1>5 DEF Stop, HandlerPlaced, AnswerGiven, TypeOK, FirstBytes, Runs, Uses, Ended, Idle
<1>6. CASE CallHandler
  BY <1>6, NextHandler DEF CallHandler, HandlerPlaced, AnswerGiven, TypeOK, FirstBytes, Runs, Uses, Ended, Idle
<1>7. CASE HandlerReturns
  BY <1>7 DEF HandlerReturns, HandlerPlaced, AnswerGiven, TypeOK, FirstBytes, Runs, Uses, Ended, Idle
<1>8. CASE CallCoroutines
  BY <1>8, GoesOn DEF CallCoroutines, HandlerPlaced, AnswerGiven, TypeOK, FirstBytes, Runs, Uses, Ended, Idle
<1>9. CASE CallFunction
  BY <1>9 DEF CallFunction, Store, HandlerPlaced, AnswerGiven, TypeOK, FirstBytes, Runs, Uses, Ended, Idle
<1>10. CASE Resume
  <2>1. /\ handler = coroutine /\ coroutine \in 1 .. Waits /\ coroutine' = coroutine + 1
        /\ io = "resume" /\ io' = "finish" /\ UNCHANGED <<wire, buf, answers>>
    BY <1>10, GoesOn DEF Resume, HandlerPlaced
  <2>2. coroutine' = Ended <=> handler = Waits
    BY <2>1 DEF Ended
  <2> QED BY <2>1, <2>2 DEF AnswerGiven, FirstBytes, Ended
<1>11. CASE FetchConnects
  BY <1>11 DEF FetchConnects, HandlerPlaced, AnswerGiven, TypeOK, FirstBytes, Runs, Uses, Ended, Idle
<1>12. CASE ConnectFails
  BY <1>12 DEF ConnectFails, CallBack, Nullopt, HandlerPlaced, AnswerGiven, TypeOK, FirstBytes, Runs, Uses, Ended, Idle
<1>13. CASE Read
  <2>1. /\ io = "read" /\ coroutine = Waits /\ handler = Waits
        /\ UNCHANGED <<handler, coroutine, wire>>
    BY <1>13 DEF Read, HandlerPlaced, Uses, Ended
  <2>2. answers = <<>> /\ coroutine # Ended
    BY <2>1 DEF AnswerGiven, TypeOK, Ended
  <2>3. CASE Len(buf') < Bytes /\ UNCHANGED <<io, answers>>
    BY <1>13, ReadBytes, <2>1, <2>2, <2>3 DEF AnswerGiven
  <2>4. CASE buf' = Number /\ answers' = Append(answers, Number) /\ io' = "resume"
    <3>1. answers' = <<Number>>
      BY <2>2, <2>4
    <3> QED BY <1>13, ReadBytes, <3>1, <2>1, <2>2, <2>4 DEF AnswerGiven
  <2> QED BY <1>13, ReadBytes, <2>3, <2>4
<1>14. CASE ReadFails
  BY <1>14 DEF ReadFails, CallBack, Nullopt, HandlerPlaced, AnswerGiven, TypeOK, FirstBytes, Runs, Uses, Ended, Idle
<1>15. CASE ServerStarts
  BY <1>15 DEF ServerStarts, HandlerPlaced, AnswerGiven, TypeOK, FirstBytes, Runs, Uses, Ended, Idle
<1>16. CASE ServerStops
  BY <1>16 DEF ServerStops, HandlerPlaced, AnswerGiven, TypeOK, FirstBytes, Runs, Uses, Ended, Idle
<1>17. CASE ServerSends
  <2>1. PICK n \in Len(wire) + 1 .. Bytes : wire' = SubSeq(Number, 1, n)
    BY <1>17 DEF ServerSends
  <2>2. n \in Nat /\ n <= Bytes
    BY <2>1 DEF TypeOK
  <2>3. Len(wire') = n /\ \A i \in 1 .. n : wire'[i] = i
    <3>1. Number \in Seq(1 .. Bytes) /\ Len(Number) = Bytes
      BY DEF Number
    <3> QED BY <2>1, <2>2, <3>1 DEF Number
  <2>4. FirstBytes(wire')
    BY <2>2, <2>3 DEF FirstBytes
  <2> QED BY <1>17, <2>4 DEF ServerSends, AnswerGiven
<1>18. CASE UNCHANGED vars
  BY <1>18 DEF vars, HandlerPlaced, AnswerGiven, TypeOK, FirstBytes, Runs, Uses, Ended, Idle
<1> QED BY <1>1, <1>2, <1>3, <1>4, <1>5, <1>6, <1>7, <1>8, <1>9, <1>10, <1>11, <1>12, <1>13, <1>14, <1>15, <1>16, <1>17, <1>18 DEF Next, Main, Io, Server

(* The inductive invariant holds initially.                                 *)
LEMMA InitIInv == Init => IInv
<1> SUFFICES ASSUME Init PROVE IInv
  OBVIOUS
<1> USE AsioAssumption DEF Init, Ended
<1>1. TypeOK
  <2>1. queue \in Seq(0 .. Waits) /\ results \in Seq(0 .. Valued)
    OBVIOUS
  <2>2. wire \in Seq(1 .. Bytes) /\ buf \in Seq(1 .. Bytes) /\ answers \in Seq(Seq(1 .. Bytes))
    OBVIOUS
  <2>3. /\ handler \in Idle .. Waits /\ coroutine \in 0 .. Ended /\ value \in 0 .. Valued
        /\ work \in Nat
    BY DEF Idle, NoValue
  <2> QED BY <2>1, <2>2, <2>3 DEF TypeOK
<1>2. WorkCounted /\ HandlerPlaced
  BY DEF WorkCounted, HandlerPlaced, Runs, Uses
<1>3. ValuesGiven /\ AnswerGiven
  BY DEF ValuesGiven, AnswerGiven, FirstBytes
<1> QED BY <1>1, <1>2, <1>3 DEF IInv

(* The inductive invariant holds in every reachable state.                  *)
LEMMA Invariance == Spec => []IInv
<1>1. IInv /\ [Next]_vars => IInv'
  BY TypeOKStep, WorkCountedStep, HandlerPlacedStep, ValuesGivenStep, AnswerGivenStep DEF IInv
<1> QED BY InitIInv, <1>1, PTL DEF Spec

(* The types of all variables; work never falls below zero.                 *)
THEOREM TypeCorrect == Spec => []TypeOK
<1>1. IInv => TypeOK
  BY DEF IInv
<1> QED BY <1>1, Invariance, PTL

(* A posted handler resumes the coroutine at the wait it was posted for,    *)
(* exactly once and never after its end (ASIOPostAwaitable), for any number *)
(* of waits.                                                                *)
THEOREM OneHandler == Spec => []HandlerForItsWait
<1>1. IInv => HandlerForItsWait
  <2> SUFFICES ASSUME IInv PROVE HandlerForItsWait
    OBVIOUS
  <2> USE AsioAssumption DEF IInv, TypeOK
  <2>1. Len(queue) <= 1 /\ \A i \in DOMAIN queue : queue[i] = coroutine
    <3>0. queue = <<>> \/ queue = <<coroutine>> =>
            Len(queue) <= 1 /\ \A i \in DOMAIN queue : queue[i] = coroutine
      <4>1. CASE queue = <<>>
        BY <4>1
      <4>2. CASE queue = <<coroutine>>
        <5>1. Len(queue) = 1 /\ queue[1] = coroutine
          BY <4>2
        <5>2. DOMAIN queue = 1 .. 1
          BY <5>1
        <5> QED BY <5>1, <5>2
      <4> QED BY <4>1, <4>2
    <3>1. CASE coroutine = 0
      BY <3>0, <3>1 DEF HandlerPlaced
    <3>2. CASE coroutine \in 1 .. Waits
      BY <3>0, <3>2 DEF HandlerPlaced
    <3>3. CASE coroutine = Ended
      BY <3>0, <3>3 DEF HandlerPlaced
    <3> QED BY <3>1, <3>2, <3>3 DEF Ended
  <2>2. io \in {"call", "read", "resume"} => handler = coroutine /\ queue = <<>>
    BY DEF HandlerPlaced, Ended, Uses, Runs
  <2>3. coroutine \in 1 .. Waits => queue # <<>> \/ io \in {"call", "read", "resume"}
    <3>1. <<coroutine>> # <<>>
      OBVIOUS
    <3> QED BY <3>1 DEF HandlerPlaced, Uses
  <2> QED BY <2>1, <2>2, <2>3 DEF HandlerForItsWait
<1> QED BY <1>1, Invariance, PTL

(* io.run() stops the context when its count of work falls to zero, and     *)
(* never while the coroutine is suspended at a wait.                        *)
THEOREM NoneAbandoned == Spec => []StopsWhenDone
<1>1. IInv => StopsWhenDone
  BY AsioAssumption DEF IInv, TypeOK, HandlerPlaced, StopsWhenDone, Ended, Uses
<1> QED BY <1>1, Invariance, PTL

(* Every wait of run_coroutines returns the value its function computed,    *)
(* and Cache::fetch calls back once, with a number only if it read all of   *)
(* its bytes, in whatever pieces they came.                                 *)
THEOREM ResultsCorrect == Spec => []ResultsDelivered
<1>1. IInv => ResultsAreValues
  BY AsioAssumption DEF IInv, TypeOK, ValuesGiven, ResultsAreValues, Ended
<1>2. IInv => FetchCallsBackOnce
  BY DEF IInv, AnswerGiven, FetchCallsBackOnce
<1>3. IInv => ResultsDelivered
  BY <1>1, <1>2 DEF ResultsDelivered
<1> QED BY <1>3, Invariance, PTL
=============================================================================
