-------------------------- MODULE LogWriterProofs ---------------------------
(***************************************************************************)
(* LogWriter is correct for every set of producers and requests, every     *)
(* number of calls, and whether or not Storage::write() can throw.         *)
(***************************************************************************)
EXTENDS LogWriter, TLAPS

(* What the worker holds in each of its control states, and what stop()    *)
(* knows when it returns.  FifoNoLoss is not inductive without the first   *)
(* two: Take appends to inflight's place only because it is empty.         *)
HandInv == /\ worker = "writing" => \E r \in Requests : inflight = <<r>>
           /\ worker # "writing" => inflight = <<>>
           /\ owner = "stopped" => worker = "done"

IInv == TypeOK /\ HandInv /\ FifoNoLoss /\ NothingStranded /\ NoLostWakeup

-----------------------------------------------------------------------------
(* Sequences *)

(* Taking the front of a queue and putting it right behind a prefix keeps  *)
(* the concatenation (wait()).                                             *)
LEMMA MoveFront ==
    ASSUME NEW S, NEW a \in Seq(S), NEW q \in Seq(S), q # <<>>
    PROVE  /\ <<Head(q)>> \o Tail(q) = q
           /\ (a \o <<>>) \o q = (a \o <<Head(q)>>) \o Tail(q)
  <1>1. <<Head(q)>> \in Seq(S) /\ Tail(q) \in Seq(S)
    OBVIOUS
  <1>2. <<Head(q)>> \o Tail(q) = q
    OBVIOUS
  <1>3. (a \o <<Head(q)>>) \o Tail(q) = a \o (<<Head(q)>> \o Tail(q))
    BY <1>1
  <1>4. a \o <<>> = a
    OBVIOUS
  <1> QED
    BY <1>2, <1>3, <1>4

(* Queueing a request at the back appends it to the whole (add()).         *)
LEMMA AppendBack ==
    \A s, q \in Seq(Requests), r \in Requests : Append(s \o q, r) = s \o Append(q, r)
  OBVIOUS

(* The element behind the prefix a is the next one in order.               *)
LEMMA NextInOrder ==
    ASSUME NEW S, NEW a \in Seq(S), NEW r \in S, NEW q \in Seq(S)
    PROVE  LET whole == (a \o <<r>>) \o q
           IN  /\ Len(a) < Len(whole)
               /\ a \o <<r>> = Append(a, whole[Len(a) + 1])
  <1> DEFINE whole == (a \o <<r>>) \o q
  <1>1. a \o <<r>> \in Seq(S) /\ Len(a \o <<r>>) = Len(a) + 1
    OBVIOUS
  <1>2. Len(whole) = Len(a) + 1 + Len(q)
    BY <1>1
  <1>3. whole[Len(a) + 1] = r
    BY <1>1
  <1>4. a \o <<r>> = Append(a, r)
    OBVIOUS
  <1> QED
    BY <1>2, <1>3, <1>4

-----------------------------------------------------------------------------
(* Each conjunct of IInv is preserved by every step. *)

LEMMA TypeStep == ASSUME TypeOK, HandInv, [Next]_vars PROVE TypeOK'
  <1> USE DEF TypeOK, WorkerStates, OwnerStates
  <1>1. ASSUME NEW p \in Producers, NEW r \in Requests, Add(p, r)
        PROVE  TypeOK'
    BY <1>1 DEF Add
  <1>2. ASSUME NEW p \in Producers, AddNotify(p) PROVE TypeOK'
    BY <1>2 DEF AddNotify, Notify
  <1>3. CASE Block
    BY <1>3 DEF Block
  <1>4. CASE Take
    <2>1. Head(queue_) \in Requests /\ Tail(queue_) \in Seq(Requests)
      BY <1>4 DEF Take
    <2> QED
      BY <1>4, <2>1 DEF Take, Front, Rest
  <1>5. CASE Exit
    BY <1>5 DEF Exit
  <1>6. CASE Write
    <2>1. written \o inflight \in Seq(Requests)
      OBVIOUS
    <2> QED
      BY <1>6, <2>1 DEF Write
  <1>7. CASE SpuriousWakeup
    BY <1>7 DEF SpuriousWakeup
  <1>8. CASE WriteThrows
    BY <1>8 DEF WriteThrows
  <1>9. CASE Stop
    BY <1>9 DEF Stop
  <1>10. CASE StopNotify
    BY <1>10 DEF StopNotify, Notify
  <1>11. CASE Join
    BY <1>11 DEF Join
  <1>12. CASE UNCHANGED vars
    BY <1>12 DEF vars
  <1> QED
    BY <1>1, <1>2, <1>3, <1>4, <1>5, <1>6, <1>7, <1>8, <1>9, <1>10, <1>11,
       <1>12 DEF Next, WorkerStep

LEMMA HandStep == ASSUME TypeOK, HandInv, [Next]_vars PROVE HandInv'
  <1> USE DEF HandInv
  <1>1. ASSUME NEW p \in Producers, NEW r \in Requests, Add(p, r)
        PROVE  HandInv'
    BY <1>1 DEF Add
  <1>2. ASSUME NEW p \in Producers, AddNotify(p) PROVE HandInv'
    BY <1>2 DEF AddNotify, Notify
  <1>3. CASE Block
    BY <1>3 DEF Block
  <1>4. CASE Take
    <2>1. Head(queue_) \in Requests
      BY <1>4 DEF Take, TypeOK
    <2> QED
      BY <1>4, <2>1 DEF Take, Front
  <1>5. CASE Exit
    BY <1>5 DEF Exit
  <1>6. CASE Write
    BY <1>6 DEF Write
  <1>7. CASE SpuriousWakeup
    BY <1>7 DEF SpuriousWakeup
  <1>8. CASE WriteThrows
    BY <1>8 DEF WriteThrows
  <1>9. CASE Stop
    BY <1>9 DEF Stop
  <1>10. CASE StopNotify
    BY <1>10 DEF StopNotify, Notify
  <1>11. CASE Join
    BY <1>11 DEF Join
  <1>12. CASE UNCHANGED vars
    BY <1>12 DEF vars
  <1> QED
    BY <1>1, <1>2, <1>3, <1>4, <1>5, <1>6, <1>7, <1>8, <1>9, <1>10, <1>11,
       <1>12 DEF Next, WorkerStep

LEMMA FifoStep ==
    ASSUME TypeOK, HandInv, FifoNoLoss, [Next]_vars PROVE FifoNoLoss'
  <1> USE DEF FifoNoLoss
  <1>0. /\ written \in Seq(Requests)
        /\ inflight \in Seq(Requests)
        /\ queue_ \in Seq(Requests)
    BY DEF TypeOK
  <1>1. ASSUME NEW p \in Producers, NEW r \in Requests, Add(p, r)
        PROVE  FifoNoLoss'
    <2>1. written \o inflight \in Seq(Requests)
      BY <1>0
    <2> DEFINE taken == written \o inflight
    <2>2. taken \in Seq(Requests) /\ r \in Requests
      BY <1>1, <2>1
    <2> HIDE DEF taken
    <2>3. Append(taken \o queue_, r) = taken \o Append(queue_, r)
      BY <1>0, <2>2, AppendBack, Zenon
    <2> QED
      BY <1>1, <2>3 DEF Add, taken
  <1>2. ASSUME NEW p \in Producers, AddNotify(p) PROVE FifoNoLoss'
    BY <1>2 DEF AddNotify
  <1>3. CASE Block
    BY <1>3 DEF Block
  <1>4. CASE Take
    <2>1. queue_ # <<>> /\ inflight = <<>>
      BY <1>4 DEF Take, HandInv
    <2>2. (written \o <<>>) \o queue_
            = (written \o <<Head(queue_)>>) \o Tail(queue_)
      BY <2>1, MoveFront DEF TypeOK
    <2> QED
      BY <1>4, <2>1, <2>2 DEF Take, Front, Rest
  <1>5. CASE Exit
    BY <1>5 DEF Exit
  <1>6. CASE Write
    <2>1. written \o inflight \in Seq(Requests)
      BY <1>0 DEF TypeOK
    <2>2. (written \o inflight) \o <<>> = written \o inflight
      BY <2>1
    <2> QED
      BY <1>6, <2>2 DEF Write
  <1>7. CASE SpuriousWakeup
    BY <1>7 DEF SpuriousWakeup
  <1>8. CASE WriteThrows
    BY <1>8 DEF WriteThrows
  <1>9. CASE Stop
    BY <1>9 DEF Stop
  <1>10. CASE StopNotify
    BY <1>10 DEF StopNotify
  <1>11. CASE Join
    BY <1>11 DEF Join
  <1>12. CASE UNCHANGED vars
    BY <1>12 DEF vars
  <1> QED
    BY <1>1, <1>2, <1>3, <1>4, <1>5, <1>6, <1>7, <1>8, <1>9, <1>10, <1>11,
       <1>12 DEF Next, WorkerStep

LEMMA StrandedStep ==
    ASSUME TypeOK, HandInv, NothingStranded, [Next]_vars PROVE NothingStranded'
  <1> USE DEF NothingStranded
  <1>1. ASSUME NEW p \in Producers, NEW r \in Requests, Add(p, r)
        PROVE  NothingStranded'
    \* the worker cannot be done: add() is refused once stopping_ is set
    BY <1>1 DEF Add, Admits
  <1>2. ASSUME NEW p \in Producers, AddNotify(p) PROVE NothingStranded'
    BY <1>2 DEF AddNotify, Notify
  <1>3. CASE Block
    BY <1>3 DEF Block
  <1>4. CASE Take
    BY <1>4 DEF Take
  <1>5. CASE Exit
    BY <1>5 DEF Exit, Finished, WakeCondition, HandInv
  <1>6. CASE Write
    BY <1>6 DEF Write
  <1>7. CASE SpuriousWakeup
    BY <1>7 DEF SpuriousWakeup
  <1>8. CASE WriteThrows
    BY <1>8 DEF WriteThrows
  <1>9. CASE Stop
    BY <1>9 DEF Stop
  <1>10. CASE StopNotify
    BY <1>10 DEF StopNotify, Notify
  <1>11. CASE Join
    BY <1>11 DEF Join
  <1>12. CASE UNCHANGED vars
    BY <1>12 DEF vars
  <1> QED
    BY <1>1, <1>2, <1>3, <1>4, <1>5, <1>6, <1>7, <1>8, <1>9, <1>10, <1>11,
       <1>12 DEF Next, WorkerStep

LEMMA WakeupStep ==
    ASSUME TypeOK, NoLostWakeup, [Next]_vars PROVE NoLostWakeup'
  <1> USE DEF NoLostWakeup, WakeCondition
  <1>1. ASSUME NEW p \in Producers, NEW r \in Requests, Add(p, r)
        PROVE  NoLostWakeup'
    <2>1. producer'[p] = "notify"
      BY <1>1 DEF Add, TypeOK
    <2> QED
      BY <2>1
  <1>2. ASSUME NEW p \in Producers, AddNotify(p) PROVE NoLostWakeup'
    BY <1>2 DEF AddNotify, Notify
  <1>3. CASE Block
    BY <1>3 DEF Block
  <1>4. CASE Take
    BY <1>4 DEF Take
  <1>5. CASE Exit
    BY <1>5 DEF Exit
  <1>6. CASE Write
    BY <1>6 DEF Write
  <1>7. CASE SpuriousWakeup
    BY <1>7 DEF SpuriousWakeup
  <1>8. CASE WriteThrows
    BY <1>8 DEF WriteThrows
  <1>9. CASE Stop
    BY <1>9 DEF Stop
  <1>10. CASE StopNotify
    BY <1>10 DEF StopNotify, Notify
  <1>11. CASE Join
    BY <1>11 DEF Join
  <1>12. CASE UNCHANGED vars
    BY <1>12 DEF vars
  <1> QED
    BY <1>1, <1>2, <1>3, <1>4, <1>5, <1>6, <1>7, <1>8, <1>9, <1>10, <1>11,
       <1>12 DEF Next, WorkerStep

-----------------------------------------------------------------------------
(* Theorems *)

(* IInv holds initially and is preserved by every step of add(), wait(),   *)
(* writingThread() and stop().                                             *)
THEOREM Inductive == Spec => []IInv
  <1>1. Init => IInv
    <2> SUFFICES ASSUME Init PROVE IInv
      OBVIOUS
    <2>0. <<>> \in Seq(Requests) /\ Len(<<>>) <= 1
      OBVIOUS
    <2>1. TypeOK
      BY <2>0, Zenon DEF Init, TypeOK, WorkerStates, OwnerStates
    <2>2. HandInv /\ NothingStranded /\ NoLostWakeup
      BY DEF Init, HandInv, NothingStranded, NoLostWakeup
    <2>3. FifoNoLoss
      BY DEF Init, FifoNoLoss
    <2> QED
      BY <2>1, <2>2, <2>3 DEF IInv
  <1>2. IInv /\ [Next]_vars => IInv'
    BY TypeStep, HandStep, FifoStep, StrandedStep, WakeupStep DEF IInv
  <1> QED
    BY <1>1, <1>2, PTL DEF Spec

(* The variables of the queue and its threads keep their types.            *)
THEOREM TypeCorrect == Spec => []TypeOK
  BY Inductive, PTL DEF IInv

(* No request is lost, duplicated or reordered between add() and           *)
(* Storage::write().                                                       *)
THEOREM FifoCorrect == Spec => []FifoNoLoss
  BY Inductive, PTL DEF IInv

(* No notification of add() or stop() is lost on a sleeping worker.        *)
THEOREM WakeupCorrect == Spec => []NoLostWakeup
  BY Inductive, PTL DEF IInv

(* writingThread() returns only after stop() was called, and leaves no     *)
(* request behind.                                                         *)
THEOREM ExitCorrect == Spec => []NothingStranded
  BY Inductive, PTL DEF IInv

(* When stop() has returned, everything add() admitted has been passed to  *)
(* Storage::write(), however the two raced.                                *)
THEOREM DrainCorrect == Spec => []DrainedWhenStopped
  <1>1. IInv => DrainedWhenStopped
    <2> SUFFICES ASSUME IInv, owner = "stopped" PROVE written = accepted
      BY DEF DrainedWhenStopped
    <2>1. queue_ = <<>> /\ inflight = <<>>
      BY DEF IInv, HandInv, NothingStranded
    <2>2. (written \o <<>>) \o <<>> = written
      BY DEF IInv, TypeOK
    <2> QED
      BY <2>1, <2>2 DEF IInv, FifoNoLoss
  <1> QED
    BY <1>1, Inductive, PTL

(* LogWriter implements the FIFO channel: add() is Accept, the worker's    *)
(* write() is Deliver, stop() is Close, and everything else stutters.      *)
THEOREM Refinement == Spec => ImplementsChannel
  <1>1. Init => Channel!AbsInit
    BY DEF Init, Channel!AbsInit
  <1>2. ASSUME IInv, [Next]_vars
        PROVE  [Channel!AbsNext]_(Channel!absVars)
    <2> USE DEF Channel!absVars
    <2>1. ASSUME NEW p \in Producers, NEW r \in Requests, Add(p, r)
          PROVE  Channel!Accept(r)
      BY <2>1 DEF Add, Admits, Channel!Accept
    <2>2. ASSUME NEW p \in Producers, AddNotify(p)
          PROVE  UNCHANGED Channel!absVars
      BY <2>2 DEF AddNotify
    <2>3. CASE Block \/ Take \/ Exit \/ SpuriousWakeup \/ WriteThrows
      BY <2>3 DEF Block, Take, Exit, SpuriousWakeup, WriteThrows
    <2>4. CASE Write
      <3>1. PICK r \in Requests : inflight = <<r>>
        BY <1>2, <2>4 DEF Write, IInv, HandInv
      <3>2. written \in Seq(Requests) /\ queue_ \in Seq(Requests)
        BY <1>2 DEF IInv, TypeOK
      <3>3. accepted = (written \o <<r>>) \o queue_
        BY <1>2, <3>1 DEF IInv, FifoNoLoss
      <3>4. /\ Len(written) < Len(accepted)
            /\ written \o <<r>> = Append(written, accepted[Len(written) + 1])
        BY <3>2, <3>3, NextInOrder
      <3>5. Channel!Deliver
        BY <2>4, <3>1, <3>4 DEF Write, Channel!Deliver
      <3> QED
        BY <3>5 DEF Channel!AbsNext
    <2>5. CASE Stop
      BY <2>5 DEF Stop, Channel!AbsNext, Channel!Close
    <2>6. CASE StopNotify \/ Join
      BY <2>6 DEF StopNotify, Join
    <2>7. CASE UNCHANGED vars
      BY <2>7 DEF vars
    <2> QED
      BY <1>2, <2>1, <2>2, <2>3, <2>4, <2>5, <2>6, <2>7
         DEF Next, WorkerStep, Channel!AbsNext
  <1> QED
    BY <1>1, <1>2, Inductive, PTL DEF Spec, ImplementsChannel, Channel!AbsSpec

=============================================================================
