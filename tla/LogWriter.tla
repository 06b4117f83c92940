----------------------------- MODULE LogWriter ------------------------------
(***************************************************************************)
(* libs/log_writer/writer/log_writer.{h,cpp}: the queue between the        *)
(* threads that call add() and the one worker thread that calls            *)
(* Storage::write(), and the stop() that drains and joins it.              *)
(*                                                                         *)
(* A critical section of mutex_ contains no other blocking call, so it is  *)
(* one step.  The notify_one() calls happen after the unlock and are steps *)
(* of their own; a notification finds the worker waiting or is lost.       *)
(***************************************************************************)
EXTENDS Naturals, Sequences

CONSTANTS Producers,  \* threads that call add()
          Requests,   \* LogRequest values
          MaxAdds     \* bound: calls of add() that are admitted

ASSUME LogWriterAssumption == MaxAdds \in Nat

VARIABLES
    queue_,      \* std::queue<LogRequest>
    stopping_,   \* admission flag
    worker,      \* control state of writingThread()
    inflight,    \* the request wait() returned, as a sequence of length 0 or 1
    producer,    \* control state of each thread in add()
    owner,       \* control state of the thread that calls stop()
    terminated,  \* an exception left writingThread(): std::terminate()
    \* History, read only by the properties
    accepted,    \* requests for which add() returned true
    written      \* requests for which Storage::write() was called

vars == <<queue_, stopping_, worker, inflight, producer, owner, terminated,
          accepted, written>>

WorkerStates == {"run", "waiting", "writing", "done"}
OwnerStates == {"idle", "notify", "join", "stopped"}

TypeOK == /\ queue_ \in Seq(Requests)
          /\ stopping_ \in BOOLEAN
          /\ worker \in WorkerStates
          /\ inflight \in Seq(Requests) /\ Len(inflight) <= 1
          /\ producer \in [Producers -> {"idle", "notify"}]
          /\ owner \in OwnerStates
          /\ terminated \in BOOLEAN
          /\ accepted \in Seq(Requests)
          /\ written \in Seq(Requests)

\* The constructor starts the worker with an empty queue.
Init == /\ queue_ = <<>>
        /\ stopping_ = FALSE
        /\ worker = "run"
        /\ inflight = <<>>
        /\ producer = [p \in Producers |-> "idle"]
        /\ owner = "idle"
        /\ terminated = FALSE
        /\ accepted = <<>>
        /\ written = <<>>

-----------------------------------------------------------------------------
(* add() *)

\* Under the lock: refused, and the call returns false, once stopping_ is set.
AdmitsAlways == TRUE   \* mutant: the check of stopping_ is missing
Admits == ~stopping_

Add(p, r) ==
    /\ ~terminated
    /\ producer[p] = "idle"
    /\ Admits
    /\ Len(accepted) < MaxAdds
    /\ queue_' = Append(queue_, r)
    /\ accepted' = Append(accepted, r)
    /\ producer' = [producer EXCEPT ![p] = "notify"]
    /\ UNCHANGED <<stopping_, worker, inflight, owner, terminated, written>>

\* notify_one(): the worker is the only thread that ever waits.
NotifyForgotten == worker' = worker   \* mutant: no notify_one()
Notify == worker' = IF worker = "waiting" THEN "run" ELSE worker

AddNotify(p) ==
    /\ ~terminated
    /\ producer[p] = "notify"
    /\ Notify
    /\ producer' = [producer EXCEPT ![p] = "idle"]
    /\ UNCHANGED <<queue_, stopping_, inflight, owner, terminated, accepted,
                   written>>

-----------------------------------------------------------------------------
(* writingThread() and wait() *)

\* The predicate of condition_.wait().
WakeOnWorkOnly == queue_ # <<>>   \* mutant: the predicate ignores stopping_
WakeOnStopOnly == stopping_       \* mutant: the predicate ignores the queue
WakeCondition == stopping_ \/ queue_ # <<>>

\* wait() finds the predicate false and blocks, releasing the lock.
Block ==
    /\ ~terminated
    /\ worker = "run"
    /\ ~WakeCondition
    /\ worker' = "waiting"
    /\ UNCHANGED <<queue_, stopping_, inflight, producer, owner, terminated,
                   accepted, written>>

\* A condition variable may wake without a notification.
SpuriousWakeup ==
    /\ ~terminated
    /\ worker = "waiting"
    /\ worker' = "run"
    /\ UNCHANGED <<queue_, stopping_, inflight, producer, owner, terminated,
                   accepted, written>>

\* wait() copies the front of the queue and pops it.
WholeQueue == queue_                   \* mutant: the queue is swapped out whole
Newest == <<queue_[Len(queue_)]>>      \* mutant: back() instead of front()
Front == <<Head(queue_)>>
NoPop == queue_                        \* mutant: pop() is missing
Rest == Tail(queue_)

Take ==
    /\ ~terminated
    /\ worker = "run"
    /\ queue_ # <<>>
    /\ inflight' = Front
    /\ queue_' = Rest
    /\ worker' = "writing"
    /\ UNCHANGED <<stopping_, producer, owner, terminated, accepted, written>>

\* wait() returns nullptr and the thread function returns.
FinishedAtStop == stopping_   \* mutant: leaves without draining the queue
Finished == WakeCondition /\ queue_ = <<>>

Exit ==
    /\ ~terminated
    /\ worker = "run"
    /\ Finished
    /\ worker' = "done"
    /\ UNCHANGED <<queue_, stopping_, inflight, producer, owner, terminated,
                   accepted, written>>

\* storage_->write(*request); the result is ignored.
Write ==
    /\ ~terminated
    /\ worker = "writing"
    /\ written' = written \o inflight
    /\ inflight' = <<>>
    /\ worker' = "run"
    /\ UNCHANGED <<queue_, stopping_, producer, owner, terminated, accepted>>

\* storage_->write() throws; nothing catches it in the thread function.
WriteThrows ==
    /\ ~terminated
    /\ worker = "writing"
    /\ terminated' = TRUE
    /\ UNCHANGED <<queue_, stopping_, worker, inflight, producer, owner,
                   accepted, written>>

-----------------------------------------------------------------------------
(* stop(): called by the destructor and possibly before it, any number of  *)
(* times by the owning thread.                                             *)

Stop ==
    /\ ~terminated
    /\ owner \in {"idle", "stopped"}
    /\ stopping_' = TRUE
    /\ owner' = "notify"
    /\ UNCHANGED <<queue_, worker, inflight, producer, terminated, accepted,
                   written>>

StopNotify ==
    /\ ~terminated
    /\ owner = "notify"
    /\ Notify
    /\ owner' = "join"
    /\ UNCHANGED <<queue_, stopping_, inflight, producer, terminated, accepted,
                   written>>

\* join() returns once the thread function has; a second stop() finds the
\* thread no longer joinable, which is the same state.
Join ==
    /\ ~terminated
    /\ owner = "join"
    /\ worker = "done"
    /\ owner' = "stopped"
    /\ UNCHANGED <<queue_, stopping_, worker, inflight, producer, terminated,
                   accepted, written>>

-----------------------------------------------------------------------------

WorkerStep == Block \/ Take \/ Exit \/ Write

Next == \/ \E p \in Producers, r \in Requests : Add(p, r)
        \/ \E p \in Producers : AddNotify(p)
        \/ WorkerStep
        \/ SpuriousWakeup
        \/ WriteThrows
        \/ Stop
        \/ StopNotify
        \/ Join

Spec == Init /\ [][Next]_vars

\* Every thread that is able to run eventually does.  Nobody is obliged to
\* call add() or stop(), and no wakeup is owed without a notification.
Fairness == /\ WF_vars(WorkerStep)
            /\ WF_vars(StopNotify)
            /\ WF_vars(Join)
            /\ \A p \in Producers : WF_vars(AddNotify(p))

FairSpec == Spec /\ Fairness

-----------------------------------------------------------------------------
(* Properties *)

(* Every accepted request is in exactly one place (already given to        *)
(* Storage::write(), in the worker's hands, or queued) and these places,   *)
(* read in that order, spell out the order of acceptance.                  *)
FifoNoLoss == accepted = written \o inflight \o queue_

(* "every accepted entry is written, and the worker is joined": once       *)
(* stop() has returned, nothing that add() admitted is still unwritten,    *)
(* however the calls of add() raced with it.                               *)
DrainedWhenStopped == owner = "stopped" => written = accepted

(* Whenever the worker sleeps although there is work or a shutdown to      *)
(* notice, some thread still owes it a notification: the unlock-then-notify *)
(* order in add() and stop() never loses a wakeup.                         *)
NoLostWakeup ==
    worker = "waiting" /\ WakeCondition =>
        \/ owner = "notify"
        \/ \E p \in Producers : producer[p] = "notify"

(* The worker leaves its loop only in a shutdown, with nothing queued and  *)
(* nothing in hand; with add() closed by then, no request can be stranded  *)
(* behind a worker that is gone.                                           *)
NothingStranded == worker = "done" => stopping_ /\ queue_ = <<>> /\ inflight = <<>>

(* Each request add() admitted is eventually passed to the storage, unless *)
(* an exception of the storage ends the process.                           *)
EveryAcceptedIsWritten ==
    \A n \in 1..MaxAdds :
        (Len(accepted) >= n) ~> (Len(written) >= n \/ terminated)

(* stop() returns: the notification, the drain and the join all finish,    *)
(* unless an exception of the storage ends the process.                    *)
StopReturns == (owner = "notify") ~> (owner = "stopped" \/ terminated)

(* LogWriter implements the channel of LogChannel.                         *)
Channel == INSTANCE LogChannel WITH delivered <- written, closed <- stopping_
ImplementsChannel == Channel!AbsSpec

=============================================================================
