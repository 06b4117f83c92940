---------------------------- MODULE ServerProofs ----------------------------
(***************************************************************************)
(* Proofs about Server, for any number of connections, frames and      *)
(* restarts.                                                               *)
(*                                                                         *)
(* Three invariants carry the argument.  ThreadInv ties state_ and the     *)
(* position of the owner to the service thread: what stop() establishes by *)
(* joining is what start() relies on.  ClosedInv says what is closed once  *)
(* the service thread has gone.  ConnInv follows a connection from the     *)
(* backlog through accept() into client_fd_ and out of it.                 *)
(***************************************************************************)
EXTENDS Server, TLAPS

(* The service thread runs only while thread_ is joinable; the owner is    *)
(* past the join, or the server stopped, only when it is not; inside       *)
(* stop() the state is no longer kRunning.                                 *)
ThreadInv ==
    /\ service # "none" => joinable
    /\ owner = "finish" \/ state_ = "kStopped" => ~joinable
    /\ owner # "idle" => state_ # "kRunning"
    /\ owner = "idle" => state_ # "kStopping"

(* Without a service thread nobody listens, and no connection is open; a   *)
(* stopped server has no descriptor at all.                                *)
ClosedInv ==
    /\ service = "none" => /\ "listening" \notin fds
                           /\ client_fd_ = {} /\ backlog = {}
    /\ state_ = "kStopped" => fds = {}

(* A connection is open from connect() to close(), and is in one place:    *)
(* the backlog, the hands of run() after accept(), or client_fd_.          *)
ConnInv ==
    /\ \A k \in backlog : peer[k] # "away"
    /\ \A k \in client_fd_ : peer[k] # "away" /\ k \notin backlog
    /\ service = "accepted" =>
           \A k \in serving : /\ peer[k] # "away"
                              /\ k \notin backlog /\ k \notin client_fd_
    /\ service \in {"frame", "callback"} => serving \subseteq client_fd_

IInv == TypeOK /\ ThreadInv /\ ClosedInv /\ ConnInv

-----------------------------------------------------------------------------
(* One lemma per part of IInv *)

(* close() leaves nothing unread behind.                                   *)
LEMMA CloseTypes ==
    ASSUME NEW K \in SUBSET Connections, TypeOK, Close(K)
    PROVE  /\ peer' \in [Connections -> {"away", "open", "left"}]
           /\ unread' \in [Connections -> Seq(Frames)]
  <1>1. <<>> \in Seq(Frames)
    OBVIOUS
  <1> QED
    BY <1>1 DEF TypeOK, Close

(* Every step of the owner, the service thread and the peers keeps the     *)
(* types; kStarting is never seen.                                         *)
LEMMA TypeStep == ASSUME TypeOK, [Next]_vars PROVE TypeOK'
  <1> USE ServerAssumption DEF TypeOK, Descriptors
  <1>1. CASE Start
    <2>1. starts' \in 0..MaxStarts
      BY <1>1 DEF Start
    <2> QED
      BY <1>1, <2>1, Zenon DEF Start, Started, peerVars
  <1>2. CASE StopSignal
    BY <1>2 DEF StopSignal, WakeService, peerVars
  <1>3. CASE StopCheck
    BY <1>3 DEF StopCheck, AfterSignal, serverVars, peerVars
  <1>4. CASE StopJoin
    BY <1>4 DEF StopJoin, peerVars
  <1>5. CASE StopFinish
    BY <1>5, CloseTypes DEF StopFinish
  <1>6. CASE WokenUp \/ SeesStopping \/ EpollFails
    BY <1>6 DEF WokenUp, SeesStopping, EpollFails, serverVars, peerVars
  <1>7. CASE ServiceExit
    BY <1>7, CloseTypes DEF ServiceExit, ClosedAtExit
  <1>8. ASSUME NEW k \in Connections, Accept(k) \/ Register(k) \/ CloseAccepted(k)
        PROVE  TypeOK'
    BY <1>8, CloseTypes DEF Accept, Register, CloseAccepted, serverVars, peerVars
  <1>9. ASSUME NEW k \in Connections, ReadFrame(k)
        PROVE  TypeOK'
    <2>1. unread[k] \in Seq(Frames) /\ unread[k] # <<>>
      BY <1>9 DEF ReadFrame, Pending
    <2>2. Tail(unread[k]) \in Seq(Frames)
      BY <2>1
    <2> QED
      BY <1>9, <2>2 DEF ReadFrame, serverVars
  <1>10. ASSUME NEW k \in Connections, CallBack(k) \/ CallbackReturns(k)
         PROVE  TypeOK'
    BY <1>10 DEF CallBack, CallbackReturns, serverVars, peerVars
  <1>11. ASSUME NEW k \in Connections, DropClient(k) \/ HangUp(k)
         PROVE  TypeOK'
    BY <1>11, CloseTypes DEF DropClient, HangUp, unregisterFd, Erased
  <1>12. ASSUME NEW k \in Connections, NEW f \in Frames, Send(k, f),
                UNCHANGED <<state_, serverVars, service, serving, owner, starts>>
         PROVE  TypeOK'
    <2>1. Append(unread[k], f) \in Seq(Frames)
      OBVIOUS
    <2> QED
      BY <1>12, <2>1 DEF Send, serverVars
  <1>13. ASSUME NEW k \in Connections, Connect(k) \/ Leave(k),
                UNCHANGED <<state_, serverVars, service, serving, owner, starts>>
         PROVE  TypeOK'
    BY <1>13 DEF Connect, Leave, serverVars
  <1>14. CASE UNCHANGED vars
    BY <1>14 DEF vars, serverVars, peerVars
  <1> QED
    BY <1>1, <1>2, <1>3, <1>4, <1>5, <1>6, <1>7, <1>8, <1>9, <1>10, <1>11,
       <1>12, <1>13, <1>14
    DEF Next, OwnerStep, Leaving, Event, Handling, PeerStep

(* stop() reaches its second critical section only after the join, and     *)
(* start() needs kStopped.                                                 *)
LEMMA ThreadStep == ASSUME TypeOK, ThreadInv, [Next]_vars PROVE ThreadInv'
  <1> USE DEF TypeOK, ThreadInv
  <1>1. CASE Start
    BY <1>1 DEF Start, MayStart, Started
  <1>2. CASE StopSignal
    BY <1>2 DEF StopSignal
  <1>3. CASE StopCheck
    BY <1>3 DEF StopCheck, AfterSignal, serverVars
  <1>4. CASE StopJoin \/ StopFinish
    BY <1>4 DEF StopJoin, StopFinish
  <1>5. CASE WokenUp \/ SeesStopping \/ EpollFails \/ ServiceExit
    BY <1>5 DEF WokenUp, SeesStopping, EpollFails, ServiceExit, serverVars
  <1>6. ASSUME NEW k \in Connections, Event(k) \/ Handling(k)
        PROVE  ThreadInv'
    BY <1>6 DEF Event, Handling, Accept, ReadFrame, HangUp, Register,
                CloseAccepted, CallBack, DropClient, CallbackReturns,
                unregisterFd, serverVars
  <1>7. CASE PeerStep
    BY <1>7 DEF PeerStep, serverVars
  <1>8. CASE UNCHANGED vars
    BY <1>8 DEF vars, serverVars
  <1> QED
    BY <1>1, <1>2, <1>3, <1>4, <1>5, <1>6, <1>7, <1>8
    DEF Next, OwnerStep, Leaving

(* run() closes everything on its way out, whichever way it leaves the     *)
(* loop, and nobody can connect to a listener that is closed.              *)
LEMMA ClosedStep ==
    ASSUME TypeOK, ThreadInv, ClosedInv, [Next]_vars
    PROVE  ClosedInv'
  <1> USE DEF TypeOK, ThreadInv, ClosedInv
  <1>1. CASE Start
    BY <1>1 DEF Start, Started
  <1>2. CASE StopSignal \/ StopCheck \/ StopJoin
    BY <1>2 DEF StopSignal, StopCheck, StopJoin, serverVars, peerVars
  <1>3. CASE StopFinish
    BY <1>3 DEF StopFinish
  <1>4. CASE WokenUp \/ SeesStopping \/ EpollFails
    BY <1>4 DEF WokenUp, SeesStopping, EpollFails, serverVars, peerVars
  <1>5. CASE ServiceExit
    BY <1>5 DEF ServiceExit, ClosedAtExit
  <1>6. ASSUME NEW k \in Connections, Event(k) \/ Handling(k)
        PROVE  ClosedInv'
    BY <1>6 DEF Event, Handling, Accept, ReadFrame, HangUp, Register,
                CloseAccepted, CallBack, DropClient, CallbackReturns,
                unregisterFd, serverVars
  <1>7. CASE PeerStep
    BY <1>7 DEF PeerStep, Connect, Send, Leave, serverVars
  <1>8. CASE UNCHANGED vars
    BY <1>8 DEF vars, serverVars, peerVars
  <1> QED
    BY <1>1, <1>2, <1>3, <1>4, <1>5, <1>6, <1>7, <1>8
    DEF Next, OwnerStep, Leaving

(* A connection changes places without being in two of them, and is closed *)
(* only together with its entry.                                           *)
LEMMA ConnStep ==
    ASSUME TypeOK, ThreadInv, ClosedInv, ConnInv, [Next]_vars
    PROVE  ConnInv'
  <1> USE DEF TypeOK, ConnInv
  <1>1. CASE Start
    BY <1>1 DEF Start, peerVars
  <1>2. CASE StopSignal \/ StopCheck \/ StopJoin
    BY <1>2 DEF StopSignal, StopCheck, StopJoin, serverVars, peerVars
  <1>3. CASE StopFinish
    BY <1>3 DEF StopFinish, ThreadInv
  <1>4. CASE WokenUp \/ SeesStopping \/ EpollFails
    BY <1>4 DEF WokenUp, SeesStopping, EpollFails, serverVars, peerVars
  <1>5. CASE ServiceExit
    BY <1>5 DEF ServiceExit, ClosedAtExit
  <1>6. ASSUME NEW k \in Connections, Accept(k) PROVE ConnInv'
    BY <1>6 DEF Accept, serverVars
  <1>7. ASSUME NEW k \in Connections, Register(k) PROVE ConnInv'
    BY <1>7 DEF Register, peerVars
  <1>8. ASSUME NEW k \in Connections, CloseAccepted(k) PROVE ConnInv'
    BY <1>8 DEF CloseAccepted, Close, serverVars
  <1>9. ASSUME NEW k \in Connections, ReadFrame(k) PROVE ConnInv'
    BY <1>9 DEF ReadFrame, serverVars
  <1>10. ASSUME NEW k \in Connections, CallBack(k) \/ CallbackReturns(k)
         PROVE  ConnInv'
    BY <1>10 DEF CallBack, CallbackReturns, serverVars, peerVars
  <1>11. ASSUME NEW k \in Connections, DropClient(k) \/ HangUp(k) PROVE ConnInv'
    BY <1>11 DEF DropClient, HangUp, unregisterFd, Erased, Close
  <1>12. ASSUME NEW k \in Connections, Connect(k),
                UNCHANGED <<state_, serverVars, service, serving, owner, starts>>
         PROVE  ConnInv'
    BY <1>12 DEF Connect, serverVars
  <1>13. ASSUME NEW k \in Connections, Leave(k) \/ \E f \in Frames : Send(k, f),
                UNCHANGED <<state_, serverVars, service, serving, owner, starts>>
         PROVE  ConnInv'
    BY <1>13 DEF Send, Leave, serverVars
  <1>14. CASE UNCHANGED vars
    BY <1>14 DEF vars, serverVars, peerVars
  <1> QED
    BY <1>1, <1>2, <1>3, <1>4, <1>5, <1>6, <1>7, <1>8, <1>9, <1>10, <1>11,
       <1>12, <1>13, <1>14
    DEF Next, OwnerStep, Leaving, Event, Handling, PeerStep

-----------------------------------------------------------------------------
(* Theorems *)

(* IInv holds initially and is preserved by start(), stop(), run() and the *)
(* peers.                                                                  *)
THEOREM Inductive == Spec => []IInv
  <1>1. Init => IInv
    <2> SUFFICES ASSUME Init PROVE IInv
      OBVIOUS
    <2>1. 0 \in 0..MaxStarts
      BY ServerAssumption
    <2>2. unread \in [Connections -> Seq(Frames)]
      BY DEF Init
    <2>3. TypeOK
      BY <2>1, <2>2, Zenon DEF Init, TypeOK, Descriptors
    <2> QED
      BY <2>3 DEF Init, IInv, ThreadInv, ClosedInv, ConnInv
  <1>2. IInv /\ [Next]_vars => IInv'
    BY TypeStep, ThreadStep, ClosedStep, ConnStep DEF IInv
  <1> QED
    BY <1>1, <1>2, PTL DEF Spec

(* The state of the server and of its peers keeps its type.                *)
THEOREM ServerTypeCorrect == Spec => []TypeOK
  BY Inductive, PTL DEF IInv

(* Once stop() has returned, no callback runs until the next start().      *)
THEOREM CallbackCorrect == Spec => []NoCallbackAfterStop
  <1>1. IInv => NoCallbackAfterStop
    BY DEF IInv, ThreadInv, NoCallbackAfterStop
  <1> QED
    BY <1>1, Inductive, PTL

(* client_fd_ lists open, accepted connections only, so that no descriptor *)
(* is closed twice by run() and stop().                                    *)
THEOREM DescriptorsCorrect == Spec => []ListedIsOpen
  <1>1. IInv => ListedIsOpen
    BY DEF IInv, ConnInv, ListedIsOpen
  <1> QED
    BY <1>1, Inductive, PTL

(* However run() ends, it leaves no connection that nobody reads.          *)
THEOREM ClientsCorrect == Spec => []NoOrphanClients
  <1>1. IInv => NoOrphanClients
    BY DEF IInv, ClosedInv, NoOrphanClients
  <1> QED
    BY <1>1, Inductive, PTL

(* start() succeeds only with the previous thread joined and every         *)
(* descriptor closed.                                                      *)
THEOREM RestartCorrect == Spec => RestartIsClean
  <1>1. ASSUME IInv, [Next]_vars
        PROVE  [starts' # starts => /\ service = "none" /\ ~joinable
                                    /\ fds = {} /\ client_fd_ = {}]_vars
    <2>1. CASE Start
      BY <1>1, <2>1 DEF IInv, ThreadInv, ClosedInv, Start, MayStart
    <2>2. CASE ~Start
      <3>1. starts' = starts
        BY <1>1, <2>2
        DEF Next, OwnerStep, Leaving, Event, Handling, PeerStep, vars,
            StopSignal, StopCheck, StopJoin, StopFinish, WokenUp, SeesStopping,
            EpollFails, ServiceExit, Accept, Register, CloseAccepted, ReadFrame,
            CallBack, CallbackReturns, DropClient, HangUp, unregisterFd
      <3> QED
        BY <3>1
    <2> QED
      BY <2>1, <2>2
  <1> QED
    BY <1>1, Inductive, PTL DEF Spec, RestartIsClean

=============================================================================
