------------------------------- MODULE Server -------------------------------
(***************************************************************************)
(* libs/tcp_server/tcp_server.{h,cpp}: the life cycle of the TCP endpoint  *)
(* (start() and stop() by its owner) against the service thread that       *)
(* accepts clients, reads frames and runs the callback.                    *)
(*                                                                         *)
(* start() runs entirely under lifecycle_mutex_ and is one step.  stop()   *)
(* holds the mutex twice, with the join in between.  The service thread    *)
(* takes no lock the owner holds: each stretch between two reads of state_ *)
(* is a step.  One owner calls start() and stop(), as everywhere in the    *)
(* repository (docs/public-api.md: one object is not thread-safe).         *)
(***************************************************************************)
EXTENDS Naturals, Sequences, FiniteSets

CONSTANTS Connections,  \* connections that peers may make, one slot each
          Frames,       \* what a peer sends
          MaxStarts,    \* bound: successful calls of start()
          MaxUnread     \* bound: frames waiting on one connection

ASSUME ServerAssumption == MaxStarts \in Nat /\ MaxUnread \in Nat

VARIABLES
    state_,       \* the atomic life-cycle state
    fds,          \* which of the descriptors of start() are open
    client_fd_,   \* accepted connections
    signalled,    \* the eventfd is readable
    joinable,     \* thread_.joinable()
    service,      \* control state of run(); "none" when it is not running
    serving,      \* the connection whose event is being handled, as a set
    owner,        \* control state of the owner
    backlog,      \* connections not accepted yet
    peer,         \* the peer's end of each connection
    unread,       \* frames on each connection that were not read yet
    starts        \* successful calls of start()

serverVars == <<fds, client_fd_, signalled, joinable>>
peerVars == <<backlog, peer, unread>>
vars == <<state_, serverVars, service, serving, owner, peerVars, starts>>

Descriptors == {"epoll", "wakeup", "listening"}

\* kStarting is only ever visible with lifecycle_mutex_ held.
TypeOK ==
    /\ state_ \in {"kStopped", "kRunning", "kStopping"}
    /\ fds \subseteq Descriptors
    /\ client_fd_ \subseteq Connections
    /\ signalled \in BOOLEAN /\ joinable \in BOOLEAN
    /\ service \in {"none", "wait", "accepted", "frame", "callback", "closing"}
    /\ serving \in SUBSET Connections
    /\ owner \in {"idle", "join?", "joining", "finish"}
    /\ backlog \subseteq Connections
    /\ peer \in [Connections -> {"away", "open", "left"}]
    /\ unread \in [Connections -> Seq(Frames)]
    /\ starts \in 0..MaxStarts

Init ==
    /\ state_ = "kStopped"
    /\ fds = {}
    /\ client_fd_ = {}
    /\ signalled = FALSE /\ joinable = FALSE
    /\ service = "none" /\ serving = {}
    /\ owner = "idle"
    /\ backlog = {}
    /\ peer = [k \in Connections |-> "away"]
    /\ unread = [k \in Connections |-> <<>>]
    /\ starts = 0

\* close() on the server's side: what was not read is lost with it.
Close(S) ==
    /\ peer' = [k \in Connections |-> IF k \in S THEN "away" ELSE peer[k]]
    /\ unread' = [k \in Connections |-> IF k \in S THEN <<>> ELSE unread[k]]

-----------------------------------------------------------------------------
(* start() *)

\* Refused unless stopped; a failure releases what was created and leaves
\* the state as it was, so only success is a step.
StartedTwice == TRUE                        \* mutant: state_ is not looked at
MayStart == state_ = "kStopped"

LeftStarting == "kStarting"                 \* mutant: kRunning is not stored
Started == "kRunning"

Start ==
    /\ owner = "idle"
    /\ MayStart
    /\ starts < MaxStarts
    /\ state_' = Started
    /\ fds' = Descriptors
    /\ signalled' = FALSE
    /\ joinable' = TRUE
    /\ service' = "wait"
    /\ starts' = starts + 1
    /\ UNCHANGED <<client_fd_, serving, owner, peerVars>>

-----------------------------------------------------------------------------
(* stop() *)

\* The first critical section.
NoWakeup == UNCHANGED signalled             \* mutant: the eventfd is not written
WakeService == signalled' = TRUE

StopSignal ==
    /\ owner = "idle"
    /\ \/ /\ state_ = "kRunning"
          /\ state_' = "kStopping"
          /\ WakeService
       \/ /\ state_ = "kStopped"
          /\ UNCHANGED <<state_, signalled>>
    /\ owner' = "join?"
    /\ UNCHANGED <<fds, client_fd_, joinable, service, serving, peerVars,
                   starts>>

\* thread_.joinable()
NeverJoins == "finish"                      \* mutant: thread_.join() is missing
AfterSignal == IF joinable THEN "joining" ELSE "finish"

StopCheck ==
    /\ owner = "join?"
    /\ owner' = AfterSignal
    /\ UNCHANGED <<state_, serverVars, service, serving, peerVars, starts>>

\* thread_.join()
StopJoin ==
    /\ owner = "joining"
    /\ service = "none"
    /\ joinable' = FALSE
    /\ owner' = "finish"
    /\ UNCHANGED <<state_, fds, client_fd_, signalled, service, serving,
                   peerVars, starts>>

\* The second critical section: closeStartupDescriptors(), then kStopped.
StopFinish ==
    /\ owner = "finish"
    /\ fds' = {}
    /\ client_fd_' = {}
    /\ backlog' = {}
    /\ Close(client_fd_ \cup backlog)
    /\ signalled' = FALSE
    /\ state_' = "kStopped"
    /\ owner' = "idle"
    /\ UNCHANGED <<joinable, service, serving, starts>>

-----------------------------------------------------------------------------
(* run(): the loop *)

\* The event of the eventfd.
WokenUp ==
    /\ service = "wait" /\ signalled
    /\ signalled' = FALSE
    /\ service' = "closing"
    /\ UNCHANGED <<state_, fds, client_fd_, joinable, serving, owner, peerVars,
                   starts>>

\* EPOLLIN.
Pending(k) == unread[k] # <<>>

\* Any other event, read after the state has changed.
SeesStopping ==
    /\ service = "wait"
    /\ state_ # "kRunning"
    /\ backlog # {} \/ \E k \in client_fd_ : Pending(k) \/ peer[k] = "left"
    /\ service' = "closing"
    /\ UNCHANGED <<state_, serverVars, serving, owner, peerVars, starts>>

\* epoll_wait() fails with anything but EINTR, or an exception is caught.
EpollFails ==
    /\ service = "wait"
    /\ service' = "closing"
    /\ UNCHANGED <<state_, serverVars, serving, owner, peerVars, starts>>

\* After the loop every client and the listener are closed.
KeepsClients == {}                          \* mutant: closeClientFds() is missing
ClosedAtExit == client_fd_

ServiceExit ==
    /\ service = "closing"
    /\ client_fd_' = client_fd_ \ ClosedAtExit
    /\ fds' = fds \ {"listening"}
    /\ backlog' = {}
    /\ Close(ClosedAtExit \cup backlog)
    /\ service' = "none"
    /\ UNCHANGED <<state_, signalled, joinable, serving, owner, starts>>

-----------------------------------------------------------------------------
(* run(): a new client *)

\* accept(); state_ is read again before the client is registered.
Accept(k) ==
    /\ service = "wait" /\ state_ = "kRunning"
    /\ k \in backlog
    /\ backlog' = backlog \ {k}
    /\ service' = "accepted" /\ serving' = {k}
    /\ UNCHANGED <<state_, serverVars, owner, peer, unread, starts>>

Register(k) ==
    /\ service = "accepted" /\ serving = {k}
    /\ state_ = "kRunning"
    /\ client_fd_' = client_fd_ \cup {k}
    /\ service' = "wait" /\ serving' = {}
    /\ UNCHANGED <<state_, fds, signalled, joinable, owner, peerVars, starts>>

\* The state changed meanwhile, or registerFd() failed.
CloseAccepted(k) ==
    /\ service = "accepted" /\ serving = {k}
    /\ Close({k})
    /\ service' = "wait" /\ serving' = {}
    /\ UNCHANGED <<state_, serverVars, owner, backlog, starts>>

-----------------------------------------------------------------------------
(* run(): an event of a client.  EPOLLIN is looked at first; a peer that   *)
(* left raises it too once its last frame has been read.                   *)

HangupFirst(k) == peer[k] = "left"          \* mutant: EPOLLRDHUP is looked at
                                            \* before EPOLLIN
NothingToRead(k) == peer[k] = "left" /\ ~Pending(k)

\* handleLogRequest() reads one frame; what is behind it waits for the next
\* turn of the loop.
ReadFrame(k) ==
    /\ service = "wait" /\ state_ = "kRunning"
    /\ k \in client_fd_ /\ Pending(k) /\ ~NothingToRead(k)
    /\ unread' = [unread EXCEPT ![k] = Tail(@)]
    /\ service' = "frame" /\ serving' = {k}
    /\ UNCHANGED <<state_, serverVars, owner, backlog, peer, starts>>

\* state_ is read twice more before the callback; the second read decides.
CallBack(k) ==
    /\ service = "frame" /\ serving = {k}
    /\ state_ = "kRunning"
    /\ service' = "callback"
    /\ UNCHANGED <<state_, serverVars, serving, owner, peerVars, starts>>

\* The callback returns; whether a response was sent, and how that went, is
\* ignored by the loop.
CallbackReturns(k) ==
    /\ service = "callback" /\ serving = {k}
    /\ service' = "wait" /\ serving' = {}
    /\ UNCHANGED <<state_, serverVars, owner, peerVars, starts>>

\* unregisterFd()
LeavesRegistered(k) == client_fd_           \* mutant: erase() is missing
Erased(k) == client_fd_ \ {k}

unregisterFd(k) ==
    /\ client_fd_' = Erased(k)
    /\ Close({k})
    /\ service' = "wait" /\ serving' = {}
    /\ UNCHANGED <<state_, fds, signalled, joinable, owner, backlog, starts>>

\* handleLogRequest() returns false: the frame is not all there, the server
\* is stopping, or the callback threw.
DropClient(k) ==
    /\ service \in {"frame", "callback"} /\ serving = {k}
    /\ unregisterFd(k)

\* The peer has left and nothing is to be read, or EPOLLERR.
HangUp(k) ==
    /\ service = "wait" /\ state_ = "kRunning"
    /\ k \in client_fd_ /\ NothingToRead(k)
    /\ unregisterFd(k)

-----------------------------------------------------------------------------
(* Peers (external).  A peer sends without waiting for an answer, and may  *)
(* open another connection while the server still has to read this one.    *)

Connect(k) ==
    /\ peer[k] = "away" /\ "listening" \in fds
    /\ peer' = [peer EXCEPT ![k] = "open"]
    /\ backlog' = backlog \cup {k}
    /\ UNCHANGED unread

Send(k, f) ==
    /\ peer[k] = "open" /\ Len(unread[k]) < MaxUnread
    /\ unread' = [unread EXCEPT ![k] = Append(@, f)]
    /\ UNCHANGED <<backlog, peer>>

Leave(k) ==
    /\ peer[k] = "open"
    /\ peer' = [peer EXCEPT ![k] = "left"]
    /\ UNCHANGED <<backlog, unread>>

PeerStep == /\ \E k \in Connections : \/ Connect(k) \/ Leave(k)
                                       \/ \E f \in Frames : Send(k, f)
            /\ UNCHANGED <<state_, serverVars, service, serving, owner, starts>>

-----------------------------------------------------------------------------

\* What the loop does about one ready descriptor, and how it carries on.
Event(k) == Accept(k) \/ ReadFrame(k) \/ HangUp(k)
Handling(k) == \/ Register(k) \/ CloseAccepted(k) \/ CallBack(k)
               \/ DropClient(k) \/ CallbackReturns(k)
Leaving == WokenUp \/ SeesStopping \/ ServiceExit
OwnerStep == StopCheck \/ StopJoin \/ StopFinish

Next ==
    \/ Start \/ StopSignal \/ OwnerStep
    \/ Leaving \/ EpollFails
    \/ \E k \in Connections : Event(k) \/ Handling(k)
    \/ PeerStep

Spec == Init /\ [][Next]_vars

(***************************************************************************)
(* Fairness.  The owner's thread and the service thread are scheduled, and *)
(* a callback returns (weak).  One epoll_wait() reports every ready        *)
(* descriptor, so no client is passed over for good (strong).              *)
(***************************************************************************)
FairSpec == /\ Spec
            /\ WF_vars(OwnerStep)
            /\ WF_vars(Leaving)
            /\ \A k \in Connections : WF_vars(Handling(k)) /\ SF_vars(Event(k))

-----------------------------------------------------------------------------
(* Properties *)

\* No callback runs once stop() has returned, whatever the client was doing
\* when it was called (lifecycle_test.cpp; the join in stop()).
NoCallbackAfterStop == service = "callback" => state_ # "kStopped"

\* An admitted start() finds no thread to overwrite (assigning to a joinable
\* std::thread terminates the process) and no descriptor to leak, also when
\* the service thread had ended by itself.
RestartIsClean ==
    [][starts' # starts => /\ service = "none" /\ ~joinable
                           /\ fds = {} /\ client_fd_ = {}]_vars

\* A descriptor in client_fd_ is an open connection, accepted and not yet
\* closed: closing a listed one twice would close a stranger's descriptor.
ListedIsOpen == \A k \in client_fd_ : peer[k] # "away" /\ k \notin backlog

\* A service thread that has ended, for whatever reason, leaves no client
\* waiting on a connection nobody reads.
NoOrphanClients == service = "none" => client_fd_ = {} /\ backlog = {}

\* stop() returns: the eventfd reaches a service thread that sleeps without
\* a timeout (kEpollTimeout is -1).
StopReturns == owner = "join?" ~> owner = "idle"

\* A frame on an accepted client's connection is picked up even if the peer
\* closes right after sending it, as long as the server runs.  (A frame sent
\* behind one whose handling fails goes down with the connection.)
FrameIsHandled ==
    \A k \in Connections :
        k \in client_fd_ /\ Pending(k)
            ~> \/ serving = {k}
               \/ state_ # "kRunning" \/ service \in {"closing", "none"}

=============================================================================
