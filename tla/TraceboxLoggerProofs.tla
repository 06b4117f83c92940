------------------------ MODULE TraceboxLoggerProofs ------------------------
(***************************************************************************)
(* Proofs about TraceboxLogger, for any number of clients, connections and *)
(* frames.                                                                 *)
(*                                                                         *)
(* Every step of the logger is a step of its server and a step of its      *)
(* writer (or leaves one of them alone), so the invariants of the two are  *)
(* taken over from their own proofs.  What is added is the order in which  *)
(* the destructors run (PhaseInv), what the callback holds (CallInv), and  *)
(* how far the frames of each connection have come (OrderInv).             *)
(***************************************************************************)
EXTENDS TraceboxLogger, TLAPS

SP == INSTANCE ServerProofs WITH MaxStarts <- 1, MaxUnread <- MaxFrames
WP == INSTANCE LogWriterProofs
          WITH Producers <- {serviceThread}, Requests <- Frames,
               MaxAdds <- MaxFrames, owner <- closer

-----------------------------------------------------------------------------
(* The invariant *)

(* Until server_ has been destroyed writer_ admits requests; from then on  *)
(* the server is stopped for good.                                         *)
PhaseInv ==
    /\ phase \in {"constructor", "alive"} => owner = "idle"
    /\ phase \in {"stop", "~Server"} /\ owner = "idle" => state_ = "kStopped"
    /\ phase \in {"~LogWriter", "gone"} => owner = "idle" /\ state_ = "kStopped"
    /\ phase \notin {"~LogWriter", "gone"} => ~stopping_
    /\ phase = "gone" => closer = "stopped"

(* A callback is under way exactly while the service thread is in it, with *)
(* the frame it was called for.                                            *)
CallInv ==
    /\ call # "none" <=> service = "callback"
    /\ service \in {"frame", "callback"} => current \in Frames

(* The frames of a connection stand in a line: those handed over, the one  *)
(* in hand, those still unread.  Their numbers increase along the line and *)
(* none is past the last frame sent.                                       *)
Line(h, hand, u, s) ==
    /\ \A i, j \in DOMAIN h : i < j /\ h[i][3] = h[j][3] => h[i][2] < h[j][2]
    /\ \A k \in Connections : \A a, b \in DOMAIN u[k] :
           a < b => u[k][a][2] < u[k][b][2]
    /\ \A k \in Connections : \A a \in DOMAIN u[k] :
           u[k][a][3] = k /\ u[k][a][2] <= s
    /\ \A i \in DOMAIN h :
           /\ h[i][2] <= s
           /\ \A a \in DOMAIN u[h[i][3]] : h[i][2] < u[h[i][3]][a][2]
    /\ \A f \in hand :
           /\ f[2] <= s
           /\ \A i \in DOMAIN h : h[i][3] = f[3] => h[i][2] < f[2]
           /\ \A a \in DOMAIN u[f[3]] : f[2] < u[f[3]][a][2]

InHand == IF service = "frame" \/ call = "begun" THEN {current} ELSE {}

OrderInv == Line(handed, InHand, unread, sent)

HandedInv == accepted = handed

ClientTypeOK ==
    /\ fd_ \in [Clients -> Connections \cup {none}]
    /\ sent \in 0..MaxFrames

LoggerTypeOK ==
    /\ ClientTypeOK
    /\ phase \in {"constructor", "alive", "stop", "~Server", "~LogWriter", "gone"}
    /\ call \in {"none", "begun", "handed"}
    /\ current \in Frames \cup {<<>>}
    /\ handed \in Seq(Frames)

IInv == LoggerTypeOK /\ PhaseInv /\ CallInv /\ OrderInv /\ HandedInv

-----------------------------------------------------------------------------
(* The steps of the components *)

(* The instances of the proofs speak of the same actions as those of the   *)
(* logger: the owner's side of the server and the end of its loop,         *)
LEMMA SameOwner ==
    /\ S!Start <=> SP!Start
    /\ S!StopSignal <=> SP!StopSignal
    /\ S!OwnerStep <=> SP!OwnerStep
    /\ S!Init <=> SP!Init
    /\ S!Leaving <=> SP!Leaving
    /\ S!EpollFails <=> SP!EpollFails
    /\ S!TypeOK <=> SP!TypeOK
  BY DEF S!Start, SP!Start, S!MayStart, SP!MayStart, S!Started, SP!Started,
         S!Descriptors, SP!Descriptors, S!peerVars, SP!peerVars,
         S!StopSignal, SP!StopSignal, S!WakeService, SP!WakeService,
         S!OwnerStep, SP!OwnerStep, S!StopCheck, SP!StopCheck,
         S!StopJoin, SP!StopJoin, S!StopFinish, SP!StopFinish,
         S!AfterSignal, SP!AfterSignal, S!serverVars, SP!serverVars,
         S!Close, SP!Close, S!Init, SP!Init, S!TypeOK, SP!TypeOK,
         S!Leaving, SP!Leaving, S!WokenUp, SP!WokenUp,
         S!SeesStopping, SP!SeesStopping, S!Pending, SP!Pending, S!ServiceExit, SP!ServiceExit,
         S!ClosedAtExit, SP!ClosedAtExit, S!EpollFails, SP!EpollFails

(* its service thread,                                                     *)
LEMMA SameService ==
    ASSUME NEW k \in Connections
    PROVE  /\ S!Accept(k) <=> SP!Accept(k)
           /\ S!Register(k) <=> SP!Register(k)
           /\ S!CloseAccepted(k) <=> SP!CloseAccepted(k)
           /\ S!ReadFrame(k) <=> SP!ReadFrame(k)
           /\ S!CallBack(k) <=> SP!CallBack(k)
           /\ S!CallbackReturns(k) <=> SP!CallbackReturns(k)
           /\ S!DropClient(k) <=> SP!DropClient(k)
           /\ S!HangUp(k) <=> SP!HangUp(k)
  BY DEF S!Accept, SP!Accept, S!Register, SP!Register,
         S!CloseAccepted, SP!CloseAccepted, S!ReadFrame, SP!ReadFrame,
         S!Pending, SP!Pending, S!NothingToRead, SP!NothingToRead,
         S!CallBack, SP!CallBack, S!CallbackReturns, SP!CallbackReturns,
         S!DropClient, SP!DropClient, S!HangUp, SP!HangUp,
         S!unregisterFd, SP!unregisterFd, S!Erased, SP!Erased,
         S!Close, SP!Close, S!serverVars, SP!serverVars,
         S!peerVars, SP!peerVars

(* its peers,                                                              *)
LEMMA SamePeers ==
    ASSUME NEW k \in Connections
    PROVE  /\ S!Connect(k) <=> SP!Connect(k)
           /\ \A f \in Frames : S!Send(k, f) <=> SP!Send(k, f)
           /\ S!Leave(k) <=> SP!Leave(k)
  BY DEF S!Connect, SP!Connect, S!Send, SP!Send, S!Leave, SP!Leave

(* and the writer.                                                         *)
LEMMA SameWriter ==
    /\ \A p \in {serviceThread}, r \in Frames : W!Add(p, r) <=> WP!Add(p, r)
    /\ \A p \in {serviceThread} : W!AddNotify(p) <=> WP!AddNotify(p)
    /\ W!WorkerStep <=> WP!WorkerStep
    /\ W!SpuriousWakeup <=> WP!SpuriousWakeup
    /\ W!WriteThrows <=> WP!WriteThrows
    /\ W!Stop <=> WP!Stop
    /\ W!StopNotify <=> WP!StopNotify
    /\ W!Join <=> WP!Join
    /\ W!Init <=> WP!Init
    /\ W!TypeOK <=> WP!TypeOK
  BY DEF W!Add, WP!Add, W!Admits, WP!Admits, W!AddNotify, WP!AddNotify,
         W!Notify, WP!Notify, W!WorkerStep, WP!WorkerStep, W!Block, WP!Block,
         W!Take, WP!Take, W!Front, WP!Front, W!Rest, WP!Rest, W!Exit, WP!Exit,
         W!Finished, WP!Finished, W!WakeCondition, WP!WakeCondition,
         W!Write, WP!Write, W!SpuriousWakeup, WP!SpuriousWakeup,
         W!WriteThrows, WP!WriteThrows, W!Stop, WP!Stop,
         W!StopNotify, WP!StopNotify, W!Join, WP!Join, W!Init, WP!Init,
         W!TypeOK, WP!TypeOK, W!WorkerStates, WP!WorkerStates,
         W!OwnerStates, WP!OwnerStates

(* A client that holds a connection sends frames over it.                  *)
LEMMA ClientConnection ==
    ASSUME ClientTypeOK, NEW c \in Clients, fd_[c] # none
    PROVE  /\ fd_[c] \in Connections
           /\ sent < MaxFrames => <<c, sent + 1, fd_[c]>> \in Frames
  <1>1. fd_[c] \in Connections
    BY DEF ClientTypeOK
  <1>2. sent < MaxFrames => sent + 1 \in 1..MaxFrames
    BY LoggerAssumption DEF ClientTypeOK
  <1> QED
    BY <1>1, <1>2 DEF Frames

(* A step of the logger is a step of its server, or does not concern it.   *)
LEMMA ServerSteps == ASSUME ClientTypeOK, [Next]_vars PROVE [SP!Next]_(SP!vars)
  <1> USE DEF server_, SP!vars, SP!serverVars, SP!peerVars
  <1>1. CASE Construct
    BY <1>1, SameOwner DEF Construct, SP!Next
  <1>2. CASE Destroy
    BY <1>2, SameOwner DEF Destroy, SP!Next
  <1>3. CASE OwnerStep
    BY <1>3, SameOwner DEF OwnerStep, ServerStops, DestroyWriter, WriterStops, SP!Next
  <1>4. ASSUME NEW k \in Connections,
               ReadFrame(k) \/ CallBack(k) \/ CallbackReturns(k) \/ DropClient(k)
        PROVE  [SP!Next]_(SP!vars)
    BY <1>4, SameService
    DEF ReadFrame, CallBack, CallbackReturns, DropClient, SP!Next, SP!Event,
        SP!Handling
  <1>5. ASSUME NEW k \in Connections, Admission(k) \/ Elsewhere(k)
        PROVE  [SP!Next]_(SP!vars)
    BY <1>5, SameService
    DEF Admission, Elsewhere, SP!Next, SP!Event, SP!Handling
  <1>6. CASE handleLogRequest \/ AddNotify
    BY <1>6 DEF handleLogRequest, AddNotify
  <1>7. CASE Leaving
    BY <1>7, SameOwner DEF Leaving, SP!Next
  <1>8. CASE WorkerStep \/ WorkerSurprise
    BY <1>8 DEF WorkerStep, WorkerSurprise
  <1>9. CASE ClientStep
    <2>1. ASSUME NEW c \in Clients, disconnect(c) PROVE [SP!Next]_(SP!vars)
      <3>1. fd_[c] \in Connections
        BY <2>1, ClientConnection DEF disconnect
      <3> QED
        BY <2>1, <3>1, SamePeers
        DEF disconnect, serverSide, SP!Next, SP!PeerStep
    <2>2. ASSUME NEW c \in Clients, NEW k \in Connections, connect(c, k)
          PROVE  [SP!Next]_(SP!vars)
      BY <2>2, SamePeers DEF connect, serverSide, SP!Next, SP!PeerStep
    <2>3. ASSUME NEW c \in Clients, logData(c) PROVE [SP!Next]_(SP!vars)
      <3> DEFINE k == fd_[c]
                 f == <<c, sent + 1, fd_[c]>>
      <3>1. k \in Connections /\ f \in Frames
        BY <2>3, ClientConnection DEF logData
      <3>2. S!Send(k, f) \/ UNCHANGED <<backlog, peer, unread>>
        BY <2>3 DEF logData
      <3>3. UNCHANGED serverSide
        BY <2>3 DEF logData
      <3> HIDE DEF k, f
      <3>4. SP!Send(k, f) \/ UNCHANGED <<backlog, peer, unread>>
        BY <3>1, <3>2, SamePeers
      <3> QED
        BY <3>1, <3>3, <3>4 DEF serverSide, SP!Next, SP!PeerStep
    <2> QED
      BY <1>9, <2>1, <2>2, <2>3 DEF ClientStep
  <1>10. CASE UNCHANGED vars
    BY <1>10 DEF vars
  <1>11. CASE S!EpollFails
    BY <1>11, SameOwner DEF SP!Next
  <1> QED
    BY <1>1, <1>2, <1>3, <1>4, <1>5, <1>6, <1>7, <1>8, <1>9, <1>10, <1>11
    DEF Next, ServiceStep, Handling

(* A step of the logger is a step of its writer, or does not concern it.   *)
LEMMA WriterSteps == ASSUME CallInv, [Next]_vars PROVE [WP!Next]_(WP!vars)
  <1> USE DEF writer_, WP!vars
  <1>1. CASE Construct \/ Destroy
    BY <1>1 DEF Construct, Destroy
  <1>2. CASE OwnerStep
    BY <1>2, SameWriter DEF OwnerStep, ServerStops, DestroyWriter, WriterStops, WP!Next
  <1>3. ASSUME NEW k \in Connections,
               ReadFrame(k) \/ CallBack(k) \/ CallbackReturns(k) \/ DropClient(k)
        PROVE  [WP!Next]_(WP!vars)
    BY <1>3 DEF ReadFrame, CallBack, CallbackReturns, DropClient
  <1>4. CASE handleLogRequest
    <2>1. CASE UNCHANGED writer_
      BY <2>1
    <2>2. CASE W!Add(serviceThread, current)
      <3>1. current \in Frames
        BY <1>4 DEF handleLogRequest, CallInv
      <3> QED
        BY <2>2, <3>1, SameWriter DEF WP!Next
    <2> QED
      BY <1>4, <2>1, <2>2 DEF handleLogRequest
  <1>5. CASE AddNotify
    BY <1>5, SameWriter DEF AddNotify, WP!Next
  <1>6. CASE WorkerStep \/ WorkerSurprise
    BY <1>6, SameWriter DEF WorkerStep, WorkerSurprise, WP!Next
  <1>7. CASE ClientStep
    BY <1>7 DEF ClientStep, disconnect, connect, logData
  <1>8. CASE UNCHANGED writer_
    BY <1>8
  <1> QED
    BY <1>1, <1>2, <1>3, <1>4, <1>5, <1>6, <1>7, <1>8
    DEF Next, ServiceStep, Handling, Leaving, vars

-----------------------------------------------------------------------------
(* One lemma per part of IInv *)

(* Clients hold connections they made and number what they send.           *)
LEMMA ClientTypeStep == ASSUME ClientTypeOK, [Next]_vars PROVE ClientTypeOK'
  <1> USE LoggerAssumption DEF ClientTypeOK
  <1>1. ASSUME NEW c \in Clients, disconnect(c) \/ logData(c)
        PROVE  ClientTypeOK'
    BY <1>1 DEF disconnect, logData
  <1>2. ASSUME NEW c \in Clients, NEW k \in Connections, connect(c, k)
        PROVE  ClientTypeOK'
    BY <1>2 DEF connect
  <1>3. CASE UNCHANGED clientVars
    BY <1>3 DEF clientVars
  <1> QED
    BY <1>1, <1>2, <1>3
    DEF Next, Construct, Destroy, OwnerStep, ServerStops, DestroyWriter,
        WriterStops, ServiceStep, Handling, ReadFrame, CallBack, CallbackReturns,
        DropClient, handleLogRequest, Leaving, AddNotify, WorkerStep,
        WorkerSurprise, ClientStep, loggerVars, vars

(* What is read from a connection is a frame.                              *)
LEMMA ReadIsFrame ==
    ASSUME NEW k \in Connections, ReadFrame(k), SP!TypeOK
    PROVE  /\ unread \in [Connections -> Seq(Frames)] /\ unread[k] # <<>>
           /\ Head(unread[k]) \in Frames
           /\ unread' = [unread EXCEPT ![k] = Tail(unread[k])]
  <1>1. unread \in [Connections -> Seq(Frames)]
    BY DEF SP!TypeOK
  <1>2. unread[k] # <<>>
    BY DEF ReadFrame, S!ReadFrame, S!Pending
  <1>3. unread' = [unread EXCEPT ![k] = Tail(unread[k])]
    BY DEF ReadFrame, S!ReadFrame
  <1> QED
    BY <1>1, <1>2, <1>3

(* Only the callback, ReadFrame and the clients touch what the logger adds. *)
LEMMA LoggerTypeStep ==
    ASSUME LoggerTypeOK, CallInv, SP!TypeOK, [Next]_vars
    PROVE  LoggerTypeOK'
  <1> USE DEF LoggerTypeOK, loggerVars
  <1>0. ClientTypeOK'
    BY ClientTypeStep
  <1>1. CASE Construct \/ Destroy
    BY <1>0, <1>1 DEF Construct, Destroy
  <1>2. CASE OwnerStep
    BY <1>0, <1>2 DEF OwnerStep, ServerStops, DestroyWriter, WriterStops
  <1>3. ASSUME NEW k \in Connections, ReadFrame(k) PROVE LoggerTypeOK'
    <2>1. current' \in Frames
      BY <1>3, ReadIsFrame DEF ReadFrame
    <2> QED
      BY <1>0, <1>3, <2>1 DEF ReadFrame
  <1>4. ASSUME NEW k \in Connections,
               CallBack(k) \/ CallbackReturns(k) \/ DropClient(k)
        PROVE  LoggerTypeOK'
    BY <1>0, <1>4 DEF CallBack, CallbackReturns, DropClient
  <1>5. CASE handleLogRequest
    <2>1. current \in Frames
      BY <1>5 DEF handleLogRequest, CallInv
    <2> QED
      BY <1>0, <1>5, <2>1 DEF handleLogRequest
  <1>6. CASE ClientStep
    BY <1>0, <1>6 DEF ClientStep, disconnect, connect, logData
  <1>7. CASE UNCHANGED loggerVars
    BY <1>0, <1>7
  <1> QED
    BY <1>1, <1>2, <1>3, <1>4, <1>5, <1>6, <1>7
    DEF Next, ServiceStep, Handling, Leaving, AddNotify, WorkerStep,
        WorkerSurprise, vars

(* The owner goes through the destructors in their order; only stop() and  *)
(* start() change the state of the server, and only the owner calls them.  *)
LEMMA PhaseStep ==
    ASSUME LoggerTypeOK, PhaseInv, SP!TypeOK, SP!ThreadInv, [Next]_vars
    PROVE  PhaseInv'
  <1> USE DEF PhaseInv, LoggerTypeOK
  <1>1. CASE Construct
    BY <1>1 DEF Construct, S!Start, writer_, server_
  <1>2. CASE Destroy
    BY <1>2 DEF Destroy, S!StopSignal, writer_
  <1>3. CASE ServerStops
    BY <1>3 DEF ServerStops, S!OwnerStep, S!StopCheck, S!StopJoin, S!StopFinish,
                S!AfterSignal, SP!TypeOK, writer_, loggerVars
  <1>4. CASE DestroyWriter
    BY <1>4 DEF DestroyWriter, ServerDestroyed, W!Stop, server_
  <1>5. CASE WriterStops
    BY <1>5 DEF WriterStops, W!StopNotify, W!Join, server_
  <1>6. ASSUME NEW k \in Connections,
               ReadFrame(k) \/ CallBack(k) \/ CallbackReturns(k) \/ DropClient(k)
        PROVE  PhaseInv'
    BY <1>6 DEF ReadFrame, CallBack, CallbackReturns, DropClient, S!ReadFrame,
                S!CallBack, S!CallbackReturns, S!DropClient, S!unregisterFd, writer_
  <1>7. ASSUME NEW k \in Connections, Elsewhere(k) \/ Admission(k),
               UNCHANGED <<writer_, loggerVars>>
        PROVE  PhaseInv'
    BY <1>7 DEF Elsewhere, Admission, S!Accept, S!HangUp, S!Register,
                S!CloseAccepted, S!unregisterFd, writer_, loggerVars
  <1>8. CASE Leaving \/ (S!EpollFails /\ UNCHANGED <<writer_, loggerVars>>)
    BY <1>8 DEF Leaving, S!Leaving, S!WokenUp, S!SeesStopping, S!ServiceExit,
                S!EpollFails, writer_, loggerVars
  <1>9. CASE handleLogRequest \/ AddNotify
    BY <1>9 DEF handleLogRequest, AddNotify, W!Add, W!AddNotify, server_,
                loggerVars, writer_
  <1>10. CASE WorkerStep \/ WorkerSurprise
    BY <1>10 DEF WorkerStep, WorkerSurprise, W!WorkerStep, W!Block, W!Take,
                 W!Exit, W!Write, W!SpuriousWakeup, W!WriteThrows, server_,
                 loggerVars
  <1>11. CASE ClientStep
    BY <1>11 DEF ClientStep, disconnect, connect, logData, serverSide, writer_
  <1>12. CASE UNCHANGED vars
    BY <1>12 DEF vars, server_, writer_, loggerVars
  <1> QED
    BY <1>1, <1>2, <1>3, <1>4, <1>5, <1>6, <1>7, <1>8, <1>9, <1>10, <1>11, <1>12
    DEF Next, OwnerStep, ServiceStep, Handling

(* Every way into the callback and out of it sets call too.                *)
LEMMA CallStep ==
    ASSUME LoggerTypeOK, CallInv, SP!TypeOK, SP!ThreadInv, [Next]_vars
    PROVE  CallInv'
  <1> USE DEF LoggerTypeOK, CallInv, SP!TypeOK
  <1>1. CASE Construct \/ Destroy
    BY <1>1 DEF Construct, Destroy, S!Start, S!MayStart, S!StopSignal,
                S!peerVars, SP!ThreadInv, server_
  <1>2. CASE OwnerStep
    BY <1>2 DEF OwnerStep, ServerStops, DestroyWriter, WriterStops, S!OwnerStep,
                S!StopCheck, S!StopJoin, S!StopFinish, S!Close, S!peerVars,
                server_, loggerVars
  <1>3. ASSUME NEW k \in Connections, ReadFrame(k) PROVE CallInv'
    <2>1. current' \in Frames
      BY <1>3, ReadIsFrame DEF ReadFrame
    <2> QED
      BY <1>3, <2>1 DEF ReadFrame, S!ReadFrame
  <1>4. ASSUME NEW k \in Connections, CallBack(k) \/ CallbackReturns(k) \/ DropClient(k)
        PROVE  CallInv'
    BY <1>4 DEF CallBack, CallbackReturns, DropClient, S!CallBack, S!DropClient,
                S!CallbackReturns, S!unregisterFd, S!Close, S!peerVars
  <1>5. ASSUME NEW k \in Connections, Elsewhere(k) \/ Admission(k),
               UNCHANGED <<writer_, loggerVars>>
        PROVE  CallInv'
    BY <1>5 DEF Elsewhere, Admission, S!Accept, S!HangUp, S!Register,
                S!CloseAccepted, S!unregisterFd, S!Close, S!peerVars,
                loggerVars
  <1>6. CASE Leaving \/ (S!EpollFails /\ UNCHANGED <<writer_, loggerVars>>)
    BY <1>6 DEF Leaving, S!Leaving, S!WokenUp, S!SeesStopping, S!ServiceExit,
                S!EpollFails, S!Close, S!peerVars, loggerVars
  <1>7. CASE handleLogRequest
    BY <1>7 DEF handleLogRequest, server_
  <1>8. CASE ClientStep
    BY <1>8 DEF ClientStep, disconnect, connect, logData, serverSide
  <1>9. CASE UNCHANGED <<server_, loggerVars>>
    BY <1>9 DEF server_, loggerVars
  <1> QED
    BY <1>1, <1>2, <1>3, <1>4, <1>5, <1>6, <1>7, <1>8, <1>9
    DEF Next, ServiceStep, Handling, AddNotify, WorkerStep, WorkerSurprise, vars

(* A callback meets a writer that admits: its thread is alive, so the      *)
(* server is not yet destroyed.                                            *)
LEMMA CallbackAdmitted ==
    ASSUME LoggerTypeOK, PhaseInv, SP!ThreadInv, service = "callback"
    PROVE  W!Admits
  <1>1. state_ # "kStopped"
    BY DEF SP!ThreadInv
  <1> QED
    BY <1>1 DEF PhaseInv, W!Admits

LEMMA HandedStep ==
    ASSUME LoggerTypeOK, PhaseInv, SP!ThreadInv, HandedInv, [Next]_vars
    PROVE  HandedInv'
  <1> USE DEF HandedInv
  <1>1. CASE handleLogRequest
    BY <1>1, CallbackAdmitted DEF handleLogRequest, W!Add, writer_
  <1>2. CASE OwnerStep
    BY <1>2 DEF OwnerStep, ServerStops, DestroyWriter, WriterStops, W!Stop,
                W!StopNotify, W!Join, writer_, loggerVars
  <1>3. CASE AddNotify \/ WorkerStep \/ WorkerSurprise
    BY <1>3 DEF AddNotify, WorkerStep, WorkerSurprise, W!AddNotify, W!WorkerStep,
                W!Block, W!Take, W!Exit, W!Write, W!SpuriousWakeup, W!WriteThrows,
                loggerVars
  <1>4. CASE UNCHANGED <<writer_, handed>>
    BY <1>4 DEF writer_
  <1> QED
    BY <1>1, <1>2, <1>3, <1>4
    DEF Next, Construct, Destroy, ServiceStep, Handling, ReadFrame, CallBack,
        CallbackReturns, DropClient, Leaving, ClientStep, disconnect, connect,
        logData, loggerVars, vars

(* Lines of frames, whatever the state: a step that sends nothing, hands   *)
(* nothing over and takes up no frame may only shorten them.               *)
LEMMA LineKept ==
    ASSUME NEW h \in Seq(Frames), NEW hand \in SUBSET Frames, NEW s \in Nat,
           NEW u, NEW v \in [Connections -> Seq(Frames)], Line(h, hand, u, s),
           NEW rest \in SUBSET hand,
           \A k \in Connections : v[k] = u[k] \/ v[k] = <<>>
    PROVE  Line(h, rest, v, s)
  <1>1. \A f \in Frames : f[3] \in Connections
    BY DEF Frames
  <1>2. \A i \in DOMAIN h : h[i] \in Frames
    OBVIOUS
  <1>3. \A k \in Connections : DOMAIN v[k] \subseteq DOMAIN u[k]
                               /\ \A a \in DOMAIN v[k] : v[k][a] = u[k][a]
    OBVIOUS
  <1>4. \A f \in Frames : \A a \in DOMAIN v[f[3]] :
            a \in DOMAIN u[f[3]] /\ v[f[3]][a] = u[f[3]][a]
    BY <1>1, <1>3, Zenon
  <1>5. \A k \in Connections :
            /\ \A a, b \in DOMAIN v[k] : a < b => v[k][a][2] < v[k][b][2]
            /\ \A a \in DOMAIN v[k] : v[k][a][3] = k /\ v[k][a][2] <= s
    BY <1>3 DEF Line
  <1>6. \A i \in DOMAIN h :
            /\ h[i][2] <= s
            /\ \A a \in DOMAIN v[h[i][3]] : h[i][2] < v[h[i][3]][a][2]
    BY <1>2, <1>4 DEF Line
  <1>7. \A f \in rest :
            /\ f[2] <= s
            /\ \A i \in DOMAIN h : h[i][3] = f[3] => h[i][2] < f[2]
            /\ \A a \in DOMAIN v[f[3]] : f[2] < v[f[3]][a][2]
    BY <1>4 DEF Line
  <1> QED
    BY <1>5, <1>6, <1>7, Zenon DEF Line

(* The frame taken from the head of a connection is behind all that was    *)
(* handed over and before the rest (ReadFrame).                            *)
LEMMA LineRead ==
    ASSUME NEW h \in Seq(Frames), NEW hand, NEW s \in Nat,
           NEW u \in [Connections -> Seq(Frames)], Line(h, hand, u, s),
           NEW k \in Connections, u[k] # <<>>
    PROVE  Line(h, {Head(u[k])}, [u EXCEPT ![k] = Tail(u[k])], s)
  <1> DEFINE v == [u EXCEPT ![k] = Tail(u[k])]
             f == Head(u[k])
  <1>1. /\ 1 \in DOMAIN u[k] /\ f = u[k][1]
        /\ f[3] = k /\ f[2] <= s
    BY DEF Line
  <1>2. \A d \in Connections : d # k => v[d] = u[d]
    OBVIOUS
  <1>3. /\ v[k] = Tail(u[k])
        /\ \A a \in DOMAIN v[k] : /\ a + 1 \in DOMAIN u[k] /\ v[k][a] = u[k][a + 1]
                                  /\ a \in Nat /\ 1 < a + 1
    OBVIOUS
  <1>4. \A i \in DOMAIN h : h[i] \in Frames /\ h[i][3] \in Connections
    BY DEF Frames
  <1> HIDE DEF v, f
  <1>5. \A d \in Connections : \A a, b \in DOMAIN v[d] :
            a < b => v[d][a][2] < v[d][b][2]
    <2> SUFFICES ASSUME NEW d \in Connections, NEW a \in DOMAIN v[d],
                        NEW b \in DOMAIN v[d], a < b
                 PROVE  v[d][a][2] < v[d][b][2]
      OBVIOUS
    <2>1. CASE d = k
      <3>1. a + 1 < b + 1 /\ a + 1 \in DOMAIN u[k] /\ b + 1 \in DOMAIN u[k]
        BY <1>3, <2>1
      <3>2. u[k][a + 1][2] < u[k][b + 1][2]
        BY <3>1 DEF Line
      <3> QED
        BY <1>3, <2>1, <3>2
    <2>2. CASE d # k
      BY <1>2, <2>2 DEF Line
    <2> QED
      BY <2>1, <2>2
  <1>6. \A d \in Connections : \A a \in DOMAIN v[d] : \E b \in DOMAIN u[d] :
            v[d][a] = u[d][b]
    BY <1>2, <1>3
  <1>7. \A a \in DOMAIN v[k] : f[2] < v[k][a][2]
    BY <1>1, <1>3 DEF Line
  <1>8. \A i \in DOMAIN h : h[i][3] = k => h[i][2] < f[2]
    BY <1>1 DEF Line
  <1>9. \A d \in Connections : \A a \in DOMAIN v[d] :
            v[d][a][3] = d /\ v[d][a][2] <= s
    BY <1>6 DEF Line
  <1>10. \A i \in DOMAIN h :
             /\ h[i][2] <= s
             /\ \A a \in DOMAIN v[h[i][3]] : h[i][2] < v[h[i][3]][a][2]
    BY <1>4, <1>6 DEF Line
  <1>11. \A i, j \in DOMAIN h : i < j /\ h[i][3] = h[j][3] => h[i][2] < h[j][2]
    BY DEF Line
  <1>12. Line(h, {f}, v, s)
    BY <1>1, <1>5, <1>7, <1>8, <1>9, <1>10, <1>11, Zenon DEF Line
  <1> QED
    BY <1>12 DEF v, f

(* The frame handed over is behind all of its connection's (add()).        *)
LEMMA LineHanded ==
    ASSUME NEW h \in Seq(Frames), NEW s \in Nat, NEW f \in Frames,
           NEW u \in [Connections -> Seq(Frames)], Line(h, {f}, u, s)
    PROVE  Line(Append(h, f), {}, u, s)
  <1> DEFINE g == Append(h, f)
  <1>1. /\ Len(g) = Len(h) + 1 /\ g[Len(h) + 1] = f
        /\ \A i \in DOMAIN h : g[i] = h[i] /\ i \in Nat /\ i <= Len(h)
        /\ \A i \in DOMAIN g : i \in DOMAIN h \/ i = Len(h) + 1
        /\ Len(h) \in Nat
    OBVIOUS
  <1> HIDE DEF g
  <1>2. \A i, j \in DOMAIN g : i < j /\ g[i][3] = g[j][3] => g[i][2] < g[j][2]
    <2> SUFFICES ASSUME NEW i \in DOMAIN g, NEW j \in DOMAIN g,
                        i < j, g[i][3] = g[j][3]
                 PROVE  g[i][2] < g[j][2]
      OBVIOUS
    <2>1. i \in DOMAIN h
      BY <1>1
    <2>2. CASE j \in DOMAIN h
      BY <1>1, <2>1, <2>2 DEF Line
    <2>3. CASE j = Len(h) + 1
      BY <1>1, <2>1, <2>3 DEF Line
    <2> QED
      BY <1>1, <2>2, <2>3
  <1>3. ASSUME NEW i \in DOMAIN g
        PROVE  /\ g[i][2] <= s
               /\ \A a \in DOMAIN u[g[i][3]] : g[i][2] < u[g[i][3]][a][2]
    <2>1. CASE i \in DOMAIN h
      BY <1>1, <2>1 DEF Line
    <2>2. CASE i = Len(h) + 1
      BY <1>1, <2>2 DEF Line
    <2> QED
      BY <1>1, <2>1, <2>2
  <1>4. Line(g, {}, u, s)
    BY <1>2, <1>3 DEF Line
  <1> QED
    BY <1>4 DEF g

(* A frame newly sent is numbered past all the earlier ones (logData()).   *)
LEMMA LineSent ==
    ASSUME NEW h \in Seq(Frames), NEW hand \in SUBSET Frames, NEW s \in Nat,
           NEW u \in [Connections -> Seq(Frames)], Line(h, hand, u, s),
           NEW k \in Connections, NEW f \in Frames, f[2] = s + 1, f[3] = k
    PROVE  Line(h, hand, [u EXCEPT ![k] = Append(u[k], f)], s + 1)
  <1> DEFINE v == [u EXCEPT ![k] = Append(u[k], f)]
  <1>1. \A d \in Connections : d # k => v[d] = u[d]
    OBVIOUS
  <1>2. /\ v[k] = Append(u[k], f)
        /\ \A a \in DOMAIN u[k] : v[k][a] = u[k][a] /\ a \in Nat /\ a <= Len(u[k])
        /\ \A a \in DOMAIN v[k] : a \in DOMAIN u[k] \/ a = Len(u[k]) + 1
        /\ v[k][Len(u[k]) + 1] = f
        /\ Len(u[k]) \in Nat
    OBVIOUS
  <1>3. \A g \in Frames : g[2] \in Nat /\ g[3] \in Connections
    BY LoggerAssumption DEF Frames
  <1>4. /\ \A i \in DOMAIN h : h[i] \in Frames
        /\ \A d \in Connections : \A a \in DOMAIN u[d] : u[d][a] \in Frames
    OBVIOUS
  <1>5. \A n \in Nat : n <= s => n < s + 1 /\ n <= s + 1
    OBVIOUS
  <1> HIDE DEF v
  <1>6. \A d \in Connections : \A a \in DOMAIN v[d] :
            \/ a \in DOMAIN u[d] /\ v[d][a] = u[d][a]
            \/ d = k /\ a = Len(u[k]) + 1 /\ v[d][a] = f
    BY <1>1, <1>2
  <1>7. \A d \in Connections : \A a, b \in DOMAIN v[d] :
            a < b => v[d][a][2] < v[d][b][2]
    <2> SUFFICES ASSUME NEW d \in Connections, NEW a \in DOMAIN v[d],
                        NEW b \in DOMAIN v[d], a < b
                 PROVE  v[d][a][2] < v[d][b][2]
      OBVIOUS
    <2>1. CASE d = k /\ b = Len(u[k]) + 1
      <3>1. a \in DOMAIN u[k] /\ v[k][a] = u[k][a]
        BY <1>2, <2>1
      <3>2. u[k][a][2] \in Nat /\ u[k][a][2] <= s
        BY <1>3, <1>4, <3>1 DEF Line
      <3> QED
        BY <1>2, <1>5, <2>1, <3>1, <3>2
    <2>2. CASE d # k
      BY <1>1, <2>2 DEF Line
    <2>3. CASE d = k /\ b \in DOMAIN u[k]
      <3>1. a \in DOMAIN u[k]
        BY <1>2, <2>3
      <3> QED
        BY <1>2, <2>3, <3>1 DEF Line
    <2> QED
      BY <1>2, <2>1, <2>2, <2>3
  <1>8. \A d \in Connections : \A a \in DOMAIN v[d] :
            v[d][a][3] = d /\ v[d][a][2] <= s + 1
    <2> SUFFICES ASSUME NEW d \in Connections, NEW a \in DOMAIN v[d]
                 PROVE  v[d][a][3] = d /\ v[d][a][2] <= s + 1
      OBVIOUS
    <2>1. CASE a \in DOMAIN u[d] /\ v[d][a] = u[d][a]
      BY <1>3, <1>4, <1>5, <2>1 DEF Line
    <2>2. CASE d = k /\ v[d][a] = f
      BY <2>2
    <2> QED
      BY <1>6, <2>1, <2>2
  <1>9. ASSUME NEW g \in Frames, g[2] <= s,
               \A a \in DOMAIN u[g[3]] : g[2] < u[g[3]][a][2]
        PROVE  g[2] <= s + 1 /\ \A a \in DOMAIN v[g[3]] : g[2] < v[g[3]][a][2]
    <2>1. g[2] \in Nat /\ g[3] \in Connections
      BY <1>3
    <2>2. g[2] < s + 1 /\ g[2] <= s + 1
      BY <1>5, <1>9, <2>1
    <2>3. ASSUME NEW a \in DOMAIN v[g[3]] PROVE g[2] < v[g[3]][a][2]
      BY <1>6, <1>9, <2>1, <2>2
    <2> QED
      BY <2>2, <2>3
  <1>10. Line(h, hand, v, s + 1)
    BY <1>4, <1>7, <1>8, <1>9 DEF Line
  <1> QED
    BY <1>10 DEF v

(* Counting a frame that was lost keeps the lines (logData()).             *)
LEMMA LineLater ==
    ASSUME NEW h \in Seq(Frames), NEW hand \in SUBSET Frames, NEW s \in Nat,
           NEW u \in [Connections -> Seq(Frames)], Line(h, hand, u, s)
    PROVE  Line(h, hand, u, s + 1)
  <1>1. \A g \in Frames : g[2] \in Nat
    BY LoggerAssumption DEF Frames
  <1>2. /\ \A i \in DOMAIN h : h[i] \in Frames
        /\ \A d \in Connections : \A a \in DOMAIN u[d] : u[d][a] \in Frames
    OBVIOUS
  <1>3. \A g \in Frames : g[2] <= s => g[2] <= s + 1
    BY <1>1
  <1> QED
    BY <1>2, <1>3, Zenon DEF Line

(* The lines over a step of the logger.                                    *)
LEMMA OrderStep ==
    ASSUME OrderInv, LoggerTypeOK, CallInv, SP!TypeOK, (SP!TypeOK)', [Next]_vars
    PROVE  OrderInv'
  <1> DEFINE Kept == /\ UNCHANGED <<handed, sent>>
                     /\ \A k \in Connections : unread'[k] = unread[k]
                                               \/ unread'[k] = <<>>
                     /\ InHand' \subseteq InHand
  <1>1. /\ handed \in Seq(Frames) /\ sent \in Nat /\ InHand \in SUBSET Frames
        /\ unread \in [Connections -> Seq(Frames)]
        /\ unread' \in [Connections -> Seq(Frames)]
    BY LoggerAssumption
    DEF LoggerTypeOK, ClientTypeOK, InHand, CallInv, SP!TypeOK
  <1>2. Kept => OrderInv'
    BY <1>1, LineKept DEF OrderInv
  <1>3. ASSUME NEW k \in Connections, ReadFrame(k) PROVE OrderInv'
    <2>1. /\ UNCHANGED <<handed, sent>> /\ current' = Head(unread[k])
          /\ service' = "frame"
      BY <1>3 DEF ReadFrame, S!ReadFrame, clientVars
    <2>2. InHand' = {Head(unread[k])}
      BY <2>1 DEF InHand
    <2>3. Line(handed, {Head(unread[k])}, [unread EXCEPT ![k] = Tail(unread[k])],
               sent)
      BY <1>1, <1>3, LineRead, ReadIsFrame DEF OrderInv
    <2> QED
      BY <1>3, <2>1, <2>2, <2>3, ReadIsFrame DEF OrderInv
  <1>4. CASE handleLogRequest
    <2>1. /\ InHand = {current} /\ InHand' = {} /\ current \in Frames
          /\ UNCHANGED <<sent, unread>>
      BY <1>4 DEF handleLogRequest, InHand, CallInv, server_, clientVars
    <2>2. CASE UNCHANGED handed
      BY <1>2, <2>1, <2>2
    <2>3. CASE handed' = Append(handed, current)
      BY <1>1, <2>1, <2>3, LineHanded DEF OrderInv
    <2> QED
      BY <1>4, <2>2, <2>3 DEF handleLogRequest
  <1>5. ASSUME NEW c \in Clients, logData(c) PROVE OrderInv'
    <2> DEFINE k == fd_[c]
               f == <<c, sent + 1, fd_[c]>>
    <2>1. k \in Connections /\ f \in Frames /\ f[2] = sent + 1 /\ f[3] = k
      BY <1>5, ClientConnection DEF logData, LoggerTypeOK
    <2>2. /\ UNCHANGED <<handed, current, service, call>> /\ sent' = sent + 1
          /\ \/ unread' = [unread EXCEPT ![k] = Append(unread[k], f)]
             \/ UNCHANGED unread
      BY <1>5 DEF logData, S!Send, serverSide
    <2> HIDE DEF k, f
    <2>3. InHand' = InHand
      BY <2>2 DEF InHand
    <2>4. Line(handed, InHand, [unread EXCEPT ![k] = Append(unread[k], f)], sent + 1)
      BY <1>1, <2>1, LineSent DEF OrderInv
    <2>5. CASE unread' = [unread EXCEPT ![k] = Append(unread[k], f)]
      BY <2>2, <2>3, <2>4, <2>5 DEF OrderInv
    <2>6. CASE UNCHANGED unread
      BY <1>1, <2>2, <2>3, <2>6, LineLater DEF OrderInv
    <2> QED
      BY <2>2, <2>5, <2>6
  <1>6. CASE Construct \/ Destroy
    BY <1>2, <1>6
    DEF Construct, Destroy, S!Start, S!StopSignal, S!peerVars, server_, InHand,
        clientVars, CallInv
  <1>7. CASE OwnerStep
    <2>1. Kept
      BY <1>1, <1>7
      DEF OwnerStep, ServerStops, DestroyWriter, WriterStops, S!OwnerStep,
          S!StopCheck, S!StopJoin, S!StopFinish, S!Close, S!peerVars, server_,
          loggerVars, clientVars, InHand
    <2> QED
      BY <1>2, <2>1
  <1>8. ASSUME NEW k \in Connections,
               CallBack(k) \/ CallbackReturns(k) \/ DropClient(k)
        PROVE  OrderInv'
    <2>1. Kept
      BY <1>1, <1>8
      DEF CallBack, CallbackReturns, DropClient, S!CallBack, S!DropClient,
          S!CallbackReturns, S!unregisterFd, S!Close, S!peerVars, InHand,
          clientVars
    <2> QED
      BY <1>2, <2>1
  <1>9. ASSUME NEW k \in Connections, Elsewhere(k) \/ Admission(k),
               UNCHANGED <<writer_, loggerVars>>
        PROVE  OrderInv'
    <2>1. Kept
      BY <1>1, <1>9
      DEF Elsewhere, Admission, S!Accept, S!HangUp, S!Register, S!CloseAccepted,
          S!unregisterFd, S!Close, S!peerVars, loggerVars, clientVars, InHand
    <2> QED
      BY <1>2, <2>1
  <1>10. CASE Leaving \/ (S!EpollFails /\ UNCHANGED <<writer_, loggerVars>>)
    <2>1. Kept
      BY <1>1, <1>10
      DEF Leaving, S!Leaving, S!WokenUp, S!SeesStopping, S!ServiceExit,
          S!EpollFails, S!Close, S!peerVars, loggerVars, clientVars, InHand
    <2> QED
      BY <1>2, <2>1
  <1>11. ASSUME NEW c \in Clients,
                disconnect(c) \/ \E k \in Connections : connect(c, k)
         PROVE  OrderInv'
    <2>1. Kept
      BY <1>1, <1>11
      DEF disconnect, connect, S!Connect, S!Leave, serverSide, InHand
    <2> QED
      BY <1>2, <2>1
  <1>12. CASE UNCHANGED <<server_, loggerVars>>
    BY <1>2, <1>12 DEF server_, loggerVars, clientVars, InHand
  <1> QED
    BY <1>3, <1>4, <1>5, <1>6, <1>7, <1>8, <1>9, <1>10, <1>11, <1>12
    DEF Next, ServiceStep, Handling, AddNotify, WorkerStep, WorkerSurprise,
        ClientStep, vars

-----------------------------------------------------------------------------
(* Theorems *)

(* The server inside the logger behaves as a Server: whatever the callback *)
(* and the destructor do, they use it through start(), stop() and run().   *)
THEOREM ServerInside == Spec => SP!Spec
  <1>1. Init => SP!Init /\ ClientTypeOK
    BY SameOwner, LoggerAssumption DEF Init, ClientTypeOK
  <1> QED
    BY <1>1, ClientTypeStep, ServerSteps, PTL DEF Spec, SP!Spec

(* The order of the destructors, the callback and the frames: inductive    *)
(* relative to the invariant of the server.                                *)
THEOREM Inductive == Spec => []IInv
  <1>1. Init => IInv
    <2> SUFFICES ASSUME Init PROVE IInv
      OBVIOUS
    <2>1. /\ owner = "idle" /\ service = "none"
          /\ unread = [k \in Connections |-> <<>>]
          /\ stopping_ = FALSE /\ accepted = <<>>
      BY DEF Init, S!Init, W!Init
    <2>2. LoggerTypeOK
      BY LoggerAssumption DEF Init, LoggerTypeOK, ClientTypeOK
    <2>3. OrderInv
      BY <2>1 DEF Init, OrderInv, Line, InHand
    <2> QED
      BY <2>1, <2>2, <2>3 DEF Init, IInv, PhaseInv, CallInv, HandedInv
  <1>2. IInv /\ SP!IInv /\ SP!IInv' /\ [Next]_vars => IInv'
    BY LoggerTypeStep, PhaseStep, CallStep, OrderStep, HandedStep
    DEF IInv, SP!IInv
  <1>3. SP!Spec => []SP!IInv
    BY SP!Inductive, LoggerAssumption
  <1>4. Spec => []SP!IInv
    BY <1>3, ServerInside, PTL
  <1> QED
    BY <1>1, <1>2, <1>4, PTL DEF Spec

(* The writer inside the logger behaves as a LogWriter with the service    *)
(* thread for its only producer: it is given nothing but frames.           *)
THEOREM WriterInside == Spec => WP!Spec
  <1>1. Init => WP!Init
    BY SameWriter DEF Init
  <1>2. IInv /\ [Next]_vars => [WP!Next]_(WP!vars)
    BY WriterSteps DEF IInv
  <1> QED
    BY <1>1, <1>2, Inductive, PTL DEF Spec, WP!Spec

(* The two together: what each component guarantees holds in the logger.   *)
THEOREM Composed == Spec => [](IInv /\ SP!IInv /\ WP!IInv)
  <1>1. SP!Spec => []SP!IInv
    BY SP!Inductive, LoggerAssumption
  <1>2. WP!Spec => []WP!IInv
    BY WP!Inductive, LoggerAssumption
  <1> QED
    BY <1>1, <1>2, ServerInside, WriterInside, Inductive, PTL

(* Types of the server, the writer and what the callback keeps.            *)
THEOREM LoggerTypeCorrect == Spec => []TypeOK
  <1>1. IInv /\ SP!IInv /\ WP!IInv => TypeOK
    BY SameOwner, SameWriter
    DEF IInv, SP!IInv, WP!IInv, LoggerTypeOK, ClientTypeOK, TypeOK
  <1> QED
    BY <1>1, Composed, PTL

(* handleLogRequest() never meets a stopped writer, and when the           *)
(* destructor has returned all that was handed over has been written.      *)
THEOREM HandoverCorrect == Spec => []HandedOverIsWritten
  <1>1. ASSUME IInv, WP!IInv PROVE HandedOverIsWritten
    <2>1. accepted = handed
      BY <1>1 DEF IInv, HandedInv
    <2>2. ASSUME phase = "gone" PROVE written = handed
      <3>1. queue_ = <<>> /\ inflight = <<>>
        BY <1>1, <2>2 DEF IInv, PhaseInv, WP!IInv, WP!HandInv, WP!NothingStranded
      <3>2. written \in Seq(Frames)
        BY <1>1 DEF WP!IInv, WP!TypeOK
      <3>3. (written \o <<>>) \o <<>> = written
        BY <3>2
      <3> QED
        BY <1>1, <2>1, <3>1, <3>3 DEF WP!IInv, WP!FifoNoLoss
    <2> QED
      BY <2>1, <2>2 DEF HandedOverIsWritten
  <1> QED
    BY <1>1, Composed, PTL

(* What is written is a prefix of what was handed over, so the frames of a *)
(* connection are in the order of sending, whatever was lost or dropped    *)
(* between two of them.                                                    *)
THEOREM OrderCorrect == Spec => []InConnectionOrder
  <1>1. ASSUME IInv, WP!IInv PROVE InConnectionOrder
    <2>1. /\ written \in Seq(Frames) /\ inflight \in Seq(Frames)
          /\ queue_ \in Seq(Frames)
      BY <1>1 DEF WP!IInv, WP!TypeOK
    <2>2. handed = (written \o inflight) \o queue_
      BY <1>1 DEF IInv, HandedInv, WP!IInv, WP!FifoNoLoss
    <2>3. /\ DOMAIN written \subseteq DOMAIN handed
          /\ \A i \in DOMAIN written : handed[i] = written[i]
      BY <2>1, <2>2
    <2> QED
      BY <1>1, <2>3 DEF IInv, OrderInv, Line, InConnectionOrder
  <1> QED
    BY <1>1, Composed, PTL

=============================================================================
