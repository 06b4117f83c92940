--------------------------- MODULE TraceboxLogger ---------------------------
(***************************************************************************)
(* libs/log_writer/writer/tracebox_logger.h: a Server whose callback hands *)
(* every request to a LogWriter, from the constructor to the end of the    *)
(* destructor, under clients (libs/log_client: LogClient, a TcpClient)     *)
(* that connect, log, leave and connect again.                             *)
(*                                                                         *)
(* The service thread of the Server is the one producer of the LogWriter.  *)
(* The steps are those of Server and LogWriter; this module adds what the  *)
(* callback does between CallBack and CallbackReturns, and the order in    *)
(* which the owner builds and tears down the two.                          *)
(***************************************************************************)
EXTENDS Naturals, Sequences

CONSTANTS Clients,      \* LogClient objects
          Malformed,    \* those that may send what is not a LogRequest
          Connections,  \* connections to the server that can exist at once
          none,         \* fd_ of a client that is not connected
          MaxFrames     \* bound: frames sent by all clients

ASSUME LoggerAssumption ==
    /\ Malformed \subseteq Clients
    /\ none \notin Connections
    /\ MaxFrames \in Nat

VARIABLES
    state_, fds, client_fd_, signalled, joinable, service, serving, owner,
    backlog, peer, unread, starts,                       \* server_
    queue_, stopping_, worker, inflight, producer, closer, terminated,
    accepted, written,                                   \* writer_
    phase,      \* where the owner of the logger is
    call,       \* how far the running callback is
    current,    \* the frame being handled
    fd_,        \* the connection each client holds
    sent,       \* number of frames the clients have sent
    \* History, read only by the properties
    handed      \* requests given to add()

\* A frame: its sender, its number in the order of sending, and the
\* connection it was sent on.
Frames == Clients \X (1..MaxFrames) \X Connections
serviceThread == "service"

S == INSTANCE Server WITH MaxStarts <- 1, MaxUnread <- MaxFrames
W == INSTANCE LogWriter WITH Producers <- {serviceThread}, Requests <- Frames,
                             MaxAdds <- MaxFrames,
                             owner <- closer

server_ == <<state_, fds, client_fd_, signalled, joinable, service, serving,
             owner, backlog, peer, unread, starts>>
writer_ == <<queue_, stopping_, worker, inflight, producer, closer, terminated,
             accepted, written>>
clientVars == <<fd_, sent>>
loggerVars == <<phase, call, current, clientVars, handed>>
vars == <<server_, writer_, loggerVars>>

TypeOK ==
    /\ S!TypeOK /\ W!TypeOK
    /\ phase \in {"constructor", "alive", "stop", "~Server", "~LogWriter", "gone"}
    /\ call \in {"none", "begun", "handed"}
    /\ current \in Frames \cup {<<>>}
    /\ fd_ \in [Clients -> Connections \cup {none}]
    /\ sent \in 0..MaxFrames
    /\ handed \in Seq(Frames)

\* writer_ is built first, with its thread, then server_.
Init ==
    /\ S!Init /\ W!Init
    /\ phase = "constructor"
    /\ call = "none" /\ current = <<>>
    /\ fd_ = [c \in Clients |-> none]
    /\ sent = 0
    /\ handed = <<>>

-----------------------------------------------------------------------------
(* The owner *)

\* The result of server_.start() is ignored.
Construct ==
    /\ phase = "constructor"
    /\ S!Start \/ UNCHANGED server_
    /\ phase' = "alive"
    /\ UNCHANGED <<writer_, call, current, clientVars, handed>>

\* ~TraceboxLogger() stops server_, whose own destructor stops it again.
Destroy ==
    /\ \/ phase = "alive" /\ phase' = "stop"
       \/ phase = "stop" /\ owner = "idle" /\ phase' = "~Server"
    /\ S!StopSignal
    /\ UNCHANGED <<writer_, call, current, clientVars, handed>>

ServerStops ==
    /\ S!OwnerStep
    /\ UNCHANGED <<writer_, loggerVars>>

\* Members are destroyed in the reverse order of their declaration.
WriterFirst == phase = "stop"             \* mutant: server_ declared first
ServerDestroyed == phase = "~Server" /\ owner = "idle"

DestroyWriter ==
    /\ ServerDestroyed
    /\ W!Stop
    /\ phase' = "~LogWriter"
    /\ UNCHANGED <<server_, call, current, clientVars, handed>>

WriterStops ==
    /\ phase = "~LogWriter"
    /\ \/ W!StopNotify /\ UNCHANGED phase
       \/ W!Join /\ phase' = "gone"
    /\ UNCHANGED <<server_, call, current, clientVars, handed>>

OwnerStep == ServerStops \/ DestroyWriter \/ WriterStops

-----------------------------------------------------------------------------
(* The service thread *)

ReadFrame(k) ==
    /\ S!ReadFrame(k)
    /\ current' = Head(unread[k])
    /\ UNCHANGED <<writer_, phase, call, clientVars, handed>>

CallBack(k) ==
    /\ S!CallBack(k)
    /\ call' = "begun"
    /\ UNCHANGED <<writer_, phase, current, clientVars, handed>>

\* handleLogRequest(): parse the frame and add() it.
handleLogRequest ==
    /\ service = "callback" /\ call = "begun"
    /\ call' = "handed"
    /\ \/ /\ current[1] \in Malformed
          /\ UNCHANGED <<writer_, handed>>
       \/ /\ handed' = Append(handed, current)
          /\ IF W!Admits THEN W!Add(serviceThread, current)
                         ELSE UNCHANGED writer_
    /\ UNCHANGED <<server_, phase, current, clientVars>>

AddNotify ==
    /\ W!AddNotify(serviceThread)
    /\ UNCHANGED <<server_, loggerVars>>

\* The empty result means that nothing is sent back.
CallbackReturns(k) ==
    /\ S!CallbackReturns(k)
    /\ call = "handed" /\ producer[serviceThread] = "idle"
    /\ call' = "none" /\ current' = <<>>
    /\ UNCHANGED <<writer_, phase, clientVars, handed>>

\* The frame was not complete, the server is stopping, or parsing threw.
DropClient(k) ==
    /\ S!DropClient(k)
    /\ call # "handed"
    /\ call' = "none" /\ current' = <<>>
    /\ UNCHANGED <<writer_, phase, clientVars, handed>>

Elsewhere(k) == S!Accept(k) \/ S!HangUp(k)
Admission(k) == S!Register(k) \/ S!CloseAccepted(k)

Handling == \/ handleLogRequest \/ AddNotify
            \/ \E k \in Connections :
                   \/ CallBack(k) \/ CallbackReturns(k) \/ DropClient(k)
                   \/ Admission(k) /\ UNCHANGED <<writer_, loggerVars>>
Leaving == S!Leaving /\ UNCHANGED <<writer_, loggerVars>>

ServiceStep ==
    \/ Handling \/ Leaving
    \/ \E k \in Connections : ReadFrame(k)
    \/ /\ S!EpollFails \/ \E k \in Connections : Elsewhere(k)
       /\ UNCHANGED <<writer_, loggerVars>>

-----------------------------------------------------------------------------
(* The worker thread *)

WorkerStep == W!WorkerStep /\ UNCHANGED <<server_, loggerVars>>

WorkerSurprise == /\ W!SpuriousWakeup \/ W!WriteThrows
                  /\ UNCHANGED <<server_, loggerVars>>

-----------------------------------------------------------------------------
(* The clients *)

serverSide == <<state_, fds, client_fd_, signalled, joinable, service, serving,
                owner, starts>>

\* TcpClient::disconnect(), also from the destructor and as the first step of
\* connect().  The server may have closed its end before.
disconnect(c) ==
    /\ fd_[c] # none
    /\ fd_' = [fd_ EXCEPT ![c] = none]
    /\ IF peer[fd_[c]] = "open" THEN S!Leave(fd_[c])
                                ELSE UNCHANGED <<backlog, peer, unread>>
    /\ UNCHANGED <<serverSide, writer_, phase, call, current, sent, handed>>

\* TcpClient::connect() after disconnect(): a connection that nobody uses.
\* The server may have the client's previous one still to read.  An attempt
\* that fails changes nothing more.
connect(c, k) ==
    /\ fd_[c] = none
    /\ \A d \in Clients : fd_[d] # k
    /\ S!Connect(k)
    /\ fd_' = [fd_ EXCEPT ![c] = k]
    /\ UNCHANGED <<serverSide, writer_, phase, call, current, sent, handed>>

\* LogClient::logData(): one request, one frame, and no answer is waited for;
\* a record of the wrong size is refused before anything is sent.  What is
\* sent to a server that has closed the connection is lost.
logData(c) ==
    /\ sent < MaxFrames /\ fd_[c] # none
    /\ sent' = sent + 1
    /\ IF peer[fd_[c]] = "open" THEN S!Send(fd_[c], <<c, sent + 1, fd_[c]>>)
                                ELSE UNCHANGED <<backlog, peer, unread>>
    /\ UNCHANGED <<serverSide, writer_, phase, call, current, fd_, handed>>

ClientStep ==
    \E c \in Clients : \/ disconnect(c) \/ logData(c)
                       \/ \E k \in Connections : connect(c, k)

-----------------------------------------------------------------------------

\* An exception that leaves the worker thread ends the process.
Next == /\ ~terminated
        /\ \/ Construct \/ Destroy \/ OwnerStep
           \/ ServiceStep
           \/ WorkerStep \/ WorkerSurprise
           \/ ClientStep

\* Every thread runs on (see Server and LogWriter); clients owe nothing.
Spec == /\ Init /\ [][Next]_vars
        /\ WF_vars(~terminated /\ (OwnerStep \/ (phase = "stop" /\ Destroy)))
        /\ WF_vars(~terminated /\ (Handling \/ Leaving))
        /\ WF_vars(~terminated /\ WorkerStep)

-----------------------------------------------------------------------------
(* Properties *)

(* The callback never meets a writer that has stopped: every request the   *)
(* server hands over is accepted, and once the destructor has returned     *)
(* every one of them has been written, whatever the service thread was     *)
(* doing when the destruction began ("Declared after the callback target   *)
(* and explicitly stopped first").                                         *)
HandedOverIsWritten ==
    /\ accepted = handed
    /\ phase = "gone" => written = handed

(* What is sent over one connection is written in the order of sending,   *)
(* none of it twice, however far the clients are ahead of the service      *)
(* thread and whatever is lost with a connection.  A client that connects  *)
(* again has no such promise: run() reads one frame per ready descriptor,  *)
(* so its new connection may overtake what is left on the old one.         *)
InConnectionOrder ==
    \A i, j \in DOMAIN written :
        i < j /\ written[i][3] = written[j][3] => written[i][2] < written[j][2]

\* The destructor returns: server_ lets go of its thread in any state, and
\* writer_ drains what is left, unless the storage ends the process.
DestructorReturns == phase = "stop" ~> phase = "gone" \/ terminated

=============================================================================
