---------------------------- MODULE ReadSession -----------------------------
(***************************************************************************)
(* One connection between LogReadClient (libs/log_client) and the read     *)
(* service (Server and LogReader), seen as two byte streams that carry the *)
(* length-prefixed frames of TcpSocket (libs/tcp_server/tcp_socket.h).     *)
(*                                                                         *)
(* The client blocks in recv() for at most two seconds; the descriptors    *)
(* the server accepts are non-blocking.  A unit of a stream stands for a   *)
(* few bytes: it knows which frame it is part of and at which position, so *)
(* that a reader that has lost the frame boundaries can be told apart.     *)
(***************************************************************************)
EXTENDS Integers, Sequences

CONSTANTS HeaderUnits,    \* units of the length prefix
          RequestUnits,   \* units of a serialized request
          ResponseUnits,  \* possible lengths of a serialized response
          Capacity,       \* units the socket buffers towards the client hold
          MaxCalls,       \* bound: calls of getStreams() or getData()
          MaxConnects     \* bound: calls of connect()

(* The length prefix has a fixed width, so there is a longest response.     *)
ASSUME ReadSessionAssumption ==
    /\ HeaderUnits \in Nat \ {0} /\ RequestUnits \in Nat \ {0}
    /\ ResponseUnits \subseteq Nat
    /\ \E n \in ResponseUnits : \A k \in ResponseUnits : k <= n
    /\ Capacity \in Nat /\ MaxCalls \in Nat /\ MaxConnects \in Nat

VARIABLES
    toServer, srvIn,   \* request units in the network, and received
    toClient, cliIn,   \* the same for responses
    client,            \* "off", "idle" or "reading" (in readData())
    clientBuf,         \* the state of its readData()
    call,              \* number of the current or last call
    answer,            \* what it returned
    server,            \* where handleLogRequest() is for this connection
    serverBuf,         \* the state of its readData()
    serving,           \* the request being answered
    outgoing,          \* what is left to send of the response
    srvOpen,           \* the server's descriptor is open
    connects,          \* calls of connect()
    \* History, read only by the properties
    clean,             \* no call has given up on a frame that was under way
    intact             \* every request was sent in full

network == <<toServer, srvIn, toClient, cliIn>>
clientVars == <<client, clientBuf, call, answer>>
serverVars == <<server, serverBuf, serving, outgoing, srvOpen>>
vars == <<network, clientVars, serverVars, connects, clean, intact>>

Failed == 0        \* an empty response object
Garbage == -1      \* bytes of more than one frame, or of part of one
Unknown == -1      \* the length is not read yet

-----------------------------------------------------------------------------
(* TcpSocket *)

\* sendDataWith(): one buffer, the size first.
Frame(id, size) ==
    [i \in 1..(HeaderUnits + size) |-> [id |-> id, pos |-> i, size |-> size]]

Prefix(s, n) == SubSeq(s, 1, n)

\* readDataWith() before its first recv().
NothingRead == [got |-> <<>>, need |-> Unknown]

\* The lengths that the units of a complete header may stand for.  Units that
\* are not a header are taken for one all the same.
LongestFrame == CHOOSE n \in ResponseUnits : \A k \in ResponseUnits : k <= n
Lengths(h) ==
    IF h = Prefix(Frame(h[1].id, h[1].size), HeaderUnits) THEN {h[1].size}
    ELSE 0..(LongestFrame + 1)

\* One more unit in either of its two loops.
Received(buf, unit) ==
    LET got == Append(buf.got, unit)
    IN  IF Len(got) = HeaderUnits
        THEN {[got |-> got, need |-> n] : n \in Lengths(got)}
        ELSE {[got |-> got, need |-> buf.need]}

OneRecv(buf) ==              \* mutant: the payload is read by a single recv()
    buf.need # Unknown /\ (buf.need = 0 \/ Len(buf.got) > HeaderUnits)
Complete(buf) == buf.need # Unknown /\ Len(buf.got) = HeaderUnits + buf.need

\* What was read; an empty string is an error.
Decoded(buf) ==
    IF buf.need = 0 THEN Failed
    ELSE LET first == buf.got[1]
         IN  IF buf.got = Frame(first.id, first.size) THEN first.id ELSE Garbage

\* ParseFromArray() rejects garbage, or makes something of it.
Parsed(buf) == IF Decoded(buf) = Garbage THEN {Failed, Garbage} ELSE {Decoded(buf)}

-----------------------------------------------------------------------------

Unit == [id : (0..MaxCalls) \cup {Garbage}, pos : Nat, size : Nat]
Buffer == [got : Seq(Unit), need : Nat \cup {Unknown}]

TypeOK ==
    /\ toServer \in Seq(Unit) /\ srvIn \in Seq(Unit)
    /\ toClient \in Seq(Unit) /\ cliIn \in Seq(Unit)
    /\ Len(toClient) + Len(cliIn) <= Capacity
    /\ client \in {"off", "idle", "reading"}
    /\ clientBuf \in Buffer /\ serverBuf \in Buffer
    /\ call \in 0..MaxCalls
    /\ answer \in (0..MaxCalls) \cup {Garbage}
    /\ server \in {"wait", "reading", "reply", "sending"}
    /\ outgoing \in Seq(Unit)
    /\ serving \in (0..MaxCalls) \cup {Garbage}
    /\ srvOpen \in BOOLEAN /\ clean \in BOOLEAN /\ intact \in BOOLEAN
    /\ connects \in 0..MaxConnects

Init ==
    /\ toServer = <<>> /\ srvIn = <<>> /\ toClient = <<>> /\ cliIn = <<>>
    /\ client = "off" /\ clientBuf = NothingRead
    /\ call = 0 /\ answer = Failed
    /\ server = "wait" /\ serverBuf = NothingRead
    /\ serving = 0 /\ outgoing = <<>> /\ srvOpen = FALSE
    /\ connects = 0
    /\ clean = TRUE /\ intact = TRUE

-----------------------------------------------------------------------------
(* TcpClient and LogReadClient *)

\* connect() closes the descriptor it had: nothing of the old connection
\* reaches the new one.
Connect ==
    /\ client \in {"off", "idle"}
    /\ connects < MaxConnects
    /\ connects' = connects + 1
    /\ toServer' = <<>> /\ srvIn' = <<>> /\ toClient' = <<>> /\ cliIn' = <<>>
    /\ client' = "idle" /\ clientBuf' = NothingRead
    /\ answer' = Failed
    /\ server' = "wait" /\ serverBuf' = NothingRead
    /\ serving' = 0 /\ outgoing' = <<>>
    /\ srvOpen' = TRUE
    /\ clean' = TRUE /\ intact' = TRUE
    /\ UNCHANGED call

\* getResponse(): the request is sent and readData() entered.
Request ==
    /\ client = "idle"
    /\ call < MaxCalls
    /\ call' = call + 1
    /\ toServer' = IF srvOpen THEN toServer \o Frame(call + 1, RequestUnits)
                   ELSE toServer
    /\ client' = "reading" /\ clientBuf' = NothingRead
    /\ answer' = Failed
    /\ UNCHANGED <<srvIn, toClient, cliIn, serverVars, connects, clean, intact>>

\* send() fails, always so on a connection the peer has reset; part of the
\* frame may be out.
RequestFails ==
    /\ client = "idle"
    /\ call < MaxCalls
    /\ call' = call + 1
    /\ \E n \in 0..(HeaderUnits + RequestUnits - 1) :
           toServer' = IF srvOpen
                       THEN toServer \o Prefix(Frame(call + 1, RequestUnits), n)
                       ELSE toServer
    /\ answer' = Failed
    /\ clean' = FALSE /\ intact' = FALSE
    /\ UNCHANGED <<srvIn, toClient, cliIn, client, clientBuf, serverVars,
                   connects>>

Returns(result) == /\ answer' = result
                   /\ client' = "idle" /\ clientBuf' = NothingRead
                   /\ UNCHANGED call

ClientRecv ==
    /\ client = "reading"
    /\ cliIn # <<>>
    /\ cliIn' = Tail(cliIn)
    /\ \E buf \in Received(clientBuf, Head(cliIn)) :
           IF Complete(buf) THEN \E result \in Parsed(buf) : Returns(result)
           ELSE clientBuf' = buf /\ UNCHANGED <<client, call, answer>>
    /\ UNCHANGED <<toServer, srvIn, toClient, serverVars, connects, clean,
                   intact>>

\* Nothing is on the way any more: the call will never be answered.
Quiet == /\ toServer = <<>> /\ srvIn = <<>> /\ toClient = <<>>
         /\ server \notin {"reply", "sending"}

\* recv() gives up after SO_RCVTIMEO; the connection stays as it is.
NeverTimesOut == FALSE                \* mutant: SO_RCVTIMEO is not set
TimesOut == cliIn = <<>>

ClientTimeout ==
    /\ client = "reading"
    /\ TimesOut
    /\ Returns(Failed)
    /\ clean' = (clean /\ Quiet)
    /\ UNCHANGED <<network, serverVars, connects, intact>>

\* recv() returns 0.
ClientEof ==
    /\ client = "reading"
    /\ ~srvOpen /\ toClient = <<>> /\ cliIn = <<>>
    /\ Returns(Failed)
    /\ UNCHANGED <<network, serverVars, connects, clean, intact>>

-----------------------------------------------------------------------------
(* Server::handleLogRequest() and LogReader::handleReadingRequest() *)

DropClient ==
    /\ srvOpen' = FALSE
    /\ toServer' = <<>> /\ srvIn' = <<>>
    /\ server' = "wait" /\ serverBuf' = NothingRead

ServerRecv ==
    /\ srvOpen
    /\ server \in {"wait", "reading"}
    /\ srvIn # <<>>
    /\ \E buf \in Received(serverBuf, Head(srvIn)) :
        \/ /\ ~Complete(buf)
           /\ server' = "reading" /\ serverBuf' = buf
           /\ srvIn' = Tail(srvIn)
           /\ UNCHANGED <<serving, outgoing, srvOpen, toServer>>
        \/ /\ Complete(buf) /\ Decoded(buf) # Failed
           /\ server' = "reply" /\ serverBuf' = NothingRead
           /\ serving' = Decoded(buf)
           /\ srvIn' = Tail(srvIn)
           /\ UNCHANGED <<outgoing, srvOpen, toServer>>
        \/ /\ Complete(buf) /\ Decoded(buf) = Failed
           /\ DropClient
           /\ UNCHANGED <<serving, outgoing>>
    /\ UNCHANGED <<toClient, cliIn, clientVars, connects, clean, intact>>

\* recv() on the non-blocking descriptor: EAGAIN in the middle of a frame.
WouldBlock ==
    /\ srvOpen
    /\ server = "reading"
    /\ srvIn = <<>>
    /\ DropClient
    /\ UNCHANGED <<serving, outgoing, toClient, cliIn, clientVars, connects,
                   clean, intact>>

\* The callback returns.  An empty response, or a request that does not
\* parse, is not answered at all.
Reply ==
    /\ srvOpen
    /\ server = "reply"
    /\ \/ /\ 0 \in ResponseUnits \/ serving = Garbage
          /\ server' = "wait"
          /\ UNCHANGED outgoing
       \/ \E size \in ResponseUnits \ {0} :
              /\ outgoing' = Frame(serving, size)
              /\ server' = "sending"
    /\ UNCHANGED <<network, clientVars, serverBuf, serving, srvOpen, connects,
                   clean, intact>>

\* sendDataWith(): as much as the socket takes.
NeverFull == TRUE                     \* mutant: a full socket is not noticed
HasRoom == Len(toClient) + Len(cliIn) < Capacity

SendUnit ==
    /\ server = "sending"
    /\ HasRoom
    /\ toClient' = Append(toClient, Head(outgoing))
    /\ outgoing' = Tail(outgoing)
    /\ server' = IF Len(outgoing) = 1 THEN "wait" ELSE "sending"
    /\ UNCHANGED <<toServer, srvIn, cliIn, clientVars, serverBuf, serving,
                   srvOpen, connects, clean, intact>>

\* send() on the non-blocking descriptor: EAGAIN ends it, the rest of the
\* response is dropped and the connection kept.
SendWouldBlock ==
    /\ server = "sending"
    /\ ~HasRoom
    /\ outgoing' = <<>>
    /\ server' = "wait"
    /\ UNCHANGED <<network, clientVars, serverBuf, serving, srvOpen, connects,
                   clean, intact>>

-----------------------------------------------------------------------------
(* TCP (external): bytes arrive in order, in pieces of any length *)

DeliverRequest ==
    /\ toServer # <<>>
    /\ srvIn' = Append(srvIn, Head(toServer))
    /\ toServer' = Tail(toServer)
    /\ UNCHANGED <<toClient, cliIn, clientVars, serverVars, connects, clean,
                   intact>>

DeliverResponse ==
    /\ toClient # <<>>
    /\ cliIn' = Append(cliIn, Head(toClient))
    /\ toClient' = Tail(toClient)
    /\ UNCHANGED <<toServer, srvIn, clientVars, serverVars, connects, clean,
                   intact>>

-----------------------------------------------------------------------------

ClientStep == ClientRecv \/ ClientTimeout \/ ClientEof
ServerStep == ServerRecv \/ WouldBlock \/ Reply \/ SendUnit \/ SendWouldBlock

Next == \/ Connect \/ Request \/ RequestFails
        \/ ClientStep
        \/ ServerStep
        \/ DeliverRequest \/ DeliverResponse

Spec == Init /\ [][Next]_vars

\* The caller's thread runs, and SO_RCVTIMEO ends a recv() without data.
\* Nothing is assumed of the network or of the server.
FairSpec == Spec /\ WF_vars(ClientStep)

-----------------------------------------------------------------------------
(* Properties *)

(* As long as no call gave up on bytes still under way, framing holds: an  *)
(* answer is the whole answer to this very call, however the bytes were    *)
(* cut up, whatever was truncated by a full socket, and although calls     *)
(* without an answer precede it.  connect() restores that state.           *)
CleanSessionIsExact == clean /\ answer # Failed => answer = call

(* Every call returns, whatever server and network do.                     *)
CallReturns == client = "reading" ~> client = "idle"

(* reader_client.h:45, "Returns the data according to the requested        *)
(* parameters": never those of an earlier call that had timed out.         *)
AnswerIsForThisCall == answer # Failed => answer = call

(* architecture.md:320, "The receiver accumulates the four-byte length     *)
(* across reads and then loops until the payload is complete": a request   *)
(* that was sent in full is not rejected because it arrives in pieces.     *)
PiecesAreAwaited == client # "off" /\ intact => srvOpen

=============================================================================
