------------------------- MODULE ReadSessionProofs --------------------------
(***************************************************************************)
(* The proof, for every length of header, request and response, every      *)
(* capacity of the socket buffers and every way TCP cuts the streams up,   *)
(* that the answer of a call on a clean connection is the whole answer to  *)
(* that very call (CleanSessionIsExact).                                   *)
(*                                                                         *)
(* While a call is under way on a clean connection, its bytes lie on one   *)
(* line: what the reader has, what its socket received, what the network   *)
(* carries and what is still to be sent are adjacent runs of one frame,    *)
(* and the other direction is empty (Asking, Thinking, Answering).         *)
(* Between calls there is nothing anywhere (Still): that is what a call    *)
(* which gives up on a frame under way would break.                        *)
(***************************************************************************)
EXTENDS ReadSession, TLAPS

-----------------------------------------------------------------------------
(* The inductive invariant *)

\* s is the run of units of Frame(id, size) that begins behind position start.
Run(s, start, id, size) ==
    \A i \in 1..Len(s) : s[i] = [id |-> id, pos |-> start + i, size |-> size]

\* A reader has taken the first units of Frame(id, size), but not all of them.
Partial(buf, id, size) ==
    /\ Run(buf.got, 0, id, size)
    /\ Len(buf.got) < HeaderUnits + size
    /\ buf.need = IF Len(buf.got) < HeaderUnits THEN Unknown ELSE size

NoRequest == toServer = <<>> /\ srvIn = <<>> /\ serverBuf = NothingRead
NoResponse == toClient = <<>> /\ cliIn = <<>> /\ outgoing = <<>>

\* The request is on its way to the server.
Asking ==
    /\ srvOpen /\ server \in {"wait", "reading"}
    /\ Partial(serverBuf, call, RequestUnits)
    /\ Run(srvIn, Len(serverBuf.got), call, RequestUnits)
    /\ Run(toServer, Len(serverBuf.got) + Len(srvIn), call, RequestUnits)
    /\ Len(serverBuf.got) + Len(srvIn) + Len(toServer) = HeaderUnits + RequestUnits
    /\ NoResponse /\ clientBuf = NothingRead

\* The callback is at work.
Thinking ==
    /\ srvOpen /\ server = "reply" /\ serving = call
    /\ NoRequest /\ NoResponse /\ clientBuf = NothingRead

\* The response is on its way, or what a full socket has left of it.
UnderWay(size) ==
    /\ Partial(clientBuf, call, size)
    /\ Run(cliIn, Len(clientBuf.got), call, size)
    /\ Run(toClient, Len(clientBuf.got) + Len(cliIn), call, size)
    /\ Run(outgoing, Len(clientBuf.got) + Len(cliIn) + Len(toClient), call, size)
    /\ Len(clientBuf.got) + Len(cliIn) + Len(toClient) + Len(outgoing)
           <= HeaderUnits + size

Answering ==
    /\ NoRequest
    /\ \/ server = "sending" /\ srvOpen /\ outgoing # <<>>
       \/ server = "wait" /\ outgoing = <<>>
    /\ \E size \in Nat \ {0} : UnderWay(size)

\* Nothing is anywhere.
Still == NoRequest /\ NoResponse /\ server = "wait"

CleanInv ==
    clean => IF client = "reading"
             THEN call # Failed /\ (Asking \/ Thinking \/ Answering)
             ELSE Still

SendingInv == server = "sending" => outgoing # <<>>

IInv == TypeOK /\ SendingInv /\ CleanInv /\ CleanSessionIsExact

-----------------------------------------------------------------------------
(* Lemmas: frames and runs of units *)

Ids == (0..MaxCalls) \cup {Garbage}

LEMMA FrameRun ==
    ASSUME NEW id \in Ids, NEW size \in Nat
    PROVE  /\ Frame(id, size) \in Seq(Unit)
           /\ Len(Frame(id, size)) = HeaderUnits + size
           /\ Run(Frame(id, size), 0, id, size)
  <1> USE ReadSessionAssumption
  <1>1. HeaderUnits + size \in Nat
    OBVIOUS
  <1>2. \A i \in 1..(HeaderUnits + size) : [id |-> id, pos |-> i, size |-> size] \in Unit
    BY DEF Unit, Ids
  <1>3. Frame(id, size) \in [1..(HeaderUnits + size) -> Unit]
    BY <1>2 DEF Frame
  <1>4. Frame(id, size) \in Seq(Unit) /\ Len(Frame(id, size)) = HeaderUnits + size
    BY <1>1, <1>3
  <1>5. \A i \in 1..(HeaderUnits + size) :
            Frame(id, size)[i] = [id |-> id, pos |-> 0 + i, size |-> size]
    <2>1. \A i \in 1..(HeaderUnits + size) : 0 + i = i
      OBVIOUS
    <2>2. QED
      BY <2>1 DEF Frame
  <1>6. QED
    BY <1>4, <1>5 DEF Run

LEMMA SameSequence ==
    ASSUME NEW s \in Seq(Unit), NEW t \in Seq(Unit), Len(s) = Len(t),
           \A i \in 1..Len(s) : s[i] = t[i]
    PROVE  s = t
  OBVIOUS

\* Taking the first unit of a run.
LEMMA HeadOfRun ==
    ASSUME NEW s \in Seq(Unit), s # <<>>, NEW start \in Nat, NEW id, NEW size,
           Run(s, start, id, size)
    PROVE  /\ Head(s) \in Unit /\ Head(s) = [id |-> id, pos |-> start + 1, size |-> size]
           /\ Tail(s) \in Seq(Unit) /\ Len(Tail(s)) = Len(s) - 1
           /\ Run(Tail(s), start + 1, id, size)
  <1>1. /\ Len(s) \in Nat \ {0} /\ Head(s) = s[1] /\ Head(s) \in Unit
        /\ Tail(s) \in Seq(Unit) /\ Len(Tail(s)) = Len(s) - 1
        /\ \A i \in 1..(Len(s) - 1) : Tail(s)[i] = s[i + 1]
    OBVIOUS
  <1>2. Head(s) = [id |-> id, pos |-> start + 1, size |-> size]
    BY <1>1 DEF Run
  <1>3. ASSUME NEW i \in 1..Len(Tail(s))
        PROVE  Tail(s)[i] = [id |-> id, pos |-> (start + 1) + i, size |-> size]
    <2>1. i + 1 \in 1..Len(s) /\ Tail(s)[i] = s[i + 1]
      BY <1>1
    <2>2. s[i + 1] = [id |-> id, pos |-> start + (i + 1), size |-> size]
      BY <2>1 DEF Run
    <2>3. start + (i + 1) = (start + 1) + i
      OBVIOUS
    <2>4. QED
      BY <2>1, <2>2, <2>3
  <1>4. QED
    BY <1>1, <1>2, <1>3 DEF Run

\* Adding the next unit to a run.
LEMMA AppendToRun ==
    ASSUME NEW s \in Seq(Unit), NEW u \in Unit, NEW start \in Nat, NEW id, NEW size,
           Run(s, start, id, size),
           u = [id |-> id, pos |-> start + Len(s) + 1, size |-> size]
    PROVE  /\ Append(s, u) \in Seq(Unit) /\ Len(Append(s, u)) = Len(s) + 1
           /\ Run(Append(s, u), start, id, size)
  <1>1. /\ Append(s, u) \in Seq(Unit) /\ Len(Append(s, u)) = Len(s) + 1
        /\ Append(s, u)[Len(s) + 1] = u
        /\ \A i \in 1..Len(s) : Append(s, u)[i] = s[i]
    OBVIOUS
  <1>2. ASSUME NEW i \in 1..(Len(s) + 1)
        PROVE  Append(s, u)[i] = [id |-> id, pos |-> start + i, size |-> size]
    <2>1. CASE i \in 1..Len(s)
      BY <1>1, <2>1 DEF Run
    <2>2. CASE i = Len(s) + 1
      <3>1. start + Len(s) + 1 = start + i
        BY <2>2
      <3>2. QED
        BY <1>1, <2>2, <3>1
    <2>3. QED
      BY <2>1, <2>2
  <1>3. QED
    BY <1>1, <1>2 DEF Run

\* A unit moves from one run to the one before it.
LEMMA MoveUnit ==
    ASSUME NEW s \in Seq(Unit), NEW t \in Seq(Unit), t # <<>>,
           NEW start \in Nat, NEW id, NEW size,
           Run(s, start, id, size), Run(t, start + Len(s), id, size)
    PROVE  /\ Append(s, Head(t)) \in Seq(Unit)
           /\ Len(Append(s, Head(t))) = Len(s) + 1
           /\ Run(Append(s, Head(t)), start, id, size)
           /\ Tail(t) \in Seq(Unit) /\ Len(Tail(t)) = Len(t) - 1
           /\ Run(Tail(t), start + Len(Append(s, Head(t))), id, size)
  <1>1. start + Len(s) \in Nat /\ start + Len(s) + 1 = start + (Len(s) + 1)
    OBVIOUS
  <1>2. /\ Head(t) \in Unit
        /\ Head(t) = [id |-> id, pos |-> start + Len(s) + 1, size |-> size]
        /\ Tail(t) \in Seq(Unit) /\ Len(Tail(t)) = Len(t) - 1
        /\ Run(Tail(t), start + Len(s) + 1, id, size)
    BY <1>1, HeadOfRun
  <1>3. /\ Append(s, Head(t)) \in Seq(Unit)
        /\ Len(Append(s, Head(t))) = Len(s) + 1
        /\ Run(Append(s, Head(t)), start, id, size)
    BY <1>2, AppendToRun
  <1>4. QED
    BY <1>1, <1>2, <1>3

-----------------------------------------------------------------------------
(* Lemmas: readDataWith() *)

LEMMA LongestFrameNat == LongestFrame \in Nat
  BY ReadSessionAssumption DEF LongestFrame

\* Whatever the units of a header are, they stand for some length.
LEMMA ReceivedType ==
    ASSUME NEW buf \in Buffer, NEW unit \in Unit, NEW b \in Received(buf, unit)
    PROVE  b \in Buffer /\ b.got = Append(buf.got, unit)
  <1> DEFINE got == Append(buf.got, unit)
  <1>1. got \in Seq(Unit) /\ buf.need \in Nat \cup {Unknown}
    BY DEF Buffer
  <1>2. CASE Len(got) = HeaderUnits
    <2>1. got[1] \in Unit
      BY <1>1, <1>2, ReadSessionAssumption
    <2>2. Lengths(got) \subseteq Nat
      BY <2>1, LongestFrameNat DEF Lengths, Unit
    <2>3. QED
      BY <1>1, <1>2, <2>2 DEF Received, Buffer
  <1>3. CASE Len(got) # HeaderUnits
    BY <1>1, <1>3 DEF Received, Buffer
  <1>4. QED
    BY <1>2, <1>3

LEMMA DecodedType ==
    ASSUME NEW buf \in Buffer, Complete(buf)
    PROVE  Decoded(buf) \in Ids /\ Parsed(buf) \subseteq Ids
  <1> USE ReadSessionAssumption
  <1>1. /\ buf.got \in Seq(Unit) /\ buf.need \in Nat \cup {Unknown}
        /\ buf.need # Unknown /\ Len(buf.got) = HeaderUnits + buf.need
    BY DEF Buffer, Complete
  <1>2. buf.got[1] \in Unit
    BY <1>1
  <1>3. 0 \in Ids /\ Garbage \in Ids /\ buf.got[1].id \in Ids
    BY <1>2 DEF Ids, Unit
  <1>4. Decoded(buf) \in Ids
    BY <1>3 DEF Decoded, Failed
  <1>5. QED
    BY <1>3, <1>4 DEF Parsed, Failed

NextUnit(buf, id, size) == [id |-> id, pos |-> Len(buf.got) + 1, size |-> size]

\* The next unit of a frame: the reader learns its length when the header is
\* complete, and ends exactly behind it.
LEMMA ReceivedRun ==
    ASSUME NEW id \in 1..MaxCalls, NEW size \in Nat \ {0},
           NEW buf \in Buffer, Partial(buf, id, size),
           NEW b \in Received(buf, NextUnit(buf, id, size))
    PROVE  /\ Len(b.got) = Len(buf.got) + 1 /\ Run(b.got, 0, id, size)
           /\ Complete(b) <=> Len(b.got) = HeaderUnits + size
           /\ Complete(b) => Decoded(b) = id /\ Parsed(b) = {id}
           /\ ~Complete(b) => Partial(b, id, size)
  <1> USE ReadSessionAssumption
  <1> DEFINE unit == NextUnit(buf, id, size)
  <1>1. b \in Buffer /\ b.got = Append(buf.got, unit) /\ buf.got \in Seq(Unit)
        /\ unit \in Unit
    <2>1. buf.got \in Seq(Unit)
      BY DEF Buffer
    <2>2. unit \in Unit
      BY <2>1 DEF NextUnit, Unit
    <2>3. QED
      BY <2>1, <2>2, ReceivedType
  <1> HIDE DEF unit
  <1>2. /\ b.got \in Seq(Unit) /\ Len(b.got) = Len(buf.got) + 1
        /\ Run(b.got, 0, id, size)
    <2>1. Len(buf.got) \in Nat /\ Len(buf.got) + 1 = 0 + Len(buf.got) + 1
      BY <1>1
    <2>2. Run(buf.got, 0, id, size)
      BY DEF Partial
    <2>3. unit = [id |-> id, pos |-> 0 + Len(buf.got) + 1, size |-> size]
      BY <2>1 DEF unit, NextUnit
    <2>4. QED
      BY <1>1, <2>2, <2>3, AppendToRun
  <1>3. b.got[1].id = id /\ b.got[1].size = size
    <2>1. 1 \in 1..Len(b.got)
      BY <1>1, <1>2
    <2>2. b.got[1] = [id |-> id, pos |-> 0 + 1, size |-> size]
      BY <1>2, <2>1, Zenon DEF Run
    <2>3. QED
      BY <2>2
  <1>4. b.need = IF Len(b.got) < HeaderUnits THEN Unknown ELSE size
    <2>1. CASE Len(b.got) = HeaderUnits
      <3>1. /\ Len(Frame(id, size)) = HeaderUnits + size
            /\ Frame(id, size) \in Seq(Unit) /\ Run(Frame(id, size), 0, id, size)
        BY FrameRun DEF Ids
      <3>2. /\ Prefix(Frame(id, size), HeaderUnits) \in Seq(Unit)
            /\ Len(Prefix(Frame(id, size), HeaderUnits)) = HeaderUnits
            /\ \A i \in 1..HeaderUnits :
                   Prefix(Frame(id, size), HeaderUnits)[i] = Frame(id, size)[i]
        BY <3>1 DEF Prefix
      <3>3. \A i \in 1..HeaderUnits : b.got[i] = Frame(id, size)[i]
        BY <1>2, <2>1, <3>1 DEF Run
      <3>4. b.got = Prefix(Frame(id, size), HeaderUnits)
        BY <1>2, <2>1, <3>2, <3>3, SameSequence
      <3>5. Lengths(b.got) = {size}
        BY <1>3, <3>4 DEF Lengths
      <3>6. b.need = size
        BY <1>1, <2>1, <3>5 DEF Received, unit
      <3>7. QED
        BY <2>1, <3>6
    <2>2. CASE Len(b.got) # HeaderUnits
      <3>1. b.need = buf.need
        BY <1>1, <2>2 DEF Received, unit
      <3>2. buf.need = IF Len(buf.got) < HeaderUnits THEN Unknown ELSE size
        BY DEF Partial
      <3>3. Len(buf.got) \in Nat
        BY <1>1
      <3>4. QED
        BY <1>2, <2>2, <3>1, <3>2, <3>3
    <2>3. QED
      BY <2>1, <2>2
  <1>5. Complete(b) <=> Len(b.got) = HeaderUnits + size
    <2>1. Len(b.got) \in Nat /\ HeaderUnits < HeaderUnits + size /\ Unknown # size
      BY <1>2 DEF Unknown
    <2>2. QED
      BY <1>4, <2>1 DEF Complete
  <1>6. ASSUME Complete(b) PROVE Decoded(b) = id /\ Parsed(b) = {id}
    <2>1. Len(b.got) = HeaderUnits + size /\ b.need = size
      BY <1>4, <1>5, <1>6
    <2>2. /\ Len(Frame(id, size)) = HeaderUnits + size
          /\ Frame(id, size) \in Seq(Unit) /\ Run(Frame(id, size), 0, id, size)
      BY FrameRun DEF Ids
    <2>3. \A i \in 1..Len(b.got) : b.got[i] = Frame(id, size)[i]
      BY <1>2, <2>1, <2>2 DEF Run
    <2>4. b.got = Frame(id, size)
      BY <1>2, <2>1, <2>2, <2>3, SameSequence
    <2>5. Decoded(b) = id
      BY <1>3, <2>1, <2>4 DEF Decoded
    <2>6. id # Garbage
      BY DEF Garbage
    <2>7. QED
      BY <2>5, <2>6 DEF Parsed
  <1>7. ASSUME ~Complete(b) PROVE Partial(b, id, size)
    <2>1. Len(b.got) < HeaderUnits + size
      <3>1. Len(buf.got) < HeaderUnits + size /\ Len(buf.got) \in Nat
        BY <1>1 DEF Partial
      <3>2. QED
        BY <1>2, <1>5, <1>7, <3>1
    <2>2. QED
      BY <1>2, <1>4, <2>1 DEF Partial
  <1>8. QED
    BY <1>2, <1>5, <1>6, <1>7

-----------------------------------------------------------------------------
(* Type correctness *)

LEMMA EmptyType == <<>> \in Seq(Unit) /\ NothingRead \in Buffer
  BY DEF NothingRead, Buffer

LEMMA FailedType == Failed \in 0..MaxCalls /\ 0 \in 0..MaxCalls /\ 0 \in 0..MaxConnects
  BY ReadSessionAssumption DEF Failed

LEMMA InitType == Init => TypeOK /\ SendingInv
  <1> SUFFICES ASSUME Init PROVE TypeOK /\ SendingInv
    OBVIOUS
  <1>1. Len(toClient) + Len(cliIn) <= Capacity
    BY ReadSessionAssumption DEF Init
  <1>2. QED
    BY <1>1, EmptyType, FailedType DEF Init, TypeOK, SendingInv

LEMMA ServerRecvType ==
    ASSUME TypeOK, ServerRecv
    PROVE  TypeOK' /\ SendingInv'
  <1> USE DEF TypeOK
  <1>1. /\ UNCHANGED <<toClient, cliIn, client, clientBuf, call, answer, connects,
                       clean, intact, outgoing>>
        /\ srvIn # <<>>
    BY DEF ServerRecv, clientVars, DropClient
  <1>2. Head(srvIn) \in Unit /\ Tail(srvIn) \in Seq(Unit)
    BY <1>1
  <1>3. PICK buf \in Received(serverBuf, Head(srvIn)) :
        \/ /\ server' = "reading" /\ serverBuf' = buf /\ srvIn' = Tail(srvIn)
           /\ UNCHANGED <<serving, srvOpen, toServer>>
        \/ /\ Complete(buf)
           /\ server' = "reply" /\ serverBuf' = NothingRead /\ serving' = Decoded(buf)
           /\ srvIn' = Tail(srvIn) /\ UNCHANGED <<srvOpen, toServer>>
        \/ /\ srvOpen' = FALSE /\ toServer' = <<>> /\ srvIn' = <<>>
           /\ server' = "wait" /\ serverBuf' = NothingRead /\ UNCHANGED serving
    BY DEF ServerRecv, DropClient
  <1>4. buf \in Buffer /\ (Complete(buf) => Decoded(buf) \in Ids)
    BY <1>2, ReceivedType, DecodedType
  <1>5. /\ server' \in {"wait", "reading", "reply"} /\ srvOpen' \in BOOLEAN
        /\ serverBuf' \in Buffer /\ srvIn' \in Seq(Unit) /\ toServer' \in Seq(Unit)
        /\ serving' \in Ids
    <2>1. CASE /\ server' = "reading" /\ serverBuf' = buf /\ srvIn' = Tail(srvIn)
               /\ UNCHANGED <<serving, srvOpen, toServer>>
      BY <1>2, <1>4, <2>1 DEF Ids
    <2>2. CASE /\ Complete(buf)
               /\ server' = "reply" /\ serverBuf' = NothingRead /\ serving' = Decoded(buf)
               /\ srvIn' = Tail(srvIn) /\ UNCHANGED <<srvOpen, toServer>>
      BY <1>2, <1>4, <2>2, EmptyType
    <2>3. CASE /\ srvOpen' = FALSE /\ toServer' = <<>> /\ srvIn' = <<>>
               /\ server' = "wait" /\ serverBuf' = NothingRead /\ UNCHANGED serving
      BY <2>3, EmptyType DEF Ids
    <2>4. QED
      BY <1>3, <2>1, <2>2, <2>3
  <1>6. QED
    BY <1>1, <1>5 DEF SendingInv, Ids

LEMMA ClientRecvType ==
    ASSUME TypeOK, SendingInv, ClientRecv
    PROVE  TypeOK' /\ SendingInv'
  <1> USE DEF TypeOK
  <1>1. /\ UNCHANGED <<toServer, srvIn, toClient, server, serverBuf, serving, outgoing,
                       srvOpen, connects, clean, intact>>
        /\ cliIn # <<>> /\ cliIn' = Tail(cliIn)
    BY DEF ClientRecv, serverVars
  <1>2. /\ Head(cliIn) \in Unit /\ cliIn' \in Seq(Unit)
        /\ Len(toClient') + Len(cliIn') <= Capacity
    BY <1>1, ReadSessionAssumption
  <1>3. PICK buf \in Received(clientBuf, Head(cliIn)) :
            IF Complete(buf) THEN \E result \in Parsed(buf) : Returns(result)
            ELSE clientBuf' = buf /\ UNCHANGED <<client, call, answer>>
    BY DEF ClientRecv
  <1>4. buf \in Buffer /\ (Complete(buf) => Parsed(buf) \subseteq Ids)
    BY <1>2, ReceivedType, DecodedType
  <1>5. client' \in {"off", "idle", "reading"} /\ clientBuf' \in Buffer
        /\ call' = call /\ answer' \in Ids
    <2>1. CASE Complete(buf)
      BY <1>3, <1>4, <2>1, EmptyType DEF Returns
    <2>2. CASE ~Complete(buf)
      BY <1>3, <1>4, <2>2 DEF Ids
    <2>3. QED
      BY <2>1, <2>2
  <1>6. QED
    BY <1>1, <1>2, <1>5 DEF SendingInv, Ids

\* A request frame, or the part of it that a failing send() got out.
LEMMA RequestType ==
    ASSUME TypeOK, SendingInv, Request \/ RequestFails
    PROVE  TypeOK' /\ SendingInv'
  <1> USE DEF TypeOK
  <1>1. /\ UNCHANGED <<srvIn, toClient, cliIn, server, serverBuf, serving, outgoing,
                       srvOpen, connects>>
        /\ call < MaxCalls /\ call' = call + 1 /\ answer' = Failed
        /\ client' \in {"idle", "reading"} /\ clientBuf' \in {clientBuf, NothingRead}
        /\ clean' \in BOOLEAN /\ intact' \in BOOLEAN
    BY DEF Request, RequestFails, serverVars
  <1>2. call + 1 \in Ids /\ call' \in 0..MaxCalls
    BY <1>1, ReadSessionAssumption DEF Ids
  <1>3. Frame(call + 1, RequestUnits) \in Seq(Unit)
        /\ Len(Frame(call + 1, RequestUnits)) = HeaderUnits + RequestUnits
    BY <1>2, FrameRun, ReadSessionAssumption
  <1>4. \A n \in 0..(HeaderUnits + RequestUnits - 1) :
            Prefix(Frame(call + 1, RequestUnits), n) \in Seq(Unit)
    BY <1>3, ReadSessionAssumption DEF Prefix
  <1>5. toServer' \in Seq(Unit)
    <2>1. CASE Request
      BY <1>3, <2>1 DEF Request
    <2>2. CASE RequestFails
      BY <1>4, <2>2 DEF RequestFails
    <2>3. QED
      BY <2>1, <2>2
  <1>6. clientBuf' \in Buffer
    BY <1>1, EmptyType
  <1>7. QED
    BY <1>1, <1>2, <1>5, <1>6, FailedType DEF SendingInv

LEMMA TypeInductive ==
    ASSUME TypeOK, SendingInv, [Next]_vars
    PROVE  TypeOK' /\ SendingInv'
  <1> USE DEF TypeOK
  <1>1. CASE Connect
    <2>1. Len(toClient') + Len(cliIn') <= Capacity
      BY <1>1, ReadSessionAssumption DEF Connect
    <2>2. connects' \in 0..MaxConnects
      BY <1>1, ReadSessionAssumption DEF Connect
    <2>3. QED
      BY <1>1, <2>1, <2>2, EmptyType, FailedType DEF Connect, SendingInv
  <1>2. CASE Request \/ RequestFails
    BY <1>2, RequestType
  <1>3. CASE ClientRecv
    BY <1>3, ClientRecvType
  <1>4. CASE ClientTimeout \/ ClientEof
    <2>1. clean' \in BOOLEAN
      BY <1>4 DEF ClientTimeout, ClientEof
    <2>2. QED
      BY <1>4, <2>1, EmptyType, FailedType
         DEF ClientTimeout, ClientEof, Returns, network, serverVars, SendingInv
  <1>5. CASE ServerRecv
    BY <1>5, ServerRecvType
  <1>6. CASE WouldBlock
    BY <1>6, EmptyType DEF WouldBlock, DropClient, clientVars, SendingInv, serverVars
  <1>7. CASE Reply
    <2>1. UNCHANGED <<network, clientVars, serverBuf, serving, srvOpen, connects, clean, intact>>
      BY <1>7 DEF Reply
    <2>2. CASE server' = "wait" /\ UNCHANGED outgoing
      BY <2>1, <2>2 DEF network, clientVars, SendingInv
    <2>3. ASSUME NEW size \in ResponseUnits \ {0}, outgoing' = Frame(serving, size),
                 server' = "sending"
          PROVE  TypeOK' /\ SendingInv'
      <3>1. size \in Nat /\ serving \in Ids
        BY ReadSessionAssumption DEF Ids
      <3>2. outgoing' \in Seq(Unit) /\ Len(outgoing') = HeaderUnits + size
        BY <2>3, <3>1, FrameRun
      <3>3. outgoing' # <<>>
        BY <3>1, <3>2, ReadSessionAssumption
      <3>4. QED
        BY <2>1, <2>3, <3>2, <3>3 DEF network, clientVars, SendingInv
    <2>4. QED
      BY <1>7, <2>2, <2>3 DEF Reply
  <1>8. CASE SendUnit
    <2>1. outgoing # <<>> /\ server = "sending"
      BY <1>8 DEF SendUnit, SendingInv
    <2>2. /\ Head(outgoing) \in Unit /\ Tail(outgoing) \in Seq(Unit)
          /\ Len(Tail(outgoing)) = Len(outgoing) - 1
          /\ Append(toClient, Head(outgoing)) \in Seq(Unit)
          /\ Len(Append(toClient, Head(outgoing))) = Len(toClient) + 1
      BY <2>1
    <2>3. Len(toClient') + Len(cliIn') <= Capacity
      BY <1>8, <2>2, ReadSessionAssumption DEF SendUnit, HasRoom
    <2>4. server' = "sending" => outgoing' # <<>>
      <3>1. outgoing' = Tail(outgoing) /\ (server' = "sending" => Len(outgoing) # 1)
        BY <1>8 DEF SendUnit
      <3>2. Len(outgoing) # 0
        BY <2>1
      <3>3. Len(outgoing) # 1 => Len(Tail(outgoing)) # 0
        BY <2>2, <3>2
      <3>4. QED
        BY <3>1, <3>3
    <2>5. QED
      BY <1>8, <2>2, <2>3, <2>4 DEF SendUnit, clientVars, SendingInv
  <1>9. CASE SendWouldBlock
    BY <1>9, EmptyType DEF SendWouldBlock, network, clientVars, SendingInv
  <1>10. CASE DeliverRequest
    BY <1>10 DEF DeliverRequest, clientVars, serverVars, SendingInv
  <1>11. CASE DeliverResponse
    <2>1. /\ cliIn' = Append(cliIn, Head(toClient)) /\ toClient' = Tail(toClient)
          /\ toClient # <<>>
          /\ UNCHANGED <<toServer, srvIn, clientVars, serverVars, connects, clean, intact>>
      BY <1>11 DEF DeliverResponse
    <2>2. /\ cliIn' \in Seq(Unit) /\ toClient' \in Seq(Unit)
          /\ Len(cliIn') = Len(cliIn) + 1 /\ Len(toClient') = Len(toClient) - 1
      BY <2>1
    <2>3. Len(toClient') + Len(cliIn') <= Capacity
      BY <2>2, ReadSessionAssumption
    <2>4. QED
      BY <2>1, <2>2, <2>3 DEF clientVars, serverVars, SendingInv
  <1>12. CASE UNCHANGED vars
    BY <1>12 DEF vars, network, clientVars, serverVars, SendingInv
  <1>13. QED
    BY <1>1, <1>2, <1>3, <1>4, <1>5, <1>6, <1>7, <1>8, <1>9, <1>10, <1>11, <1>12
       DEF Next, ClientStep, ServerStep

\* The types of both ends and of the streams between them, also where framing
\* is lost and any units are taken for a header.
THEOREM SessionTypeCorrect == Spec => []TypeOK
  BY InitType, TypeInductive, PTL DEF Spec

-----------------------------------------------------------------------------
(* Framing *)

\* The lengths that the steps compare.
LEMMA Lens ==
    ASSUME TypeOK
    PROVE  /\ Len(toServer) \in Nat /\ Len(srvIn) \in Nat
           /\ Len(toClient) \in Nat /\ Len(cliIn) \in Nat /\ Len(outgoing) \in Nat
           /\ Len(clientBuf.got) \in Nat /\ Len(serverBuf.got) \in Nat
           /\ clientBuf.got \in Seq(Unit) /\ serverBuf.got \in Seq(Unit)
  BY DEF TypeOK, Buffer

LEMMA NothingIsPartial ==
    ASSUME NEW id, NEW size \in Nat
    PROVE  Partial(NothingRead, id, size)
  BY ReadSessionAssumption DEF Partial, NothingRead, Run

\* A call for which nothing is under way will not be answered, but it may wait.
LEMMA NoAnswer ==
    ASSUME Still', clientBuf' = NothingRead
    PROVE  Answering'
  <1>1. /\ toClient' = <<>> /\ cliIn' = <<>> /\ outgoing' = <<>>
        /\ NoRequest' /\ server' = "wait"
    BY DEF Still, NoResponse
  <1>2. Partial(clientBuf', call', 1)
    BY NothingIsPartial
  <1>3. Len(clientBuf'.got) = 0
    BY DEF NothingRead
  <1>4. UnderWay(1)'
    BY <1>1, <1>2, <1>3, ReadSessionAssumption DEF UnderWay, Run
  <1>5. QED
    BY <1>1, <1>4 DEF Answering

LEMMA RequestClean ==
    ASSUME IInv, Request, clean, TypeOK'
    PROVE  client' = "reading" /\ call' # Failed /\ (Asking' \/ Answering')
  <1> USE DEF IInv
  <1>1. /\ Still /\ call' = call + 1 /\ client' = "reading" /\ clientBuf' = NothingRead
        /\ UNCHANGED <<srvIn, toClient, cliIn, server, serverBuf, serving, outgoing, srvOpen>>
    BY DEF Request, CleanInv, serverVars
  <1>2. call' # Failed /\ call + 1 \in Ids
    BY <1>1 DEF TypeOK, Failed, Ids
  <1>3. CASE srvOpen
    <2>1. /\ toServer = <<>> /\ srvIn' = <<>> /\ serverBuf' = NothingRead
          /\ NoResponse' /\ server' = "wait" /\ srvOpen'
      BY <1>1, <1>3 DEF Still, NoRequest, NoResponse
    <2>2. /\ Frame(call + 1, RequestUnits) \in Seq(Unit)
          /\ Len(Frame(call + 1, RequestUnits)) = HeaderUnits + RequestUnits
          /\ Run(Frame(call + 1, RequestUnits), 0, call + 1, RequestUnits)
      BY <1>2, FrameRun, ReadSessionAssumption
    <2>3. toServer' = Frame(call + 1, RequestUnits)
      BY <1>3, <2>1, <2>2 DEF Request
    <2>4. Partial(serverBuf', call', RequestUnits) /\ Len(serverBuf'.got) = 0
      BY <2>1, NothingIsPartial, ReadSessionAssumption DEF NothingRead
    <2>5. Len(srvIn') = 0 /\ Run(srvIn', Len(serverBuf'.got), call', RequestUnits)
      BY <2>1 DEF Run
    <2>6. Run(toServer', Len(serverBuf'.got) + Len(srvIn'), call', RequestUnits)
      BY <1>1, <2>2, <2>3, <2>4, <2>5
    <2>7. Len(serverBuf'.got) + Len(srvIn') + Len(toServer') = HeaderUnits + RequestUnits
      BY <2>2, <2>3, <2>4, <2>5, ReadSessionAssumption
    <2>8. QED
      BY <1>1, <1>2, <2>1, <2>4, <2>5, <2>6, <2>7 DEF Asking
  <1>4. CASE ~srvOpen
    <2>1. toServer' = toServer
      BY <1>4 DEF Request
    <2>2. Still'
      BY <1>1, <2>1 DEF Still, NoRequest, NoResponse
    <2>3. QED
      BY <1>1, <1>2, <2>2, NoAnswer
  <1>5. QED
    BY <1>3, <1>4

\* The reader ends exactly behind the frame, so nothing is left.
LEMMA ClientRecvClean ==
    ASSUME IInv, ClientRecv, clean, TypeOK'
    PROVE  \/ client' = "idle" /\ Still' /\ answer' = call /\ call' = call
           \/ UNCHANGED <<client, call, answer>> /\ Answering'
  <1> USE DEF IInv
  <1>1. /\ UNCHANGED <<toServer, srvIn, toClient, server, serverBuf, serving, outgoing, srvOpen>>
        /\ client = "reading" /\ cliIn # <<>> /\ cliIn' = Tail(cliIn)
    BY DEF ClientRecv, serverVars
  <1>2. Answering /\ call \in 1..MaxCalls
    BY <1>1 DEF CleanInv, Asking, Thinking, NoResponse, TypeOK, Failed
  <1>3. PICK size \in Nat \ {0} : UnderWay(size)
    BY <1>2 DEF Answering
  <1>4. /\ Partial(clientBuf, call, size)
        /\ Run(cliIn, Len(clientBuf.got), call, size)
        /\ Run(toClient, Len(clientBuf.got) + Len(cliIn), call, size)
        /\ Run(outgoing, Len(clientBuf.got) + Len(cliIn) + Len(toClient), call, size)
        /\ Len(clientBuf.got) + Len(cliIn) + Len(toClient) + Len(outgoing)
               <= HeaderUnits + size
    BY <1>3 DEF UnderWay
  <1>5. /\ Head(cliIn) \in Unit
        /\ Head(cliIn) = [id |-> call, pos |-> Len(clientBuf.got) + 1, size |-> size]
        /\ Len(cliIn') = Len(cliIn) - 1
        /\ Run(cliIn', Len(clientBuf.got) + 1, call, size)
    <2>1. cliIn \in Seq(Unit) /\ Len(clientBuf.got) \in Nat
      BY Lens DEF TypeOK
    <2>2. QED
      BY <1>1, <1>4, <2>1, HeadOfRun
  <1>6. PICK buf \in Received(clientBuf, Head(cliIn)) :
            IF Complete(buf) THEN \E result \in Parsed(buf) : Returns(result)
            ELSE clientBuf' = buf /\ UNCHANGED <<client, call, answer>>
    BY DEF ClientRecv
  <1>7. clientBuf \in Buffer
    BY DEF TypeOK
  <1>8. /\ Len(buf.got) = Len(clientBuf.got) + 1
        /\ Complete(buf) <=> Len(buf.got) = HeaderUnits + size
        /\ Complete(buf) => Parsed(buf) = {call}
        /\ ~Complete(buf) => Partial(buf, call, size)
    <2>1. Partial(clientBuf, call, size)
      BY <1>4
    <2>2. buf \in Received(clientBuf, NextUnit(clientBuf, call, size))
      BY <1>5, <1>6 DEF NextUnit
    <2>3. QED
      BY <1>2, <1>7, <2>1, <2>2, ReceivedRun
  <1>9. CASE Complete(buf)
    <2>1. Returns(call)
      BY <1>6, <1>8, <1>9
    <2>2. Len(cliIn') = 0 /\ Len(toClient) = 0 /\ Len(outgoing) = 0
      <3>1. Len(clientBuf.got) + 1 = HeaderUnits + size
        BY <1>8, <1>9
      <3>2. /\ Len(clientBuf.got) \in Nat /\ Len(cliIn) \in Nat \ {0}
            /\ Len(toClient) \in Nat /\ Len(outgoing) \in Nat
        BY <1>1, Lens
      <3>3. QED
        BY <1>4, <1>5, <3>1, <3>2
    <2>3. cliIn' = <<>> /\ toClient' = <<>> /\ outgoing' = <<>>
      BY <1>1, <2>2 DEF TypeOK
    <2>4. Still'
      BY <1>1, <1>2, <2>3 DEF Still, Answering, NoRequest, NoResponse
    <2>5. QED
      BY <2>1, <2>4 DEF Returns
  <1>10. CASE ~Complete(buf)
    <2>1. clientBuf' = buf /\ UNCHANGED <<client, call, answer>> /\ Partial(buf, call, size)
      BY <1>6, <1>8, <1>10
    <2>2. /\ Len(clientBuf'.got) = Len(clientBuf.got) + 1
          /\ Len(clientBuf'.got) + Len(cliIn') = Len(clientBuf.got) + Len(cliIn)
      <3>1. /\ Len(clientBuf.got) \in Nat /\ Len(cliIn) \in Nat
            /\ Len(cliIn') = Len(cliIn) - 1
            /\ Len(clientBuf'.got) = Len(clientBuf.got) + 1
        BY <1>5, <1>8, <2>1, Lens
      <3>2. QED
        BY <3>1
    <2>3. UnderWay(size)'
      BY <1>1, <1>4, <1>5, <2>1, <2>2 DEF UnderWay
    <2>4. Answering'
      BY <1>1, <1>2, <2>3 DEF Answering, NoRequest
    <2>5. QED
      BY <2>1, <2>4
  <1>11. QED
    BY <1>9, <1>10

\* The server reads the request to its end and knows whose it is.
LEMMA ServerRecvClean ==
    ASSUME IInv, ServerRecv, clean, TypeOK'
    PROVE  client = "reading" /\ (Asking' \/ Thinking')
  <1> USE DEF IInv
  <1>1. /\ UNCHANGED <<toClient, cliIn, clientBuf, client, call, outgoing>>
        /\ srvOpen /\ srvIn # <<>>
    BY DEF ServerRecv, clientVars, DropClient
  <1>2. client = "reading" /\ Asking /\ call \in 1..MaxCalls
    BY <1>1 DEF CleanInv, Still, Thinking, Answering, NoRequest, TypeOK, Failed
  <1>3. /\ Partial(serverBuf, call, RequestUnits)
        /\ Run(srvIn, Len(serverBuf.got), call, RequestUnits)
        /\ Run(toServer, Len(serverBuf.got) + Len(srvIn), call, RequestUnits)
        /\ Len(serverBuf.got) + Len(srvIn) + Len(toServer) = HeaderUnits + RequestUnits
        /\ NoResponse /\ clientBuf = NothingRead
    BY <1>2 DEF Asking
  <1>4. /\ Head(srvIn) \in Unit
        /\ Head(srvIn) = [id |-> call, pos |-> Len(serverBuf.got) + 1, size |-> RequestUnits]
        /\ Len(Tail(srvIn)) = Len(srvIn) - 1
        /\ Run(Tail(srvIn), Len(serverBuf.got) + 1, call, RequestUnits)
    <2>1. srvIn \in Seq(Unit) /\ Len(serverBuf.got) \in Nat
      BY Lens DEF TypeOK
    <2>2. QED
      BY <1>1, <1>3, <2>1, HeadOfRun
  <1>5. serverBuf \in Buffer /\ RequestUnits \in Nat \ {0}
    BY ReadSessionAssumption DEF TypeOK
  <1>6. PICK buf \in Received(serverBuf, Head(srvIn)) :
        \/ /\ ~Complete(buf)
           /\ server' = "reading" /\ serverBuf' = buf /\ srvIn' = Tail(srvIn)
           /\ UNCHANGED <<srvOpen, toServer>>
        \/ /\ Complete(buf)
           /\ server' = "reply" /\ serverBuf' = NothingRead /\ serving' = Decoded(buf)
           /\ srvIn' = Tail(srvIn) /\ UNCHANGED <<srvOpen, toServer>>
        \/ Complete(buf) /\ Decoded(buf) = Failed
    BY DEF ServerRecv
  <1>7. /\ Len(buf.got) = Len(serverBuf.got) + 1
        /\ Complete(buf) <=> Len(buf.got) = HeaderUnits + RequestUnits
        /\ Complete(buf) => Decoded(buf) = call
        /\ ~Complete(buf) => Partial(buf, call, RequestUnits)
    <2>1. Partial(serverBuf, call, RequestUnits)
      BY <1>3
    <2>2. buf \in Received(serverBuf, NextUnit(serverBuf, call, RequestUnits))
      BY <1>4, <1>6 DEF NextUnit
    <2>3. QED
      BY <1>2, <1>5, <2>1, <2>2, ReceivedRun
  <1>8. NoResponse' /\ clientBuf' = NothingRead
    BY <1>1, <1>3 DEF NoResponse
  <1>9. CASE ~Complete(buf)
    <2>1. /\ server' = "reading" /\ serverBuf' = buf /\ srvIn' = Tail(srvIn)
          /\ UNCHANGED <<srvOpen, toServer>>
      BY <1>6, <1>9
    <2>2. /\ Len(serverBuf'.got) = Len(serverBuf.got) + 1
          /\ Len(serverBuf'.got) + Len(srvIn') = Len(serverBuf.got) + Len(srvIn)
      <3>1. /\ Len(serverBuf.got) \in Nat /\ Len(srvIn) \in Nat
            /\ Len(srvIn') = Len(srvIn) - 1
            /\ Len(serverBuf'.got) = Len(serverBuf.got) + 1
        BY <1>4, <1>7, <2>1, Lens
      <3>2. QED
        BY <3>1
    <2>3. Asking'
      BY <1>1, <1>3, <1>4, <1>7, <1>8, <1>9, <2>1, <2>2 DEF Asking
    <2>4. QED
      BY <1>2, <2>3
  <1>10. CASE Complete(buf)
    <2>1. Decoded(buf) # Failed
      BY <1>2, <1>7, <1>10 DEF Failed
    <2>2. /\ server' = "reply" /\ serverBuf' = NothingRead /\ serving' = call
          /\ srvIn' = Tail(srvIn) /\ UNCHANGED <<srvOpen, toServer>>
      BY <1>6, <1>7, <1>10, <2>1
    <2>3. Len(srvIn') = 0 /\ Len(toServer') = 0
      <3>1. /\ Len(serverBuf.got) \in Nat /\ Len(srvIn) \in Nat /\ Len(toServer) \in Nat
            /\ Len(srvIn') = Len(srvIn) - 1 /\ Len(toServer') = Len(toServer)
            /\ Len(serverBuf.got) + Len(srvIn) + Len(toServer) = HeaderUnits + RequestUnits
            /\ Len(serverBuf.got) + 1 = HeaderUnits + RequestUnits
            /\ Len(srvIn) # 0
        BY <1>1, <1>3, <1>4, <1>7, <1>10, <2>2, Lens DEF TypeOK
      <3>2. QED
        BY <3>1, ReadSessionAssumption
    <2>4. srvIn' = <<>> /\ toServer' = <<>>
      BY <2>3 DEF TypeOK
    <2>5. QED
      BY <1>1, <1>2, <1>8, <2>2, <2>4 DEF Thinking, NoRequest
  <1>11. QED
    BY <1>9, <1>10

\* A call gives up; only when nothing is under way is the connection still clean.
LEMMA GiveUpClean ==
    ASSUME IInv, ClientTimeout \/ ClientEof, clean'
    PROVE  client' = "idle" /\ answer' = Failed /\ Still'
  <1> USE DEF IInv
  <1>1. /\ UNCHANGED <<toServer, srvIn, toClient, cliIn, server, serverBuf, outgoing>>
        /\ client = "reading" /\ client' = "idle" /\ answer' = Failed
        /\ clean /\ cliIn = <<>>
        /\ Quiet \/ (~srvOpen /\ toClient = <<>>)
    BY DEF ClientTimeout, ClientEof, Returns, network, serverVars, TimesOut, TypeOK
  <1>2. ~Thinking
    BY <1>1 DEF Thinking, Quiet
  <1>3. ~Asking
    <2>1. SUFFICES ASSUME Asking PROVE FALSE
      OBVIOUS
    <2>2. Len(serverBuf.got) < HeaderUnits + RequestUnits
          /\ Len(serverBuf.got) + Len(srvIn) + Len(toServer) = HeaderUnits + RequestUnits
          /\ srvIn = <<>> /\ toServer = <<>>
      BY <1>1, <2>1 DEF Asking, Partial, Quiet
    <2>3. Len(srvIn) = 0 /\ Len(toServer) = 0 /\ Len(serverBuf.got) \in Nat
      BY <2>2, Lens
    <2>4. QED
      BY <2>2, <2>3, ReadSessionAssumption
  <1>4. Answering
    BY <1>1, <1>2, <1>3 DEF CleanInv
  <1>5. toClient = <<>> /\ server = "wait" /\ outgoing = <<>> /\ NoRequest
    BY <1>1, <1>4 DEF Answering, Quiet
  <1>6. Still'
    BY <1>1, <1>5 DEF Still, NoRequest, NoResponse
  <1>7. QED
    BY <1>1, <1>6

LEMMA WouldBlockClean ==
    ASSUME IInv, WouldBlock, clean
    PROVE  client = "reading" /\ Answering'
  <1> USE DEF IInv
  <1>1. /\ UNCHANGED <<toClient, cliIn, clientBuf, outgoing>> /\ server = "reading"
        /\ toServer' = <<>> /\ srvIn' = <<>> /\ server' = "wait" /\ serverBuf' = NothingRead
    BY DEF WouldBlock, DropClient, clientVars
  <1>2. client = "reading" /\ Asking
    BY <1>1 DEF CleanInv, Still, Thinking, Answering
  <1>3. Still' /\ clientBuf' = NothingRead
    BY <1>1, <1>2 DEF Asking, Still, NoRequest, NoResponse
  <1>4. QED
    BY <1>2, <1>3, NoAnswer

LEMMA ReplyClean ==
    ASSUME IInv, Reply, clean
    PROVE  client = "reading" /\ Answering'
  <1> USE DEF IInv
  <1>1. /\ UNCHANGED <<toServer, srvIn, toClient, cliIn, clientBuf, call, serverBuf, srvOpen>>
        /\ server = "reply" /\ srvOpen
    BY DEF Reply, network, clientVars
  <1>2. client = "reading" /\ Thinking
    BY <1>1 DEF CleanInv, Still, Asking, Answering
  <1>3. /\ NoRequest' /\ toClient' = <<>> /\ cliIn' = <<>> /\ outgoing = <<>>
        /\ serving = call /\ clientBuf' = NothingRead
    BY <1>1, <1>2 DEF Thinking, NoRequest, NoResponse
  <1>4. CASE server' = "wait" /\ UNCHANGED outgoing
    <2>1. Still'
      BY <1>3, <1>4 DEF Still, NoResponse
    <2>2. QED
      BY <1>2, <1>3, <2>1, NoAnswer
  <1>5. ASSUME NEW size \in ResponseUnits \ {0}, outgoing' = Frame(serving, size),
               server' = "sending"
        PROVE  Answering'
    <2>1. size \in Nat \ {0} /\ call \in Ids
      BY ReadSessionAssumption DEF TypeOK, Ids
    <2>2. /\ outgoing' \in Seq(Unit) /\ Len(outgoing') = HeaderUnits + size
          /\ Run(outgoing', 0, call, size)
      BY <1>3, <1>5, <2>1, FrameRun
    <2>3. outgoing' # <<>>
      BY <2>1, <2>2, ReadSessionAssumption
    <2>4. Partial(clientBuf', call', size)
      BY <1>3, <2>1, NothingIsPartial
    <2>5. Len(clientBuf'.got) = 0 /\ Len(cliIn') = 0 /\ Len(toClient') = 0
      BY <1>3 DEF NothingRead
    <2>6. Len(clientBuf'.got) + Len(cliIn') + Len(toClient') = 0
      BY <2>5
    <2>7. /\ Run(outgoing', Len(clientBuf'.got) + Len(cliIn') + Len(toClient'), call', size)
          /\ Len(clientBuf'.got) + Len(cliIn') + Len(toClient') + Len(outgoing')
                 <= HeaderUnits + size
      <3>1. 0 + (HeaderUnits + size) <= HeaderUnits + size
        BY <2>1, ReadSessionAssumption
      <3>2. QED
        BY <1>1, <2>2, <2>6, <3>1
    <2>8. UnderWay(size)'
      BY <2>4, <2>5, <2>7 DEF UnderWay, Run
    <2>9. QED
      BY <1>1, <1>3, <1>5, <2>1, <2>3, <2>8 DEF Answering
  <1>6. QED
    BY <1>2, <1>4, <1>5 DEF Reply

\* A unit of the response goes out, or a full socket swallows the rest.
LEMMA SendClean ==
    ASSUME IInv, SendUnit \/ SendWouldBlock, clean, TypeOK', SendingInv'
    PROVE  client = "reading" /\ Answering'
  <1> USE DEF IInv
  <1>1. /\ UNCHANGED <<toServer, srvIn, cliIn, clientBuf, call, serverBuf, srvOpen>>
        /\ server = "sending" /\ server' \in {"wait", "sending"}
    BY DEF SendUnit, SendWouldBlock, network, clientVars
  <1>2. client = "reading" /\ Answering /\ srvOpen /\ outgoing # <<>>
    BY <1>1 DEF CleanInv, Still, Asking, Thinking, Answering
  <1>3. PICK size \in Nat \ {0} : UnderWay(size)
    BY <1>2 DEF Answering
  <1> DEFINE start == Len(clientBuf.got) + Len(cliIn)
  <1>4. /\ Partial(clientBuf, call, size)
        /\ Run(cliIn, Len(clientBuf.got), call, size)
        /\ Run(toClient, start, call, size)
        /\ Run(outgoing, start + Len(toClient), call, size)
        /\ start + Len(toClient) + Len(outgoing) <= HeaderUnits + size
        /\ start \in Nat /\ Len(toClient) \in Nat /\ Len(outgoing) \in Nat
        /\ toClient \in Seq(Unit) /\ outgoing \in Seq(Unit)
        /\ HeaderUnits \in Nat
    <2>1. /\ toClient \in Seq(Unit) /\ outgoing \in Seq(Unit) /\ cliIn \in Seq(Unit)
          /\ HeaderUnits \in Nat
      BY ReadSessionAssumption DEF TypeOK
    <2>2. QED
      BY <1>3, <2>1, Lens DEF UnderWay
  <1>5. start' = start
    BY <1>1
  <1> HIDE DEF start
  <1>6. CASE SendUnit
    <2>1. /\ toClient' = Append(toClient, Head(outgoing)) /\ outgoing' = Tail(outgoing)
          /\ server' = IF Len(outgoing) = 1 THEN "wait" ELSE "sending"
      BY <1>6 DEF SendUnit
    <2>2. /\ Run(toClient', start, call, size)
          /\ Run(outgoing', start + Len(toClient'), call, size)
          /\ Len(toClient') = Len(toClient) + 1 /\ Len(outgoing') = Len(outgoing) - 1
      BY <1>2, <1>4, <2>1, MoveUnit
    <2>3. start + Len(toClient') + Len(outgoing') <= HeaderUnits + size
      BY <1>4, <2>2
    <2>4. UnderWay(size)'
      BY <1>1, <1>4, <1>5, <2>2, <2>3 DEF UnderWay, start
    <2>5. server' = "wait" => outgoing' = <<>>
      <3>1. server' = "wait" => Len(outgoing') = 0
        BY <2>1, <2>2
      <3>2. QED
        BY <3>1 DEF TypeOK
    <2>6. server' = "sending" => outgoing' # <<>>
      BY DEF SendingInv
    <2>7. QED
      BY <1>1, <1>2, <2>4, <2>5, <2>6 DEF Answering, NoRequest
  <1>7. CASE SendWouldBlock
    <2>1. outgoing' = <<>> /\ server' = "wait" /\ toClient' = toClient
      BY <1>7 DEF SendWouldBlock, network
    <2>2. Len(outgoing') = 0 /\ start + Len(toClient) + 0 <= HeaderUnits + size
      BY <1>4, <2>1
    <2>3. UnderWay(size)'
      BY <1>1, <1>4, <1>5, <2>1, <2>2 DEF UnderWay, start, Run
    <2>4. QED
      BY <1>1, <1>2, <2>1, <2>3 DEF Answering, NoRequest
  <1>8. QED
    BY <1>6, <1>7

LEMMA DeliverRequestClean ==
    ASSUME IInv, DeliverRequest, clean
    PROVE  client = "reading" /\ Asking'
  <1> USE DEF IInv
  <1>1. /\ UNCHANGED <<toClient, cliIn, clientBuf, call, server, serverBuf, outgoing, srvOpen>>
        /\ toServer # <<>> /\ srvIn' = Append(srvIn, Head(toServer))
        /\ toServer' = Tail(toServer)
    BY DEF DeliverRequest, clientVars, serverVars
  <1>2. client = "reading" /\ Asking
    BY <1>1 DEF CleanInv, Still, Thinking, Answering, NoRequest
  <1>3. /\ Run(srvIn, Len(serverBuf.got), call, RequestUnits)
        /\ Run(toServer, Len(serverBuf.got) + Len(srvIn), call, RequestUnits)
        /\ Len(serverBuf.got) + Len(srvIn) + Len(toServer) = HeaderUnits + RequestUnits
    BY <1>2 DEF Asking
  <1>4. /\ srvIn \in Seq(Unit) /\ toServer \in Seq(Unit) /\ Len(serverBuf.got) \in Nat
        /\ Len(srvIn) \in Nat /\ Len(toServer) \in Nat
    BY Lens DEF TypeOK
  <1>5. /\ Run(srvIn', Len(serverBuf.got), call, RequestUnits)
        /\ Run(toServer', Len(serverBuf.got) + Len(srvIn'), call, RequestUnits)
        /\ Len(srvIn') = Len(srvIn) + 1 /\ Len(toServer') = Len(toServer) - 1
    BY <1>1, <1>3, <1>4, MoveUnit
  <1>6. Len(serverBuf.got) + Len(srvIn') + Len(toServer') = HeaderUnits + RequestUnits
    <2>1. \A a, b, c \in Nat : a + (b + 1) + (c - 1) = a + b + c
      OBVIOUS
    <2>2. Len(serverBuf.got) + (Len(srvIn) + 1) + (Len(toServer) - 1)
              = HeaderUnits + RequestUnits
      BY <1>3, <1>4, <2>1
    <2>3. Len(srvIn') = Len(srvIn) + 1 /\ Len(toServer') = Len(toServer) - 1
      BY <1>5
    <2>4. QED
      BY <2>2, <2>3
  <1>7. QED
    BY <1>1, <1>2, <1>5, <1>6 DEF Asking, NoResponse

LEMMA DeliverResponseClean ==
    ASSUME IInv, DeliverResponse, clean
    PROVE  client = "reading" /\ Answering'
  <1> USE DEF IInv
  <1>1. /\ UNCHANGED <<toServer, srvIn, clientBuf, call, server, serverBuf, outgoing, srvOpen>>
        /\ toClient # <<>> /\ cliIn' = Append(cliIn, Head(toClient))
        /\ toClient' = Tail(toClient)
    BY DEF DeliverResponse, clientVars, serverVars
  <1>2. client = "reading" /\ Answering
    BY <1>1 DEF CleanInv, Still, Asking, Thinking, NoResponse
  <1>3. PICK size \in Nat \ {0} : UnderWay(size)
    BY <1>2 DEF Answering
  <1> DEFINE start == Len(clientBuf.got)
  <1>4. /\ Partial(clientBuf, call, size)
        /\ Run(cliIn, start, call, size)
        /\ Run(toClient, start + Len(cliIn), call, size)
        /\ Run(outgoing, start + Len(cliIn) + Len(toClient), call, size)
        /\ start + Len(cliIn) + Len(toClient) + Len(outgoing) <= HeaderUnits + size
        /\ start \in Nat /\ Len(cliIn) \in Nat /\ Len(toClient) \in Nat
        /\ Len(outgoing) \in Nat /\ toClient \in Seq(Unit) /\ cliIn \in Seq(Unit)
        /\ HeaderUnits \in Nat
    <2>1. /\ toClient \in Seq(Unit) /\ outgoing \in Seq(Unit) /\ cliIn \in Seq(Unit)
          /\ HeaderUnits \in Nat
      BY ReadSessionAssumption DEF TypeOK
    <2>2. QED
      BY <1>3, <2>1, Lens DEF UnderWay
  <1>5. start' = start
    BY <1>1
  <1> HIDE DEF start
  <1>6. /\ Run(cliIn', start, call, size)
        /\ Run(toClient', start + Len(cliIn'), call, size)
        /\ Len(cliIn') = Len(cliIn) + 1 /\ Len(toClient') = Len(toClient) - 1
    BY <1>1, <1>4, MoveUnit
  <1>7. start + Len(cliIn') + Len(toClient') = start + Len(cliIn) + Len(toClient)
    BY <1>4, <1>6
  <1>8. UnderWay(size)'
    BY <1>1, <1>4, <1>5, <1>6, <1>7 DEF UnderWay, start
  <1>9. QED
    BY <1>1, <1>2, <1>8 DEF Answering, NoRequest

-----------------------------------------------------------------------------
(* The theorem *)

LEMMA InitClean == Init => IInv
  BY InitType DEF Init, IInv, CleanInv, Still, NoRequest, NoResponse, CleanSessionIsExact

\* Every step of the client, of the server and of the network.
THEOREM Inductive == IInv /\ [Next]_vars => IInv'
  <1> SUFFICES ASSUME IInv, [Next]_vars, TypeOK', SendingInv'
               PROVE  CleanInv' /\ CleanSessionIsExact'
    BY TypeInductive DEF IInv
  <1> USE DEF CleanInv
  <1>1. IInv
    OBVIOUS
  <1>2. CASE Connect
    BY <1>2 DEF Connect, Still, NoRequest, NoResponse, CleanSessionIsExact
  <1>3. CASE Request
    BY <1>3, RequestClean DEF Request, CleanSessionIsExact
  <1>4. CASE RequestFails
    BY <1>4 DEF RequestFails, CleanSessionIsExact
  <1>5. CASE ClientRecv
    <2>1. UNCHANGED clean /\ client = "reading"
      BY <1>5 DEF ClientRecv
    <2>2. QED
      BY <1>1, <1>5, <2>1, ClientRecvClean DEF IInv, CleanSessionIsExact
  <1>6. CASE ClientTimeout \/ ClientEof
    BY <1>6, GiveUpClean DEF CleanSessionIsExact
  <1>7. ASSUME UNCHANGED <<client, call, answer, clean>>,
               clean => client = "reading" /\ (Asking' \/ Thinking' \/ Answering')
        PROVE  CleanInv' /\ CleanSessionIsExact'
    BY <1>1, <1>7 DEF IInv, CleanSessionIsExact
  <1>8. CASE ServerRecv
    BY <1>7, <1>8, ServerRecvClean DEF ServerRecv, clientVars
  <1>9. CASE WouldBlock
    BY <1>7, <1>9, WouldBlockClean DEF WouldBlock, clientVars
  <1>10. CASE Reply
    BY <1>7, <1>10, ReplyClean DEF Reply, clientVars
  <1>11. CASE SendUnit \/ SendWouldBlock
    BY <1>7, <1>11, SendClean DEF SendUnit, SendWouldBlock, clientVars
  <1>12. CASE DeliverRequest
    BY <1>7, <1>12, DeliverRequestClean DEF DeliverRequest, clientVars
  <1>13. CASE DeliverResponse
    BY <1>7, <1>13, DeliverResponseClean DEF DeliverResponse, clientVars
  <1>14. CASE UNCHANGED vars
    <2>1. UNCHANGED <<toServer, srvIn, toClient, cliIn, client, clientBuf, call, answer,
                      server, serverBuf, serving, outgoing, srvOpen, clean>>
      BY <1>14 DEF vars, network, clientVars, serverVars
    <2>2. CleanSessionIsExact'
      BY <1>1, <2>1 DEF IInv, CleanSessionIsExact
    <2>3. CleanInv'
      BY <1>1, <2>1 DEF IInv, Still, Asking, Thinking, Answering, UnderWay,
                        NoRequest, NoResponse
    <2>4. QED
      BY <2>2, <2>3
  <1>15. QED
    BY <1>2, <1>3, <1>4, <1>5, <1>6, <1>8, <1>9, <1>10, <1>11, <1>12, <1>13, <1>14
       DEF Next, ClientStep, ServerStep

\* The answer of a call on a clean connection is the whole answer to that very
\* call, however TCP cuts the frames of TcpSocket up, whatever a full socket
\* truncates, and although calls without an answer precede it.
THEOREM SessionCorrect == Spec => []CleanSessionIsExact
  <1>1. IInv => CleanSessionIsExact
    BY DEF IInv
  <1>2. QED
    BY <1>1, InitClean, Inductive, PTL DEF Spec

=============================================================================
