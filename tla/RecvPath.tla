------------------------------ MODULE RecvPath ------------------------------
(***************************************************************************)
(* The receive path of one session: AcceptThread's first WSARecv, the      *)
(* kernel that fills the one or two pieces of the receive buffer RecvPost  *)
(* described, the worker's parse loop (CNetServer.cpp:293-299, 386-429,    *)
(* 509-583) over CRingBuffer and CNetPacket, and what JobHandler and Login *)
(* read from the packet and write into the response.                       *)
(*                                                                         *)
(* The client's byte stream is a sequence of messages.  A byte is          *)
(* identified by its position in the stream, so that a byte out of place   *)
(* is noticed; what a header or a byte of a payload says is looked up in   *)
(* the message it belongs to, as the client's CNetPacket encoded it.  A    *)
(* message is "good", has a wrong header code ("code") or a wrong last     *)
(* byte ("decode").  SingleReceiver of CNetServer is why one thread at a   *)
(* time is enough here.                                                    *)
(***************************************************************************)
EXTENDS CRingBuffer, CNetPacket

CONSTANTS Header,       \* sizeof(NetHeader)
          MaxLen,       \* bound: the largest header.len
          Samples,      \* bound: what clients send, [payload, randKey]
          AccountSize,  \* sizeof(INT64), the bytes of an account number
          RandKeys,     \* bound: the values of rand() % 256 for a response
          FreePackets,  \* bound: the packets a session finds in the pool
          MaxMessages   \* bound: the messages of a client

(* The part of a response that is kept here fits into a packet.  Nothing is  *)
(* assumed of the messages: the code does not compare header.len with the    *)
(* room of a packet.                                                         *)
ASSUME MessageAssumption ==
    /\ Header \in Nat \ {0} /\ MaxMessages \in Nat /\ MaxLen \in Nat
    /\ AccountSize \in Nat /\ AccountSize + 3 <= PayloadRoom
    /\ RandKeys \subseteq Byte
    /\ FreePackets # {} /\ \A p \in FreePackets : Empty(p)
    /\ \A s \in Samples : /\ s.payload \in Seq(Byte) /\ Len(s.payload) <= MaxLen
                          /\ s.randKey \in Byte

VARIABLES
    buffer, iFront, iRear,  \* recvQ
    stream,                 \* the messages the client sends, first to last
    sent,                   \* how many bytes of them the kernel has delivered
    pieces,                 \* the WSABUF array of the pending WSARecv
    transferred,            \* dwTransferred
    delivered,              \* the messages passed to OnRecv
    packet, reply,          \* the received packet and the response
    accountNo,              \* the bytes of _accountNo of the session's Character
    disconnects,            \* the messages for which Disconnect was called; the
                            \* socket is invalid from the first one on
    pc

vars == <<buffer, iFront, iRear, stream, sent, pieces, transferred, delivered,
          packet, reply, accountNo, disconnects, pc>>

packetVars == <<packet, reply, accountNo, disconnects>>

-----------------------------------------------------------------------------
(* a WORD and an INT64 are read and written byte by byte, the lowest first *)
en_PACKET_CS_LOGIN_REQ_LOGIN == <<101, 0>>
en_PACKET_CS_LOGIN_RES_LOGIN == <<102, 0>>
NoAccount == [i \in 1 .. AccountSize |-> 255]     \* -1
SessionKeySize == 64

Message == [kind : {"good", "code", "decode"}, sample : Samples]

(* a message as it is on the wire, encoded by the client in a buffer that is *)
(* large enough                                                              *)
Packed(payload) == [NewPacket EXCEPT !.bytes = payload, !.writePos = Len(payload)]
Wire == [m \in Message |->
    LET p    == Encode(Packed(m.sample.payload), m.sample.randKey)
        last == GetTotalSize(p)
    IN  CASE m.kind = "good" -> p
          [] m.kind = "code" -> [p EXCEPT !.header.code = 0]
          [] m.kind = "decode" ->
                IF last = 0 THEN [p EXCEPT !.header.chkSum = Xor[@][1]]
                ELSE [p EXCEPT !.bytes[last] = Xor[@][1]]]

(* End[k] is the stream position of the last byte of message k *)
Ends(ms) == [k \in 0 .. Len(ms) |->
               LET f[j \in 0 .. k] == IF j = 0 THEN 0
                                      ELSE f[j - 1] + Header + Wire[ms[j]].header.len
               IN  f[k]]

End == Ends(stream)

StreamSize == End[Len(stream)]

(* the messages whose header is the byte string data *)
HeaderOf(data) == {k \in 1 .. Len(stream) :
    data = [i \in 1 .. Header |-> End[k - 1] + i]}

(* the payload bytes at the given positions of the stream; what is no        *)
(* payload byte reads as 0                                                   *)
PayloadBytes(data) == [i \in DOMAIN data |->
    LET ks == {k \in 1 .. Len(stream) : data[i] \in End[k - 1] + Header + 1 .. End[k]}
    IN  IF ks = {} THEN 0
        ELSE LET k == CHOOSE j \in ks : TRUE
             IN  Wire[stream[k]].bytes[data[i] - End[k - 1] - Header]]

Piece(at, len) == [at |-> at, len |-> len]

PiecesSize(ps) == IF Len(ps) = 1 THEN ps[1].len ELSE ps[1].len + ps[2].len

Init ==
    /\ buffer = [i \in Indexes |-> 0]
    /\ iFront = 0
    /\ iRear = 0
    /\ stream = << >>
    /\ sent = 0
    /\ pieces = << >>
    /\ transferred = 0
    /\ delivered = << >>
    /\ packet \in FreePackets
    /\ reply \in FreePackets
    /\ accountNo = NoAccount
    /\ disconnects = {}
    /\ pc = "Accept"

(* the client decides what it will send; one bad message at most, as the     *)
(* session ends there                                                        *)
ClientSend ==
    /\ pc = "Accept"
    /\ Len(stream) < MaxMessages
    /\ \E m \in Message :
          /\ m.kind = "good" \/ \A k \in DOMAIN stream : stream[k].kind = "good"
          /\ stream' = Append(stream, m)
    /\ UNCHANGED <<buffer, iFront, iRear, sent, pieces, transferred, delivered,
                   packetVars, pc>>

(* AcceptThread: ClearBuffer and a WSARecv into the first piece *)
AcceptRecvKeepsBytes ==   \* faulty variant
    /\ pc = "Accept"
    /\ pieces' = <<Piece(GetRearBufferPtr(iRear), DirectEnqueueSize(iFront, iRear))>>
    /\ accountNo' = NoAccount
    /\ pc' = "Pending"
    /\ UNCHANGED <<buffer, iFront, iRear, stream, sent, transferred, delivered,
                   packet, reply, disconnects>>

AcceptRecv ==
    /\ pc = "Accept"
    /\ iFront' = 0
    /\ iRear' = 0
    /\ pieces' = <<Piece(GetRearBufferPtr(0), DirectEnqueueSize(0, 0))>>
    /\ pc' = "Pending"
    /\ accountNo' = NoAccount
    /\ UNCHANGED <<buffer, stream, sent, transferred, delivered, packet, reply,
                   disconnects>>

(* the kernel copies n bytes of the stream into the pieces, in order *)
Fill(n) ==
    LET data == [i \in 1 .. n |-> sent + i]
        k == Lesser(n, pieces[1].len)
    IN  IF Len(pieces) = 1
        THEN Store(buffer, pieces[1].at, data)
        ELSE StorePieces(buffer, pieces[1].at, k, pieces[2].at, data)

Receive ==
    /\ pc = "Pending"
    /\ \E n \in 1 .. Lesser(PiecesSize(pieces), StreamSize - sent) :
          /\ buffer' = Fill(n)
          /\ sent' = sent + n
          /\ transferred' = n
    /\ pc' = "MoveRear"
    /\ UNCHANGED <<iFront, iRear, stream, pieces, delivered, packetVars>>

(* no byte: the client closed, or the WSARecv had no room for one *)
ReceiveNothing ==
    /\ pc = "Pending"
    /\ pc' = "Released"
    /\ UNCHANGED <<buffer, iFront, iRear, stream, sent, pieces, transferred,
                   delivered, packetVars>>

(* MoveRear(dwTransferred); CrashDump::Crash() if it does not move that far *)
WorkerMoveRear ==
    /\ pc = "MoveRear"
    /\ iRear' = EnqRear(iFront, iRear, transferred)
    /\ pc' = IF EnqSize(iFront, iRear, transferred) = transferred
             THEN "Parse" ELSE "Crash"
    /\ transferred' = 0
    /\ UNCHANGED <<buffer, iFront, stream, sent, pieces, delivered, packetVars>>

(* One round of the parse loop.  Bytes that are no header at all read as a   *)
(* wrong code.  A message with a wrong code stays in the buffer; one that    *)
(* Decode rejects is gone.                                                   *)
(*                                                                           *)
(* Nothing keeps header.len below the room of a packet.  A longer message    *)
(* overruns it, which is undefined: the bytes may simply be in the memory    *)
(* behind the packet, while MoveWritePos stops at its end, or anything may   *)
(* happen ("Overrun").                                                       *)
Received(header, data) ==
    LET behind == header.len - PayloadRoom
        room   == PayloadRoom + (IF behind > 0 THEN behind ELSE 0)
    IN  MoveWritePos([packet EXCEPT
                        !.header = header,
                        !.bytes  = [i \in 1 .. room |->
                                      IF i \in DOMAIN data THEN data[i] ELSE @[i]]],
                     header.len)

WorkerParse ==
    LET use    == GetUseSize(iFront, iRear)
        peek   == DeqData(buffer, iFront, iRear, Header)
        k      == CHOOSE j \in HeaderOf(peek) : TRUE
        header == Wire[stream[k]].header
        size   == Header + header.len
        data   == DeqData(buffer, iFront, iRear, size)
        got    == Decode(Received(header,
                         PayloadBytes(SubSeq(data, Header + 1, Len(data)))))
        Disconnect == disconnects' = disconnects \cup {Len(delivered) + 1}
    IN  /\ pc = "Parse"
        /\ IF use < Header
           THEN pc' = "RecvPost" /\ UNCHANGED <<iFront, delivered, packet, disconnects>>
           ELSE IF HeaderOf(peek) = {} \/ header.code # dfPACKET_CODE
           THEN pc' = "RecvPost" /\ Disconnect /\ UNCHANGED <<iFront, delivered, packet>>
           ELSE IF use < size
           THEN pc' = "RecvPost" /\ UNCHANGED <<iFront, delivered, packet, disconnects>>
           ELSE \/ /\ header.len > PayloadRoom
                   /\ pc' = "Overrun"
                   /\ UNCHANGED <<iFront, delivered, packet, disconnects>>
                \/ /\ iFront' = DeqFront(iFront, iRear, size)
                   /\ IF ChecksOut(got)
                      THEN /\ delivered' = Append(delivered, data)
                           /\ packet' = got
                           /\ pc' = "OnRecv"
                           /\ UNCHANGED disconnects
                      ELSE /\ packet' = Clear(got)
                           /\ pc' = "RecvPost"
                           /\ Disconnect
                           /\ UNCHANGED delivered
        /\ UNCHANGED <<buffer, iRear, stream, sent, pieces, transferred, reply,
                       accountNo>>

(* JobHandler and Login.  GetData copies as many bytes of a field as there   *)
(* are and leaves the others as they were: those of type are uninitialised,  *)
(* those of _accountNo are of an earlier request.  The data bases decide     *)
(* whether the login succeeds.  The fields of the response behind isSuccess  *)
(* are left out.  A client whose login failed is disconnected, and the parse *)
(* loop goes on.                                                             *)
IsPrefixOf(s, t) == Len(s) <= Len(t) /\ \A i \in 1 .. Len(s) : s[i] = t[i]

Overwritten(field, read) ==
    [i \in DOMAIN field |-> IF i <= Len(read) THEN read[i] ELSE field[i]]

Response(account, isSuccess) ==
    StreamIn(StreamIn(StreamIn(reply, en_PACKET_CS_LOGIN_RES_LOGIN), account),
             <<isSuccess>>)

OnRecv ==
    LET type == Data(packet, 2)
        rest == StreamOut(packet, 2)
    IN  /\ pc = "OnRecv"
        /\ \/ /\ type # en_PACKET_CS_LOGIN_REQ_LOGIN
              /\ packet' = rest
              /\ UNCHANGED <<reply, accountNo, disconnects>>
           \/ /\ IsPrefixOf(type, en_PACKET_CS_LOGIN_REQ_LOGIN)
              /\ packet' = GetData(StreamOut(rest, AccountSize), SessionKeySize)
              /\ accountNo' = Overwritten(accountNo, Data(rest, AccountSize))
              /\ \E isSuccess \in {0, 1}, randKey \in RandKeys :
                    /\ reply' = Encode(Response(accountNo', isSuccess), randKey)
                    /\ disconnects' = IF isSuccess = 1 THEN disconnects
                                      ELSE disconnects \cup {Len(delivered)}
        /\ pc' = "Free"
        /\ UNCHANGED <<buffer, iFront, iRear, stream, sent, pieces, transferred,
                       delivered>>

(* CNetPacket::Free of both; the next message may get the same objects *)
WorkerFree ==
    /\ pc = "Free"
    /\ packet' = Clear(packet)
    /\ reply' = Clear(reply)
    /\ pc' = "Parse"
    /\ UNCHANGED <<buffer, iFront, iRear, stream, sent, pieces, transferred,
                   delivered, accountNo, disconnects>>

(* RecvPost: the second piece is described only if the first is not all.     *)
(* After a Disconnect WSARecv fails, and the session is released.            *)
RecvPostOverlaps ==   \* faulty variant
    LET first == Piece(GetRearBufferPtr(iRear), DirectEnqueueSize(iFront, iRear))
    IN  /\ pc = "RecvPost"
        /\ \/ /\ disconnects = {}
              /\ pieces' = IF GetFreeSize(iFront, iRear) <= first.len
                           THEN <<first>>
                           ELSE <<first, Piece(0, GetFrontBufferPtr(iFront))>>
              /\ pc' = "Pending"
           \/ /\ disconnects # {}
              /\ pc' = "Released"
              /\ UNCHANGED pieces
        /\ UNCHANGED <<buffer, iFront, iRear, stream, sent, transferred, delivered,
                       packetVars>>

RecvPost ==
    LET first == Piece(GetRearBufferPtr(iRear), DirectEnqueueSize(iFront, iRear))
    IN  /\ pc = "RecvPost"
        /\ \/ /\ disconnects = {}
              /\ pieces' = IF GetFreeSize(iFront, iRear) <= first.len
                           THEN <<first>>
                           ELSE <<first, Piece(0, GetFrontBufferPtr(iFront) - 1)>>
              /\ pc' = "Pending"
           \/ /\ disconnects # {}
              /\ pc' = "Released"
              /\ UNCHANGED pieces
        /\ UNCHANGED <<buffer, iFront, iRear, stream, sent, transferred, delivered,
                       packetVars>>

(* the slot is given to another client; recvQ keeps what it held, and the    *)
(* pool may have other packets by then                                       *)
Reuse ==
    /\ pc = "Released"
    /\ stream' = << >>
    /\ sent' = 0
    /\ pieces' = << >>
    /\ delivered' = << >>
    /\ disconnects' = {}
    /\ pc' = "Accept"
    /\ packet' \in FreePackets
    /\ reply' \in FreePackets
    /\ UNCHANGED <<buffer, iFront, iRear, transferred, accountNo>>

Next == \/ ClientSend \/ AcceptRecv \/ Receive \/ ReceiveNothing \/ WorkerMoveRear
        \/ WorkerParse \/ OnRecv \/ WorkerFree \/ RecvPost \/ Reuse

Spec == Init /\ [][Next]_vars

-----------------------------------------------------------------------------
(* the bytes of message k *)
BytesOf(k) == [i \in 1 .. Header + Wire[stream[k]].header.len |-> End[k - 1] + i]

(* The parse loop takes exactly the client's messages out of the buffer and  *)
(* calls OnRecv for them, whole and in order, up to the first bad one,       *)
(* however the kernel cuts the stream into completions and wherever messages *)
(* wrap around the end of the buffer.                                        *)
DeliveredInOrder ==
    /\ Len(delivered) <= Len(stream)
    /\ \A k \in 1 .. Len(delivered) :
          stream[k].kind = "good" /\ delivered[k] = BytesOf(k)

(* The assertion behind CrashDump::Crash() in the receive logic holds: the   *)
(* kernel never transfers more than MoveRear can account for.                *)
NeverCrashes == pc # "Crash"

(* the part of a payload that a packet holds, and what it says to Login *)
Visible(k) == LET payload == stream[k].sample.payload
              IN  SubSeq(payload, 1, AtMost(Len(payload), PayloadRoom))
TypeOf(k) == SubSeq(Visible(k), 1, AtMost(2, Len(Visible(k))))
IsLogin(k) == TypeOf(k) = en_PACKET_CS_LOGIN_REQ_LOGIN
MayBeLogin(k) == IsPrefixOf(TypeOf(k), en_PACKET_CS_LOGIN_REQ_LOGIN)

(* A client is disconnected only for a bad message, the one it sent after    *)
(* the delivered ones, or for a delivered one that Login took for a request, *)
(* whose login failed; and no receive is posted after that.  A message too   *)
(* short for a type may be taken for a request, too.                         *)
DisconnectedForCause ==
    /\ \A k \in disconnects :
          /\ k \in 1 .. Len(stream)
          /\ \/ k = Len(delivered) + 1 /\ stream[k].kind # "good"
             \/ k <= Len(delivered) /\ MayBeLogin(k)
    /\ pc \in {"Pending", "MoveRear"} => disconnects = {}

(* What OnRecv can read from the packet is the payload the client packed, as *)
(* much of it as a packet holds, and the response decodes to what Login      *)
(* wrote: whether the login succeeded, and an account number of which every  *)
(* byte is from the last request that was long enough to have one there.     *)
(* Only for requests that are long enough is that the account of one         *)
(* request.  It takes Encode and Decode to be inverse to each other and      *)
(* nothing of an earlier message to be left in a packet from the pool.       *)
Naming(n, i) == {k \in 1 .. n : IsLogin(k) /\ 2 + i <= Len(Visible(k))}
LastOf(ks) == CHOOSE k \in ks : \A j \in ks : j <= k
AccountByte(n, i) == IF Naming(n, i) = {} THEN 255
                     ELSE Visible(LastOf(Naming(n, i)))[2 + i]
Account(n) == [i \in 1 .. AccountSize |-> AccountByte(n, i)]
PayloadIntact ==
    /\ pc = "OnRecv" => Data(packet, PayloadRoom) = Visible(Len(delivered))
    /\ pc = "Free" /\ GetTotalSize(reply) > 0 =>
          LET got == Decode(reply)
              ok  == IF Len(delivered) \in disconnects THEN 0 ELSE 1
          IN  /\ got.header.code = dfPACKET_CODE
              /\ ChecksOut(got)
              /\ SubSeq(got.bytes, 1, got.header.len) =
                    en_PACKET_CS_LOGIN_RES_LOGIN \o Account(Len(delivered)) \o <<ok>>

(* The pieces given to a pending WSARecv are the free part of the buffer:    *)
(* inside the array, disjoint from the bytes not parsed yet and, after       *)
(* RecvPost, all of it.                                                      *)
PieceIndexes(p) == p.at .. p.at + p.len - 1
UsedIndexes == {(iFront + i) % iTotalSize : i \in 1 .. GetUseSize(iFront, iRear)}
PiecesAreFree ==
    pc = "Pending" =>
        /\ \A j \in 1 .. Len(pieces) :
              /\ pieces[j].len >= 0
              /\ PieceIndexes(pieces[j]) \subseteq Indexes \ (UsedIndexes \cup {iFront})
        /\ PiecesSize(pieces) = GetFreeSize(iFront, iRear)

(* A WSARecv always has room for at least one byte, so a completion without  *)
(* bytes means that the client closed, as the worker takes it.  This needs   *)
(* every message of a client to fit into the buffer.                         *)
RecvHasRoom ==
    pc = "Pending" /\ Header + MaxLen <= GetBufferSize => PiecesSize(pieces) > 0

-----------------------------------------------------------------------------
(* The inductive invariant behind these properties. *)

PcOK == pc \in {"Accept", "Pending", "MoveRear", "Parse", "OnRecv", "Free",
                "RecvPost", "Overrun", "Released"}

(* what RecvPost describes, and AcceptThread after ClearBuffer *)
FreePieces ==
    LET first == Piece(GetRearBufferPtr(iRear), DirectEnqueueSize(iFront, iRear))
    IN  IF GetFreeSize(iFront, iRear) <= first.len THEN <<first>>
        ELSE <<first, Piece(0, GetFrontBufferPtr(iFront) - 1)>>

(* A WSARecv is given the free part of the buffer, in which there is room if *)
(* a message fits, and MoveRear the number of bytes put there.               *)
BufferOK ==
    /\ iFront \in Indexes /\ iRear \in Indexes
    /\ buffer \in [Indexes -> Nat]
    /\ transferred \in Nat
    /\ pc = "Pending" => pieces = FreePieces
    /\ pc = "MoveRear" => transferred \in 1 .. GetFreeSize(iFront, iRear)
    /\ pc \in {"Pending", "RecvPost"} /\ disconnects = {} =>
          GetUseSize(iFront, iRear) < Header + MaxLen

(* Until a message is rejected, the bytes behind iFront are those of the     *)
(* stream behind the last delivered message, the ones not announced by       *)
(* MoveRear yet included.                                                    *)
Receiving == \/ pc \in {"Pending", "MoveRear", "Parse", "OnRecv", "Free"}
             \/ (pc = "RecvPost" /\ disconnects = {})
Stored == GetUseSize(iFront, iRear) + (IF pc = "MoveRear" THEN transferred ELSE 0)
StreamOK ==
    /\ stream \in Seq(Message) /\ sent \in Nat /\ delivered \in Seq(Seq(Nat))
    /\ pc = "Accept" => sent = 0 /\ delivered = << >> /\ disconnects = {}
    /\ Receiving =>
          /\ sent = End[Len(delivered)] + Stored
          /\ sent <= StreamSize
          /\ \A i \in 1 .. Stored :
                buffer[(iFront + i) % iTotalSize] = End[Len(delivered)] + i

(* A packet from the pool is empty, whatever its bytes are; what OnRecv is    *)
(* given holds the payload as far as there is room, with nothing read yet.   *)
Holds(p, data) ==
    /\ HasRoom(p)
    /\ p.readPos = 0 /\ p.writePos = Len(data)
    /\ \A i \in 1 .. Len(data) : p.bytes[i] = data[i]
PacketsOK ==
    /\ HasRoom(packet) /\ HasRoom(reply)
    /\ pc \notin {"OnRecv", "Free"} => Empty(packet)
    /\ pc # "Free" => Empty(reply)
    /\ pc = "OnRecv" => /\ Len(delivered) > 0 /\ Len(delivered) \notin disconnects
                        /\ Holds(packet, Visible(Len(delivered)))
    /\ accountNo \in [1 .. AccountSize -> Byte]
    /\ pc = "OnRecv" => accountNo = Account(Len(delivered) - 1)
    /\ pc \in {"Pending", "MoveRear", "Parse", "Free", "RecvPost"} =>
          accountNo = Account(Len(delivered))

RecvInv == /\ PcOK /\ BufferOK /\ StreamOK /\ PacketsOK
           /\ DeliveredInOrder /\ DisconnectedForCause /\ PayloadIntact
=============================================================================
