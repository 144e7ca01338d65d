----------------------------- MODULE CNetServer -----------------------------
(***************************************************************************)
(* The session life cycle of CNetServer (src/LoginServer_Chat/             *)
(* CNetServer.cpp) with the callbacks of LoginServer (LoginServer.cpp):    *)
(* one accept thread, the I/O completion port workers and, when the class  *)
(* is used as a library, threads of the contents that call Disconnect and  *)
(* SendPacket with a session identifier they looked up earlier.            *)
(*                                                                         *)
(* A session is one slot of _sessionArr.  What keeps a slot from being     *)
(* recycled under a thread that uses it is ioFlag: ioCount counts threads  *)
(* inside a call, overlapped operations in flight and posted SENDPOST      *)
(* jobs; the thread that moves {ioCount, releaseFlag} from {0, 0} to       *)
(* {0, 1} in one compare-and-exchange releases the slot.                   *)
(*                                                                         *)
(* Every step of a thread is one atomic access to shared memory, or one    *)
(* system call, together with the accesses next to it that no other thread *)
(* can tell apart from it.  The lock-free queue and stack are atomic here. *)
(* The bytes of the receive buffer are the subject of module RecvPath: a   *)
(* worker that parses chooses what the next message is.                    *)
(*                                                                         *)
(* Operators marked "faulty variant" are not part of the specification:    *)
(* each states a slip the code does not make, to test that a property      *)
(* would notice it.                                                        *)
(***************************************************************************)
EXTENDS Integers, Sequences, FiniteSets

CONSTANTS
    Workers,        \* the threads that run IOCPWorkerThread
    ApiThreads,     \* threads of the contents that call the public API
    Acceptor,       \* the thread that runs AcceptThread
    Slots,          \* the indexes of _sessionArr; _maxUser of them
    NoSlot,         \* the SESSION* of a thread that works on none
    Packets,        \* the packets of CNetPacket::_packetpool
    NoPacket,       \* the packet of a thread that sends none
    MaxBuf,         \* MAXBUF, the most packets one WSASend takes
    SessionCntMax,  \* the value after which _sessionCnt wraps (0xFFFFFFFFFFFF)
    MaxAccepts,     \* bound: no session is accepted past this counter value
    MaxJobs,        \* bound: no call on a slot with this many jobs queued
    SysMayFail      \* whether the port, a post to it and accept may fail

Threads == Workers \cup ApiThreads \cup {Acceptor}

ASSUME ThreadAssumption ==
    /\ IsFiniteSet(Workers)
    /\ IsFiniteSet(ApiThreads)
    /\ Acceptor \notin Workers \cup ApiThreads
    /\ Workers \cap ApiThreads = {}

ASSUME SlotAssumption == IsFiniteSet(Slots) /\ NoSlot \notin Slots

ASSUME PacketAssumption == NoPacket \notin Packets

ASSUME BoundAssumption ==
    /\ MaxBuf \in Nat \ {0}
    /\ SessionCntMax \in Nat \ {0}
    /\ MaxAccepts \in Nat
    /\ MaxJobs \in Nat
    /\ SysMayFail \in BOOLEAN

-----------------------------------------------------------------------------
(* SESSION, one entry per slot of _sessionArr *)

VARIABLES
    sessionID,      \* (_sessionCnt << 16) | idx; cnt 0: never accepted
    socket,         \* the two 32-bit words of the 64-bit SOCKET
    relSocket,      \* whether the real handle is open
    ioCount,        \* ioFlag.ioCount
    releaseFlag,    \* ioFlag.releaseFlag
    sendFlag,       \* a WSASend is being prepared or in flight
    sendQ,          \* the packets queued by SendPacket
    sendArr         \* sendPacketArr[0 .. sendCnt)

(* the completion port, unordered: workers take entries in any order *)
VARIABLES
    recvOv,         \* recvOverlapped: idle, posted, or completed ok / fail
    sendOv,         \* sendOverlapped
    jobs,           \* posted en_IOCP_JOB_SENDPOST
    relJobs         \* posted en_IOCP_JOB_RELEASE

(* the server and the contents *)
VARIABLES
    freeStack,      \* how often _freeSessionStack holds a slot
    nowSession,     \* _nowSession
    sessionCnt,     \* _sessionCnt
    characterMap,   \* the session identifiers of LoginServer::characterMap
    refCount        \* CNetPacket::_refCount

(* the threads *)
VARIABLES
    pc, slot,       \* the next step of a thread; the SESSION* it works on
    id,             \* the sessionID argument of the call it is in
    op, ret,        \* the API function it is in; where it continues after it
    pkt,            \* the packet it passes to SendPacket
    tries,          \* cnt of SendPost
    sock            \* the copy of socket it passes to WSASend or WSARecv

sessVars   == <<sessionID, socket, relSocket, ioCount, releaseFlag>>
sendVars   == <<sendFlag, sendQ, sendArr>>
ioVars     == <<recvOv, sendOv, jobs, relJobs>>
tableVars  == <<freeStack, nowSession, sessionCnt, characterMap>>
localVars  == <<slot, id, op, ret, pkt, tries, sock>>
vars == <<sessVars, sendVars, ioVars, tableVars, refCount, pc, localVars>>

-----------------------------------------------------------------------------
MaxUser == Cardinality(Slots)

SessionIDs == [cnt : 0 .. SessionCntMax, idx : Slots]
NoID == [cnt |-> 0, idx |-> NoSlot]

Words == {"zero", "handle", "ones"}
ClientSock == [hi |-> "zero", lo |-> "handle"]
INVALID_SOCKET == [hi |-> "ones", lo |-> "ones"]

OverlappedStates == {"idle", "posted", "ok", "fail"}

(* the steps of a call of Disconnect or SendPacket between EnterSession's *)
(* increment and LeaveSession's decrement; the first two are unvalidated  *)
CallPcs == {"ChkFlag", "ChkId", "DcExchange", "DcCancel", "SqEnqueue",
            "SqPost", "Leave"}
ValidPcs == {"DcExchange", "DcCancel", "SqEnqueue", "SqPost"}

SendPostPcs == {"SpSize", "SpFlag", "SpUse", "SpClear", "SpLoad", "SpCall",
                "SpPending"}
(* a worker inside the receive logic, API calls of the contents included *)
RecvPcs == CallPcs \cup {"Parse", "Enter", "FreePkt"}
RecvPostPcs == {"RpLoad", "RpCall", "RpPending"}
ReleasePcs == {"RelDrain", "RelLeave", "RelPush"}
AcceptPcs == {"AcAccept", "AcPop", "AcInc", "AcId", "AcArm", "AcJoin",
              "AcRecv", "AcPending", "Ended", "Stranded"}

Pcs == {"Gqcs", "ApiIdle", "SendFree", "SendUnflag", "Dec", "RelCas",
        "RelCount"}
       \cup SendPostPcs \cup RecvPcs \cup RecvPostPcs \cup ReleasePcs
       \cup AcceptPcs

Idle(t) == IF t \in Workers THEN "Gqcs"
           ELSE IF t = Acceptor THEN "AcAccept" ELSE "ApiIdle"

Goto(t, l) == pc' = [pc EXCEPT ![t] = l]

(* thread t is finished with its session and waits for new work *)
Finish(t) == /\ Goto(t, Idle(t))
             /\ slot' = [slot EXCEPT ![t] = NoSlot]

Occurrences(p, q) == Cardinality({i \in DOMAIN q : q[i] = p})

(* CNetPacket::Free on every packet of a sequence *)
FreeAll(q) == [p \in Packets |-> refCount[p] - Occurrences(p, q)]

(* InterlockedIncrement and InterlockedDecrement of ioCount *)
AddRef(s) == ioCount' = [ioCount EXCEPT ![s] = @ + 1]
DropRef(s) == ioCount' = [ioCount EXCEPT ![s] = @ - 1]

(* CancelIoEx(relSocket): the operations outstanding now complete as failed *)
Cancelled(ov, s) ==
    [ov EXCEPT ![s] = IF relSocket[s] = "open" /\ @ = "posted" THEN "fail" ELSE @]

Init ==
    /\ sessionID = [s \in Slots |-> [cnt |-> 0, idx |-> s]]
    /\ socket = [s \in Slots |-> INVALID_SOCKET]
    /\ relSocket = [s \in Slots |-> "closed"]
    /\ ioCount = [s \in Slots |-> 0]
    /\ releaseFlag \in [Slots -> {0, 1}]       \* new SESSION[] leaves it unset
    /\ sendFlag = [s \in Slots |-> 0]
    /\ sendQ = [s \in Slots |-> << >>]
    /\ sendArr = [s \in Slots |-> << >>]
    /\ recvOv = [s \in Slots |-> "idle"]
    /\ sendOv = [s \in Slots |-> "idle"]
    /\ jobs = [s \in Slots |-> 0]
    /\ relJobs = [s \in Slots |-> 0]
    /\ freeStack = [s \in Slots |-> 1]
    /\ nowSession = 0
    /\ sessionCnt = 0
    /\ characterMap = {}
    /\ refCount = [p \in Packets |-> 0]
    /\ pc = [t \in Threads |-> Idle(t)]
    /\ slot = [t \in Threads |-> NoSlot]
    /\ id = [t \in Threads |-> NoID]
    /\ pkt = [t \in Threads |-> NoPacket]
    /\ op = [t \in Threads |-> "none"]
    /\ ret = [t \in Threads |-> "none"]
    /\ tries = [t \in Threads |-> 0]
    /\ sock = [t \in Threads |-> INVALID_SOCKET]
-----------------------------------------------------------------------------
(* The completion of overlapped operations: a peer that sends, reads, closes *)
(* or resets, by way of the kernel.  A completion that transferred no byte   *)
(* is "fail", whatever its error.                                            *)

RecvComplete(s) ==
    /\ recvOv[s] = "posted"
    /\ \E r \in {"ok", "fail"} : recvOv' = [recvOv EXCEPT ![s] = r]
    /\ UNCHANGED <<sessVars, sendVars, sendOv, jobs, relJobs, tableVars,
                   refCount, pc, localVars>>

SendComplete(s) ==
    /\ sendOv[s] = "posted"
    /\ \E r \in {"ok", "fail"} : sendOv' = [sendOv EXCEPT ![s] = r]
    /\ UNCHANGED <<sessVars, sendVars, recvOv, jobs, relJobs, tableVars,
                   refCount, pc, localVars>>

-----------------------------------------------------------------------------
(* IOCPWorkerThread: GetQueuedCompletionStatus and the dispatch after it.    *)
(* The work is skipped when nothing was transferred or the socket reads as   *)
(* INVALID_SOCKET; the reference is dropped in either case.                  *)

Dispatch(w, s, completed, l) ==
    /\ Goto(w, IF completed /\ socket[s] # INVALID_SOCKET THEN l ELSE "Dec")
    /\ slot' = [slot EXCEPT ![w] = s]
    /\ UNCHANGED <<sessVars, sendVars, tableVars, refCount, id, op, ret, pkt,
                   tries, sock>>

TakeRecv(w, s) ==
    /\ pc[w] = "Gqcs"
    /\ recvOv[s] \in {"ok", "fail"}
    /\ recvOv' = [recvOv EXCEPT ![s] = "idle"]
    /\ Dispatch(w, s, recvOv[s] = "ok", "Parse")
    /\ UNCHANGED <<sendOv, jobs, relJobs>>

TakeSend(w, s) ==
    /\ pc[w] = "Gqcs"
    /\ sendOv[s] \in {"ok", "fail"}
    /\ sendOv' = [sendOv EXCEPT ![s] = "idle"]
    /\ Dispatch(w, s, sendOv[s] = "ok", "SendFree")
    /\ UNCHANGED <<recvOv, jobs, relJobs>>

TakeSendPost(w, s) ==
    /\ pc[w] = "Gqcs"
    /\ jobs[s] > 0
    /\ jobs' = [jobs EXCEPT ![s] = @ - 1]
    /\ Dispatch(w, s, TRUE, "SpSize")
    /\ UNCHANGED <<recvOv, sendOv, relJobs>>

TakeRelease(w, s) ==
    /\ pc[w] = "Gqcs"
    /\ relJobs[s] > 0
    /\ relJobs' = [relJobs EXCEPT ![s] = @ - 1]
    /\ Dispatch(w, s, TRUE, "RelCas")
    /\ UNCHANGED <<recvOv, sendOv, jobs>>

(* the reference of the completion or job is dropped *)
Dec(w) ==
    LET s == slot[w] IN
    /\ pc[w] = "Dec"
    /\ DropRef(s)
    /\ IF ioCount[s] = 1
       THEN Goto(w, "RelCas") /\ UNCHANGED slot
       ELSE Finish(w)
    /\ UNCHANGED <<sessionID, socket, relSocket, releaseFlag, sendVars, ioVars,
                   tableVars, refCount, id, op, ret, pkt, tries, sock>>

-----------------------------------------------------------------------------
(* The send logic of a worker: the completion of a send ... *)

SentCountKept(s) == UNCHANGED sendArr   \* faulty variant
SentCountReset(s) == sendArr' = [sendArr EXCEPT ![s] = << >>]

SendFree(w) ==
    LET s == slot[w] IN
    /\ pc[w] = "SendFree"
    /\ refCount' = FreeAll(sendArr[s])
    /\ SentCountReset(s)
    /\ Goto(w, "SendUnflag")
    /\ UNCHANGED <<sessVars, sendFlag, sendQ, ioVars, tableVars, localVars>>

SendUnflag(w) ==
    /\ pc[w] = "SendUnflag"
    /\ sendFlag' = [sendFlag EXCEPT ![slot[w]] = 0]
    /\ Goto(w, "SpSize")
    /\ UNCHANGED <<sessVars, sendQ, sendArr, ioVars, tableVars, refCount,
                   localVars>>

(* ... and SendPost, which ends in "Dec" on every path.  GetUseSize: *)
SpSize(w) ==
    /\ pc[w] = "SpSize"
    /\ Goto(w, IF sendQ[slot[w]] = << >> THEN "Dec" ELSE "SpFlag")
    /\ tries' = [tries EXCEPT ![w] = IF sendQ[slot[w]] = << >> THEN 0 ELSE @]
    /\ UNCHANGED <<sessVars, sendVars, ioVars, tableVars, refCount, slot, id,
                   op, ret, pkt, sock>>

(* InterlockedExchange(&sendFlag, 1) *)
AlreadySendingUnchecked(s) == FALSE   \* faulty variant
AlreadySending(s) == sendFlag[s] = 1

SpFlag(w) ==
    LET s == slot[w] IN
    /\ pc[w] = "SpFlag"
    /\ sendFlag' = [sendFlag EXCEPT ![s] = 1]
    /\ Goto(w, IF AlreadySending(s) THEN "Dec" ELSE "SpUse")
    /\ tries' = [tries EXCEPT ![w] = IF AlreadySending(s) THEN 0 ELSE @]
    /\ UNCHANGED <<sessVars, sendQ, sendArr, ioVars, tableVars, refCount, slot,
                   id, op, ret, pkt, sock>>

(* the second GetUseSize, then up to MAXBUF packets move to sendPacketArr *)
SpUse(w) ==
    LET s == slot[w]
        n == IF Len(sendQ[s]) > MaxBuf THEN MaxBuf ELSE Len(sendQ[s])
    IN  /\ pc[w] = "SpUse"
        /\ IF sendQ[s] = << >>
           THEN Goto(w, "SpClear") /\ UNCHANGED <<sendQ, sendArr, tries>>
           ELSE /\ sendArr' = [sendArr EXCEPT ![s] = SubSeq(sendQ[s], 1, n)]
                /\ sendQ' = [sendQ EXCEPT ![s] = SubSeq(@, n + 1, Len(@))]
                /\ tries' = [tries EXCEPT ![w] = 0]
                /\ Goto(w, "SpLoad")
        /\ UNCHANGED <<sessVars, sendFlag, ioVars, tableVars, refCount, slot, id,
                       op, ret, pkt, sock>>

(* the queue was empty after all: clear the flag, give up the second time *)
SpClear(w) ==
    /\ pc[w] = "SpClear"
    /\ sendFlag' = [sendFlag EXCEPT ![slot[w]] = 0]
    /\ tries' = [tries EXCEPT ![w] = (@ + 1) % 2]
    /\ Goto(w, IF tries[w] + 1 = 2 THEN "Dec" ELSE "SpSize")
    /\ UNCHANGED <<sessVars, sendQ, sendArr, ioVars, tableVars, refCount, slot,
                   id, op, ret, pkt, sock>>

(* the value that WSASend and WSARecv are called with *)
SocketArgCached(s) == ClientSock   \* faulty variant
SocketArg(s) == socket[s]

(* ioCount is raised for the send and socket copied into WSASend's argument *)
SpLoad(w) ==
    LET s == slot[w] IN
    /\ pc[w] = "SpLoad"
    /\ AddRef(s)
    /\ sock' = [sock EXCEPT ![w] = SocketArg(s)]
    /\ Goto(w, "SpCall")
    /\ UNCHANGED <<sessionID, socket, relSocket, releaseFlag, sendVars, ioVars,
                   tableVars, refCount, slot, id, op, ret, pkt, tries>>

(* the reference that a failed post takes back *)
PostFailedKeepsRef(s) == UNCHANGED ioCount   \* faulty variant
PostFailed(s) == DropRef(s)

(* WSASend: pending, completed at once (the port still reports it), or       *)
(* failed, which takes the reference back.  A value that is no socket always *)
(* fails.                                                                    *)
SpCall(w) ==
    LET s == slot[w] IN
    /\ pc[w] = "SpCall"
    /\ sock' = [sock EXCEPT ![w] = INVALID_SOCKET]
    /\ \/ /\ sock[w] = ClientSock
          /\ \/ sendOv' = [sendOv EXCEPT ![s] = "posted"] /\ Goto(w, "SpPending")
             \/ sendOv' = [sendOv EXCEPT ![s] = "ok"] /\ Goto(w, "Dec")
          /\ UNCHANGED ioCount
       \/ /\ PostFailed(s)
          /\ Goto(w, "Dec")
          /\ UNCHANGED sendOv
    /\ UNCHANGED <<sessionID, socket, relSocket, releaseFlag, sendVars, recvOv,
                   jobs, relJobs, tableVars, refCount, slot, id, op, ret, pkt,
                   tries>>

(* WSA_IO_PENDING: cancel again what Disconnect may have missed *)
CancelIfInvalid(s) ==
    IF socket[s] = INVALID_SOCKET
    THEN recvOv' = Cancelled(recvOv, s) /\ sendOv' = Cancelled(sendOv, s)
    ELSE UNCHANGED <<recvOv, sendOv>>

SpPending(w) ==
    /\ pc[w] = "SpPending"
    /\ CancelIfInvalid(slot[w])
    /\ Goto(w, "Dec")
    /\ UNCHANGED <<sessVars, sendVars, jobs, relJobs, tableVars, refCount,
                   localVars>>
-----------------------------------------------------------------------------
(* The receive logic of a worker.  Thread t enters Disconnect or SendPacket  *)
(* for session i and continues at l afterwards.                              *)

Call(t, f, i, l) ==
    /\ Goto(t, "Enter")
    /\ op' = [op EXCEPT ![t] = f]
    /\ id' = [id EXCEPT ![t] = i]
    /\ ret' = [ret EXCEPT ![t] = l]

(* no complete message is left: RecvPost *)
ParseEnd(w) ==
    /\ pc[w] = "Parse"
    /\ Goto(w, "RpLoad")
    /\ UNCHANGED <<sessVars, sendVars, ioVars, tableVars, refCount, localVars>>

(* a header with a wrong code or a message that Decode rejects *)
ParseBad(w) ==
    /\ pc[w] = "Parse"
    /\ Call(w, "disconnect", sessionID[slot[w]], "RpLoad")
    /\ UNCHANGED <<sessVars, sendVars, ioVars, tableVars, refCount, slot, pkt,
                   tries, sock>>

(* OnRecv.  Without a character the client is disconnected.  Login allocates *)
(* the response and sends it; a client whose login failed is disconnected    *)
(* after that ("Kick").  Messages of other types change nothing.             *)
OnRecv(w) ==
    LET i == sessionID[slot[w]] IN
    /\ pc[w] = "Parse"
    /\ IF i \in characterMap
       THEN \E p \in Packets, l \in {"Parse", "Kick"} :
              /\ jobs[slot[w]] < MaxJobs
              /\ refCount[p] = 0
              /\ refCount' = [refCount EXCEPT ![p] = 1]
              /\ pkt' = [pkt EXCEPT ![w] = p]
              /\ Call(w, "send", i, l)
       ELSE Call(w, "disconnect", i, "Parse") /\ UNCHANGED <<refCount, pkt>>
    /\ UNCHANGED <<sessVars, sendVars, ioVars, tableVars, slot, tries, sock>>

(* RecvPost: ioCount is raised and socket copied into WSARecv's argument *)
RpLoad(w) ==
    LET s == slot[w] IN
    /\ pc[w] = "RpLoad"
    /\ AddRef(s)
    /\ sock' = [sock EXCEPT ![w] = SocketArg(s)]
    /\ Goto(w, "RpCall")
    /\ UNCHANGED <<sessionID, socket, relSocket, releaseFlag, sendVars, ioVars,
                   tableVars, refCount, slot, id, op, ret, pkt, tries>>

RpCall(w) ==
    LET s == slot[w] IN
    /\ pc[w] = "RpCall"
    /\ sock' = [sock EXCEPT ![w] = INVALID_SOCKET]
    /\ \/ /\ sock[w] = ClientSock
          /\ \/ recvOv' = [recvOv EXCEPT ![s] = "posted"] /\ Goto(w, "RpPending")
             \/ /\ \E r \in {"ok", "fail"} : recvOv' = [recvOv EXCEPT ![s] = r]
                /\ Goto(w, "Dec")
          /\ UNCHANGED ioCount
       \/ /\ PostFailed(s)
          /\ Goto(w, "Dec")
          /\ UNCHANGED recvOv
    /\ UNCHANGED <<sessionID, socket, relSocket, releaseFlag, sendVars, sendOv,
                   jobs, relJobs, tableVars, refCount, slot, id, op, ret, pkt,
                   tries>>

RpPendingPostsAgain(w) ==   \* faulty variant
    /\ pc[w] = "RpPending"
    /\ Goto(w, "RpLoad")
    /\ UNCHANGED <<sessVars, sendVars, ioVars, tableVars, refCount, localVars>>

RpPending(w) ==
    /\ pc[w] = "RpPending"
    /\ CancelIfInvalid(slot[w])
    /\ Goto(w, "Dec")
    /\ UNCHANGED <<sessVars, sendVars, jobs, relJobs, tableVars, refCount,
                   localVars>>

-----------------------------------------------------------------------------
(* The public API, on behalf of any thread.  Disconnect and SendPacket end   *)
(* the same way: a caller of SendPacket frees its own packet reference next. *)

EndCall(t) ==
    /\ Goto(t, ret[t])
    /\ slot' = [slot EXCEPT ![t] = IF t \in Workers THEN @ ELSE NoSlot]
    /\ id' = [id EXCEPT ![t] = NoID]
    /\ op' = [op EXCEPT ![t] = "none"]
    /\ ret' = [ret EXCEPT ![t] = "none"]

Return(t) ==
    IF op[t] = "send"
    THEN Goto(t, "FreePkt") /\ UNCHANGED <<slot, id, op, ret>>
    ELSE EndCall(t)

(* EnterSession: the increment, then the reads of releaseFlag and sessionID *)
Enter(t) ==
    /\ pc[t] = "Enter"
    /\ AddRef(slot[t])
    /\ Goto(t, "ChkFlag")
    /\ UNCHANGED <<sessionID, socket, relSocket, releaseFlag, sendVars, ioVars,
                   tableVars, refCount, localVars>>

ChkFlag(t) ==
    /\ pc[t] = "ChkFlag"
    /\ Goto(t, IF releaseFlag[slot[t]] = 1 THEN "Leave" ELSE "ChkId")
    /\ UNCHANGED <<sessVars, sendVars, ioVars, tableVars, refCount, localVars>>

ChkId(t) ==
    /\ pc[t] = "ChkId"
    /\ Goto(t, IF sessionID[slot[t]] # id[t] THEN "Leave"
               ELSE IF op[t] = "send" THEN "SqEnqueue" ELSE "DcExchange")
    /\ UNCHANGED <<sessVars, sendVars, ioVars, tableVars, refCount, localVars>>

(* Disconnect: InterlockedExchange((PLONG)&socket, INVALID_SOCKET) reads and *)
(* writes the low 32-bit word of the 64-bit SOCKET only.                     *)
DcExchangeWhole(t) ==   \* faulty variant
    LET s == slot[t] IN
    /\ pc[t] = "DcExchange"
    /\ socket' = [socket EXCEPT ![s] = INVALID_SOCKET]
    /\ Goto(t, IF socket[s] = INVALID_SOCKET THEN "Leave" ELSE "DcCancel")
    /\ UNCHANGED <<sessionID, relSocket, ioCount, releaseFlag, sendVars, ioVars,
                   tableVars, refCount, localVars>>

DcExchange(t) ==
    LET s == slot[t] IN
    /\ pc[t] = "DcExchange"
    /\ socket' = [socket EXCEPT ![s].lo = "ones"]
    /\ Goto(t, IF socket[s].lo = "ones" THEN "Leave" ELSE "DcCancel")
    /\ UNCHANGED <<sessionID, relSocket, ioCount, releaseFlag, sendVars, ioVars,
                   tableVars, refCount, localVars>>

DcCancelAndLeave(t) ==   \* faulty variant
    /\ pc[t] = "DcCancel"
    /\ characterMap' = characterMap \ {id[t]}
    /\ Goto(t, "Leave")
    /\ UNCHANGED <<sessVars, sendVars, ioVars, freeStack, nowSession, sessionCnt,
                   refCount, localVars>>

DcCancel(t) ==
    /\ pc[t] = "DcCancel"
    /\ recvOv' = Cancelled(recvOv, slot[t])
    /\ sendOv' = Cancelled(sendOv, slot[t])
    /\ Goto(t, "Leave")
    /\ UNCHANGED <<sessVars, sendVars, jobs, relJobs, tableVars, refCount,
                   localVars>>

(* SendPacket: the packet is shared with the queue ... *)
SqEnqueue(t) ==
    /\ pc[t] = "SqEnqueue"
    /\ refCount' = [refCount EXCEPT ![pkt[t]] = @ + 1]
    /\ sendQ' = [sendQ EXCEPT ![slot[t]] = Append(@, pkt[t])]
    /\ Goto(t, "SqPost")
    /\ UNCHANGED <<sessVars, sendFlag, sendArr, ioVars, tableVars, localVars>>

(* ... and the SENDPOST job inherits the reference EnterSession took *)
SqPost(t) ==
    /\ pc[t] = "SqPost"
    /\ jobs' = [jobs EXCEPT ![slot[t]] = @ + 1]
    /\ Return(t)
    /\ UNCHANGED <<sessVars, sendVars, recvOv, sendOv, relJobs, tableVars,
                   refCount, pkt, tries, sock>>

SqPostFailsUnnoticed(t) ==   \* faulty variant
    /\ SysMayFail
    /\ pc[t] = "SqPost"
    /\ Goto(t, "FreePkt")
    /\ UNCHANGED <<sessVars, sendVars, ioVars, tableVars, refCount, localVars>>

SqPostFails(t) ==
    /\ SysMayFail
    /\ pc[t] = "SqPost"
    /\ Goto(t, "Leave")
    /\ UNCHANGED <<sessVars, sendVars, ioVars, tableVars, refCount, localVars>>

(* LeaveSession and, for the last reference, RequestRelease, whose post may  *)
(* fail unnoticed                                                            *)
Leave(t) ==
    LET s == slot[t] IN
    /\ pc[t] = "Leave"
    /\ DropRef(s)
    /\ \/ relJobs' = [relJobs EXCEPT ![s] = IF ioCount[s] = 1 THEN @ + 1 ELSE @]
       \/ SysMayFail /\ UNCHANGED relJobs
    /\ Return(t)
    /\ UNCHANGED <<sessionID, socket, relSocket, releaseFlag, sendVars, recvOv,
                   sendOv, jobs, tableVars, refCount, pkt, tries, sock>>

(* CNetPacket::Free by the caller of SendPacket, then what follows the call *)
FreePkt(t) ==
    /\ pc[t] = "FreePkt"
    /\ refCount' = [refCount EXCEPT ![pkt[t]] = @ - 1]
    /\ pkt' = [pkt EXCEPT ![t] = NoPacket]
    /\ IF ret[t] = "Kick"
       THEN Call(t, "disconnect", id[t], "Parse") /\ UNCHANGED slot
       ELSE EndCall(t)
    /\ UNCHANGED <<sessVars, sendVars, ioVars, tableVars, tries, sock>>

(* A contents thread takes a session identifier from its own table and calls *)
(* the API with it later, when the session may be gone or its slot reused.   *)
ApiCall(t) ==
    /\ pc[t] = "ApiIdle"
    /\ \E i \in characterMap :
          /\ jobs[i.idx] < MaxJobs /\ relJobs[i.idx] < MaxJobs
          /\ slot' = [slot EXCEPT ![t] = i.idx]
          /\ \/ Call(t, "disconnect", i, "ApiIdle") /\ UNCHANGED <<refCount, pkt>>
             \/ \E p \in Packets :
                   /\ refCount[p] = 0
                   /\ refCount' = [refCount EXCEPT ![p] = 1]
                   /\ pkt' = [pkt EXCEPT ![t] = p]
                   /\ Call(t, "send", i, "ApiIdle")
    /\ UNCHANGED <<sessVars, sendVars, ioVars, tableVars, tries, sock>>

-----------------------------------------------------------------------------
(* ReleaseSession, by a worker or the accept thread *)

(* InterlockedCompareExchange64(&ioFlag, {0, 1}, {0, 0}) succeeds *)
MayReleaseAnyCount(s) == releaseFlag[s] = 0   \* faulty variant
MayReleaseAnyFlag(s) == ioCount[s] = 0   \* faulty variant
MayRelease(s) == ioCount[s] = 0 /\ releaseFlag[s] = 0

RelCas(t) ==
    LET s == slot[t] IN
    /\ pc[t] = "RelCas"
    /\ IF MayRelease(s)
       THEN /\ releaseFlag' = [releaseFlag EXCEPT ![s] = 1]
            /\ Goto(t, "RelDrain")
            /\ UNCHANGED slot
       ELSE Finish(t) /\ UNCHANGED releaseFlag
    /\ UNCHANGED <<sessionID, socket, relSocket, ioCount, sendVars, ioVars,
                   tableVars, refCount, id, op, ret, pkt, tries, sock>>

(* the packets of sendQ and of sendPacketArr, whose count stays as it is, *)
(* are freed and the socket is closed                                     *)
RelDrain(t) ==
    LET s == slot[t] IN
    /\ pc[t] = "RelDrain"
    /\ refCount' = FreeAll(sendQ[s] \o sendArr[s])
    /\ sendQ' = [sendQ EXCEPT ![s] = << >>]
    /\ relSocket' = [relSocket EXCEPT ![s] = "closed"]
    /\ Goto(t, "RelLeave")
    /\ UNCHANGED <<sessionID, socket, ioCount, releaseFlag, sendFlag, sendArr,
                   ioVars, tableVars, localVars>>

(* OnClientLeave *)
RelLeaveCountsFirst(t) ==   \* faulty variant
    /\ pc[t] = "RelLeave"
    /\ characterMap' = characterMap \ {sessionID[slot[t]]}
    /\ nowSession' = nowSession - 1
    /\ Goto(t, "RelPush")
    /\ UNCHANGED <<sessVars, sendVars, ioVars, freeStack, sessionCnt, refCount,
                   localVars>>

RelLeavePushesFirst(t) ==   \* faulty variant
    /\ pc[t] = "RelLeave"
    /\ freeStack' = [freeStack EXCEPT ![sessionID[slot[t]].idx] = @ + 1]
    /\ Goto(t, "RelPush")
    /\ UNCHANGED <<sessVars, sendVars, ioVars, nowSession, sessionCnt,
                   characterMap, refCount, localVars>>

RelLeave(t) ==
    /\ pc[t] = "RelLeave"
    /\ characterMap' = characterMap \ {sessionID[slot[t]]}
    /\ Goto(t, "RelPush")
    /\ UNCHANGED <<sessVars, sendVars, ioVars, freeStack, nowSession, sessionCnt,
                   refCount, localVars>>

(* from here on the slot may be accepted again *)
RelPush(t) ==
    /\ pc[t] = "RelPush"
    /\ freeStack' = [freeStack EXCEPT ![sessionID[slot[t]].idx] = @ + 1]
    /\ slot' = [slot EXCEPT ![t] = NoSlot]
    /\ Goto(t, "RelCount")
    /\ UNCHANGED <<sessVars, sendVars, ioVars, nowSession, sessionCnt,
                   characterMap, refCount, id, op, ret, pkt, tries, sock>>

RelCount(t) ==
    /\ pc[t] = "RelCount"
    /\ nowSession' = nowSession - 1
    /\ Goto(t, Idle(t))
    /\ UNCHANGED <<sessVars, sendVars, ioVars, freeStack, sessionCnt,
                   characterMap, refCount, localVars>>
-----------------------------------------------------------------------------
(* AcceptThread *)

(* _sessionCnt wraps to 1 *)
SessionCntUnwrapped == sessionCnt + 1   \* faulty variant
NextSessionCnt == IF sessionCnt + 1 > SessionCntMax THEN 1 ELSE sessionCnt + 1

(* accept, the capacity check and the session counter.  A connection over    *)
(* capacity is closed again and leaves the state as it is; LoginServer's     *)
(* OnConnectionRequest refuses none.                                         *)
AcAccept ==
    /\ pc[Acceptor] = "AcAccept"
    /\ sessionCnt < MaxAccepts
    /\ nowSession # MaxUser
    /\ nowSession' = nowSession + 1
    /\ sessionCnt' = NextSessionCnt
    /\ Goto(Acceptor, "AcPop")
    /\ UNCHANGED <<sessVars, sendVars, ioVars, freeStack, characterMap, refCount,
                   localVars>>

(* accept reports an error: the thread ends *)
AcEnd ==
    /\ SysMayFail
    /\ pc[Acceptor] = "AcAccept"
    /\ Goto(Acceptor, "Ended")
    /\ UNCHANGED <<sessVars, sendVars, ioVars, tableVars, refCount, localVars>>

(* while (!_freeSessionStack.Pop(&idx)) *)
AcPop(s) ==
    /\ pc[Acceptor] = "AcPop"
    /\ freeStack[s] > 0
    /\ freeStack' = [freeStack EXCEPT ![s] = @ - 1]
    /\ slot' = [slot EXCEPT ![Acceptor] = s]
    /\ Goto(Acceptor, "AcInc")
    /\ UNCHANGED <<sessVars, sendVars, ioVars, nowSession, sessionCnt,
                   characterMap, refCount, id, op, ret, pkt, tries, sock>>

AcIncUnreleases ==   \* faulty variant
    /\ pc[Acceptor] = "AcInc"
    /\ AddRef(slot[Acceptor])
    /\ releaseFlag' = [releaseFlag EXCEPT ![slot[Acceptor]] = 0]
    /\ Goto(Acceptor, "AcId")
    /\ UNCHANGED <<sessionID, socket, relSocket, sendVars, ioVars, tableVars,
                   refCount, localVars>>

AcInc ==
    /\ pc[Acceptor] = "AcInc"
    /\ AddRef(slot[Acceptor])
    /\ Goto(Acceptor, "AcId")
    /\ UNCHANGED <<sessionID, socket, relSocket, releaseFlag, sendVars, ioVars,
                   tableVars, refCount, localVars>>

(* socket, relSocket and sessionID are written before releaseFlag *)
AcId ==
    LET s == slot[Acceptor] IN
    /\ pc[Acceptor] = "AcId"
    /\ socket' = [socket EXCEPT ![s] = ClientSock]
    /\ relSocket' = [relSocket EXCEPT ![s] = "open"]
    /\ sessionID' = [sessionID EXCEPT ![s] = [cnt |-> sessionCnt, idx |-> s]]
    /\ Goto(Acceptor, "AcArm")
    /\ UNCHANGED <<ioCount, releaseFlag, sendVars, ioVars, tableVars, refCount,
                   localVars>>

(* releaseFlag, sendFlag, sendCnt, recvQ.ClearBuffer and the completion port; *)
(* if the socket cannot be added to the port the thread ends there            *)
AcArm ==
    LET s == slot[Acceptor] IN
    /\ pc[Acceptor] = "AcArm"
    /\ releaseFlag' = [releaseFlag EXCEPT ![s] = 0]
    /\ sendFlag' = [sendFlag EXCEPT ![s] = 0]
    /\ sendArr' = [sendArr EXCEPT ![s] = << >>]
    /\ \/ Goto(Acceptor, "AcJoin")
       \/ SysMayFail /\ Goto(Acceptor, "Stranded")
    /\ UNCHANGED <<sessionID, socket, relSocket, ioCount, sendQ, ioVars,
                   tableVars, refCount, localVars>>

(* OnClientJoin *)
AcJoin ==
    /\ pc[Acceptor] = "AcJoin"
    /\ characterMap' = characterMap \cup {sessionID[slot[Acceptor]]}
    /\ Goto(Acceptor, "AcRecv")
    /\ UNCHANGED <<sessVars, sendVars, ioVars, freeStack, nowSession, sessionCnt,
                   refCount, localVars>>

(* the first WSARecv, with the accept thread's own copy of the socket; it    *)
(* inherits the thread's reference                                           *)
AcRecv ==
    LET s == slot[Acceptor] IN
    /\ pc[Acceptor] = "AcRecv"
    /\ \/ /\ recvOv' = [recvOv EXCEPT ![s] = "posted"]
          /\ Goto(Acceptor, "AcPending")
          /\ UNCHANGED <<slot, ioCount>>
       \/ /\ \E r \in {"ok", "fail"} : recvOv' = [recvOv EXCEPT ![s] = r]
          /\ Finish(Acceptor)
          /\ UNCHANGED ioCount
       \/ /\ DropRef(s)
          /\ IF ioCount[s] = 1
             THEN Goto(Acceptor, "RelCas") /\ UNCHANGED slot
             ELSE Finish(Acceptor)
          /\ UNCHANGED recvOv
    /\ UNCHANGED <<sessionID, socket, relSocket, releaseFlag, sendVars, sendOv,
                   jobs, relJobs, tableVars, refCount, id, op, ret, pkt, tries,
                   sock>>

(* the same check as SpPending, but without a reference of its own *)
AcPending ==
    /\ pc[Acceptor] = "AcPending"
    /\ CancelIfInvalid(slot[Acceptor])
    /\ Finish(Acceptor)
    /\ UNCHANGED <<sessVars, sendVars, jobs, relJobs, tableVars, refCount, id,
                   op, ret, pkt, tries, sock>>

-----------------------------------------------------------------------------
Kernel == \E s \in Slots : RecvComplete(s) \/ SendComplete(s)

Take(w) == \E s \in Slots :
    TakeRecv(w, s) \/ TakeSend(w, s) \/ TakeSendPost(w, s) \/ TakeRelease(w, s)

SendStep(w) == \/ SendFree(w) \/ SendUnflag(w) \/ SpSize(w) \/ SpFlag(w)
               \/ SpUse(w) \/ SpClear(w) \/ SpLoad(w) \/ SpCall(w)
               \/ SpPending(w)

RecvStep(w) == \/ ParseEnd(w) \/ ParseBad(w) \/ OnRecv(w)
               \/ RpLoad(w) \/ RpCall(w) \/ RpPending(w)

CallStep(t) == \/ Enter(t) \/ ChkFlag(t) \/ ChkId(t) \/ DcExchange(t)
               \/ DcCancel(t) \/ SqEnqueue(t) \/ SqPost(t) \/ SqPostFails(t)
               \/ Leave(t) \/ FreePkt(t)

ReleaseStep(t) == \/ RelCas(t) \/ RelDrain(t) \/ RelLeave(t) \/ RelPush(t)
                  \/ RelCount(t)

AcceptStep == \/ AcAccept \/ AcEnd \/ (\E s \in Slots : AcPop(s))
              \/ AcInc \/ AcId \/ AcArm \/ AcJoin \/ AcRecv \/ AcPending

Next == \/ Kernel
        \/ \E w \in Workers : Take(w) \/ Dec(w) \/ SendStep(w) \/ RecvStep(w)
        \/ \E t \in Workers \cup ApiThreads : CallStep(t)
        \/ \E t \in Workers \cup {Acceptor} : ReleaseStep(t)
        \/ \E t \in ApiThreads : ApiCall(t)
        \/ AcceptStep

Spec == Init /\ [][Next]_vars
-----------------------------------------------------------------------------
(* Fairness.  A thread that is inside a function goes on; the port is a FIFO *)
(* queue, so no entry is passed over forever; the receive buffer holds       *)
(* finitely many messages, so the parse loop ends.  Nothing is assumed of a  *)
(* peer: it need not connect, send, read or close, so an operation in flight *)
(* may stay in flight.                                                       *)

ThreadStep(t) ==
    \/ t \in Workers /\ (Dec(t) \/ SendStep(t) \/ RecvStep(t))
    \/ t \in Workers \cup ApiThreads /\ CallStep(t)
    \/ t \in Workers \cup {Acceptor} /\ ReleaseStep(t)
    \/ t = Acceptor /\ pc[Acceptor] # "AcAccept" /\ AcceptStep

Fairness ==
    /\ \A t \in Threads : WF_vars(ThreadStep(t))
    /\ \A w \in Workers : SF_vars(ParseEnd(w))
    /\ \A s \in Slots :
          /\ SF_vars(\E w \in Workers : TakeRecv(w, s))
          /\ SF_vars(\E w \in Workers : TakeSend(w, s))
          /\ SF_vars(\E w \in Workers : TakeSendPost(w, s))
          /\ SF_vars(\E w \in Workers : TakeRelease(w, s))

FairSpec == Spec /\ Fairness

-----------------------------------------------------------------------------
(* Who holds a reference on slot s: a worker until its decrement and the     *)
(* accept thread until its WSARecv; a call until LeaveSession; a post that   *)
(* has raised the count but not yet handed it to the overlapped operation.   *)

BasePcs == {"SendFree", "SendUnflag", "Dec"} \cup SendPostPcs \cup RecvPcs
           \cup RecvPostPcs
AcceptRefPcs == {"AcId", "AcArm", "AcJoin", "AcRecv", "Stranded"}
IoPcs == {"SpCall", "RpCall"}

BaseRefs(s) == {t \in Workers \cup {Acceptor} :
                  slot[t] = s /\ pc[t] \in BasePcs \cup AcceptRefPcs}
CallRefs(s) == {t \in Threads : slot[t] = s /\ pc[t] \in CallPcs}
IoRefs(s) == {t \in Threads : slot[t] = s /\ pc[t] \in IoPcs}

Busy(ov) == IF ov = "idle" THEN 0 ELSE 1
InFlight(s) == Busy(recvOv[s]) + Busy(sendOv[s]) + jobs[s]

(* thread t is at a step that relies on the session not being recycled *)
Uses(t, s) ==
    /\ slot[t] = s
    /\ \/ pc[t] \in ValidPcs
       \/ t \in Workers /\ pc[t] \in BasePcs
       \/ pc[t] \in {"AcJoin", "AcRecv"}

Live(s) == releaseFlag[s] = 0 /\ relSocket[s] = "open" /\ freeStack[s] = 0

Releasing(s) == {t \in Threads : slot[t] = s /\ pc[t] \in ReleasePcs}

(* the workers that own the send side, the threads that own the receive side *)
Senders(s) == {w \in Workers :
    /\ slot[w] = s
    /\ pc[w] \in {"SendFree", "SendUnflag", "SpUse", "SpClear", "SpLoad", "SpCall"}}
Receivers(s) == {t \in Workers \cup {Acceptor} :
    slot[t] = s /\ pc[t] \in RecvPcs \cup {"RpLoad", "RpCall", "AcJoin", "AcRecv"}}

(* sendPacketArr still owns its packets: not yet freed by ReleaseSession *)
Armed(s) ==
    releaseFlag[s] = 0 \/ \E t \in Releasing(s) : pc[t] = "RelDrain"

(* where packet p occurs in the queues or arrays q of the slots S *)
Places(p, q, S) ==
    UNION {{<<s, i>> : i \in {j \in DOMAIN q[s] : q[s][j] = p}} : s \in S}

-----------------------------------------------------------------------------
SessionTypeOK ==
    /\ sessionID \in [Slots -> SessionIDs]
    /\ socket \in [Slots -> [hi : Words, lo : Words]]
    /\ relSocket \in [Slots -> {"open", "closed"}]
    /\ ioCount \in [Slots -> Int]
    /\ releaseFlag \in [Slots -> {0, 1}]

SendTypeOK ==
    /\ sendFlag \in [Slots -> {0, 1}]
    /\ sendQ \in [Slots -> Seq(Packets)]
    /\ sendArr \in [Slots -> Seq(Packets)]
    /\ refCount \in [Packets -> Int]

PortTypeOK ==
    /\ recvOv \in [Slots -> OverlappedStates]
    /\ sendOv \in [Slots -> OverlappedStates]
    /\ jobs \in [Slots -> Nat]
    /\ relJobs \in [Slots -> Nat]

TableTypeOK ==
    /\ freeStack \in [Slots -> Nat]
    /\ nowSession \in Int
    /\ sessionCnt \in 0 .. SessionCntMax
    /\ characterMap \subseteq SessionIDs

ThreadTypeOK ==
    /\ pc \in [Threads -> Pcs]
    /\ slot \in [Threads -> Slots \cup {NoSlot}]
    /\ id \in [Threads -> SessionIDs \cup {NoID}]
    /\ op \in [Threads -> {"disconnect", "send", "none"}]
    /\ ret \in [Threads -> {"Parse", "Kick", "RpLoad", "ApiIdle", "none"}]
    /\ pkt \in [Threads -> Packets \cup {NoPacket}]
    /\ tries \in [Threads -> {0, 1}]
    /\ sock \in [Threads -> [hi : Words, lo : Words]]

(* The type of every variable.  The counters are integers here: that UINT    *)
(* ioCount and _refCount never wrap below zero is what RefCountExact and     *)
(* PacketRefsExact add.                                                      *)
TypeOK == /\ SessionTypeOK /\ SendTypeOK /\ PortTypeOK /\ TableTypeOK
          /\ ThreadTypeOK

(* ioCount of every session is exactly the number of threads, posted jobs    *)
(* and overlapped operations that own a reference: no path of SendPost,      *)
(* RecvPost, EnterSession, LeaveSession, SendPacket or the accept and worker *)
(* loops takes or drops one too many, whatever fails in between.             *)
RefCountExact == \A s \in Slots :
    ioCount[s] = Cardinality(BaseRefs(s)) + Cardinality(CallRefs(s))
                 + Cardinality(IoRefs(s)) + InFlight(s)

(* While a thread works on a session it validated, an operation is in flight *)
(* on it or a SENDPOST job names it, ReleaseSession has not won its          *)
(* compare-and-exchange: the handle is open, the slot not on the free stack. *)
NoUseAfterRelease == \A s \in Slots :
    (InFlight(s) > 0 \/ \E t \in Threads : Uses(t, s)) => Live(s)

(* A slot is released by one thread at a time, is never pushed twice onto    *)
(* _freeSessionStack, and is released only after its last I/O completed.     *)
SingleReleaser == \A s \in Slots :
    /\ freeStack[s] + Cardinality(Releasing(s)) =< 1
    /\ Releasing(s) # {} => releaseFlag[s] = 1 /\ InFlight(s) = 0

(* sendFlag serialises the send side: sendOverlapped, sendPacketArr and      *)
(* sendCnt belong to one worker or to the kernel, never to two workers.      *)
SingleSender == \A s \in Slots :
    Live(s) => /\ Cardinality(Senders(s)) + Busy(sendOv[s]) =< 1
               /\ Senders(s) # {} \/ sendOv[s] # "idle" => sendFlag[s] = 1

(* One receive chain per session: recvQ, recvOverlapped and the OnRecv       *)
(* callbacks of a session belong to one thread or to the kernel at a time,   *)
(* with no lock in the code that says so.                                    *)
SingleReceiver == \A s \in Slots :
    Cardinality(Receivers(s)) + Busy(recvOv[s]) =< 1

(* The character of a session exists as long as a worker is in the receive   *)
(* logic: FindCharacter's pointer, used after the lock is dropped, stays     *)
(* valid, and OnRecv's branch for a missing character is never taken.        *)
CharacterOfReceiver == \A w \in Workers :
    pc[w] \in RecvPcs => sessionID[slot[w]] \in characterMap

(* _refCount of a packet is the number of owners it has: the caller of       *)
(* SendPacket, entries of send queues and of sendPacketArr.  So no packet    *)
(* goes back to the pool early or twice, and none is lost, however sending,  *)
(* completion, failure and release of the session interleave.                *)
PacketRefsExact == \A p \in Packets :
    refCount[p] = Cardinality({t \in Threads : pkt[t] = p})
                  + Cardinality(Places(p, sendQ, Slots))
                  + Cardinality(Places(p, sendArr, {s \in Slots : Armed(s)}))

(* The accept thread never spins on an empty _freeSessionStack: _nowSession  *)
(* is decremented only after the slot was pushed.                            *)
PopNeverSpins == pc[Acceptor] = "AcPop" => \E s \in Slots : freeStack[s] > 0

(* A call with an old identifier never acts on the session that reuses its   *)
(* slot: past EnterSession the slot still carries the caller's identifier    *)
(* and the contents still know it.                                           *)
StaleIdNeverActs == \A t \in Threads :
    pc[t] \in ValidPcs => sessionID[slot[t]] = id[t] /\ id[t] \in characterMap

(* What the comments at the WSA_IO_PENDING checks promise: an operation that *)
(* was posted on a session Disconnect had already cancelled is cancelled     *)
(* once more, so it is never left pending with nobody about to cancel it.    *)
DisconnectedIoIsCancelled == \A s \in Slots :
    socket[s].lo = "ones" /\ "posted" \in {recvOv[s], sendOv[s]}
        => \E t \in Threads :
              /\ slot[t] = s
              /\ pc[t] \in {"DcCancel", "SpPending", "RpPending", "AcPending"}

(* A packet in the send queue of a live session that nobody is sending has   *)
(* somebody on the way to send it: a job, the caller about to post it, or a  *)
(* worker in the retry loop of SendPost.                                     *)
NoStrandedPacket == \A s \in Slots :
    Live(s) /\ sendQ[s] # << >> /\ sendFlag[s] = 0
        => \/ jobs[s] > 0
           \/ \E t \in Threads :
                 slot[t] = s /\ pc[t] \in {"SqPost", "SpSize", "SpFlag"}

(* A session whose receive chain has ended, because the peer closed, an I/O  *)
(* failed or Disconnect was called, gives its slot back to the free stack    *)
(* eventually, provided that its sends do not stay in flight forever and     *)
(* that the contents stop calling the API for it: no reference is left       *)
(* behind that keeps it allocated.                                           *)
CallsEnd(s) == <>[](\A t \in ApiThreads : slot[t] # s)
SessionEventuallyReleased == \A s \in Slots :
    CallsEnd(s) /\ []<>(sendOv[s] # "posted") =>
        ((sessionID[s] \in characterMap /\ Receivers(s) = {} /\ recvOv[s] = "idle")
            ~> freeStack[s] > 0)

(* A session on which Disconnect succeeded is released eventually, whatever  *)
(* its peer does or leaves undone, unless an operation that slipped past     *)
(* CancelIoEx stays in flight: called with the socket copied before the      *)
(* exchange, pending after the cancel and missed by the check of             *)
(* INVALID_SOCKET.  If nothing slips, or what did is over, no other          *)
(* operation is started and every reference is dropped.                      *)
Slipped(s) ==
    /\ socket[s].lo = "ones"
    /\ "posted" \in {recvOv[s], sendOv[s]}
    /\ \A t \in Threads : slot[t] = s =>
          pc[t] \notin {"DcCancel", "SpPending", "RpPending", "AcPending"}
DisconnectReleases == \A s \in Slots :
    CallsEnd(s) /\ []<>~Slipped(s) =>
        ((sessionID[s] \in characterMap /\ socket[s].lo = "ones")
            ~> freeStack[s] > 0)
-----------------------------------------------------------------------------
(* The contents' view: a connection is accepted and not yet announced,        *)
(* characterMap holds the announced sessions, a worker handles a session     *)
(* while it is in the receive logic.                                         *)
Accepting == pc[Acceptor] \in {"AcPop", "AcInc", "AcId", "AcArm", "AcJoin", "Stranded"}
Handling == [w \in Workers |-> IF pc[w] \in RecvPcs THEN sessionID[slot[w]] ELSE NoID]

Contents == INSTANCE SessionTable WITH
    Handlers  <- Workers,
    Indexes   <- Slots,
    CntMax    <- SessionCntMax,
    NoSession <- NoID,
    cnt       <- sessionCnt,
    pending   <- Accepting,
    sessions  <- characterMap,
    handling  <- Handling

(* CNetServer implements SessionTable: OnClientJoin, OnRecv and              *)
(* OnClientLeave reach the contents in the order the class promises,         *)
(* whatever order accept, completions, calls and releases are processed in.  *)
ImplementsSessionTable == Contents!Spec
-----------------------------------------------------------------------------
(* The inductive invariant behind RefCountExact, NoUseAfterRelease and       *)
(* SingleReleaser.                                                           *)

WorkerPcs == BasePcs \cup ReleasePcs \cup {"Gqcs", "RelCas", "RelCount"}
ApiPcs == CallPcs \cup {"ApiIdle", "Enter", "FreePkt"}
AcceptorPcs == AcceptPcs \cup ReleasePcs \cup {"RelCas", "RelCount"}

(* where a thread of each kind can be, and that it has a session there *)
PlaceOK == \A t \in Threads :
    /\ pc[t] \in IF t \in Workers THEN WorkerPcs
                 ELSE IF t = Acceptor THEN AcceptorPcs ELSE ApiPcs
    /\ slot[t] \in Slots \/ pc[t] \in {"Gqcs", "ApiIdle", "AcAccept", "AcPop",
                                      "Ended", "RelCount"}

(* the arguments of a call in progress *)
CallOK == \A t \in Threads : pc[t] \in CallPcs \cup {"Enter", "FreePkt"} =>
    /\ ret[t] \in IF t \in Workers THEN {"Parse", "RpLoad", "Kick"} ELSE {"ApiIdle"}
    /\ id[t] \in SessionIDs
    /\ \/ op[t] = "send" /\ pkt[t] \in Packets
       \/ op[t] = "disconnect" /\ ret[t] # "Kick"
    /\ pc[t] \in {"SqEnqueue", "SqPost", "FreePkt"} => op[t] = "send"

(* the accept thread prepares slot s *)
Preparing(s) == slot[Acceptor] = s /\ pc[Acceptor] \in {"AcInc", "AcId", "AcArm"}

(* A thread, a posted job or the contents may name slot s: it was accepted   *)
(* before, and if it is being prepared again its releaseFlag shows that.     *)
Reached(s) == sessionID[s].cnt # 0 /\ (Preparing(s) => releaseFlag[s] = 1)

(* Slot s carries a session that is not released: nobody may recycle it.     *)
Held(s) == sessionID[s].cnt # 0 /\ releaseFlag[s] = 0 /\ ~Preparing(s)

(* thread t read releaseFlag as 0 after it took its reference, or inherited  *)
(* a reference from one that did                                             *)
Guarded(t) == \/ pc[t] \in ValidPcs \cup {"ChkId", "AcJoin", "AcRecv", "Stranded"}
              \/ t \in Workers /\ pc[t] \in BasePcs

ReachOK ==
    /\ \A t \in Threads : slot[t] \in Slots /\ ~(t = Acceptor /\ Preparing(slot[t]))
                             => Reached(slot[t])
    /\ \A s \in Slots : relJobs[s] > 0 => Reached(s)
    /\ \A i \in characterMap : Reached(i.idx)

HoldOK ==
    /\ \A t \in Threads : slot[t] \in Slots /\ Guarded(t) => Held(slot[t])
    /\ \A s \in Slots : InFlight(s) > 0 => Held(s)

(* a slot is live, being released, free or being prepared, one at a time *)
OwnerOK == \A s \in Slots :
    /\ releaseFlag[s] = 0 /\ sessionID[s].cnt # 0 => Live(s)
    /\ freeStack[s] \in {0, 1}
    /\ freeStack[s] = 1 \/ (Preparing(s) /\ pc[Acceptor] # "AcArm")
          => releaseFlag[s] = 1 \/ sessionID[s].cnt = 0
    /\ Releasing(s) # {} => releaseFlag[s] = 1 /\ freeStack[s] = 0 /\ ~Preparing(s)
    /\ \A t, u \in Releasing(s) : t = u
    /\ Preparing(s) => freeStack[s] = 0
    /\ Preparing(s) /\ pc[Acceptor] = "AcArm"
          => relSocket[s] = "open" /\ sessionID[s].cnt # 0

(* The identifier of a slot names the slot, an accepted one never carries    *)
(* count 0, and Disconnect leaves the high word of its socket alone: the     *)
(* test socket != INVALID_SOCKET of the worker loop never skips a job, which *)
(* for a RELEASE job would drop a reference that the job does not own.       *)
IdentityOK ==
    /\ pc[Acceptor] \in {"AcPop", "AcInc", "AcId"} => sessionCnt > 0
    /\ \A s \in Slots : /\ sessionID[s].idx = s
                        /\ sessionID[s].cnt # 0 => socket[s].hi = "zero"

SenderOK == \A s \in Slots :
    /\ \A v, w \in Senders(s) : v = w
    /\ Senders(s) # {} => sendFlag[s] = 1 /\ sendOv[s] = "idle"
    /\ sendOv[s] # "idle" => sendFlag[s] = 1

ReceiverOK == \A s \in Slots :
    /\ \A t, u \in Receivers(s) : t = u
    /\ Receivers(s) # {} => recvOv[s] = "idle"

(* The inductive invariant: besides the exact count, a slot that was never   *)
(* used is unreachable, whoever relies on a session saw releaseFlag clear    *)
(* while holding a reference, a slot has one owner at a time, and so have    *)
(* its send side and its receive side.                                       *)
SessionInv ==
    /\ TypeOK /\ PlaceOK /\ CallOK
    /\ RefCountExact /\ IdentityOK /\ ReachOK /\ HoldOK /\ OwnerOK
    /\ SenderOK /\ ReceiverOK
-----------------------------------------------------------------------------
(* What the contents and the table of sessions know, on top of SessionInv.   *)

(* the accept thread armed slot s and has not announced it, or never will *)
Arriving(s) == slot[Acceptor] = s /\ pc[Acceptor] \in {"AcJoin", "Stranded"}

(* OnClientJoin was called for the session in slot s, OnClientLeave was not *)
Announced(s) == \/ Held(s) /\ ~Arriving(s)
                \/ \E t \in Releasing(s) : pc[t] \in {"RelDrain", "RelLeave"}

(* the contents know the announced sessions and no other *)
MapOK == characterMap = {sessionID[s] : s \in {u \in Slots : Announced(u)}}

(* nothing is received for a session the accept thread left behind *)
StrandedOK == pc[Acceptor] = "Stranded" =>
    recvOv[slot[Acceptor]] = "idle" /\ Receivers(slot[Acceptor]) = {}

Calling(t) == pc[t] \in CallPcs \cup {"Enter", "FreePkt"}

(* a call names the slot of its identifier and is validated against it *)
IdOK == \A t \in Threads :
    /\ Calling(t) => id[t].idx = slot[t]
    /\ pc[t] \in ValidPcs => sessionID[slot[t]] = id[t]

(* _nowSession counts the slots in use, and the one that is about to be used  *)
(* and those that were given back and not yet uncounted                       *)
InUse == {s \in Slots : freeStack[s] = 0}
Uncounting == {t \in Threads : pc[t] = "RelCount"}
CountOK == /\ nowSession =< MaxUser
           /\ nowSession = Cardinality(InUse) + Cardinality(Uncounting)
                           + (IF pc[Acceptor] = "AcPop" THEN 1 ELSE 0)

(* As long as _sessionCnt has not wrapped, the identifier of a session that   *)
(* is being accepted is greater than every other one in use.                  *)
NoWrap == MaxAccepts =< SessionCntMax
Numbered(s) == slot[Acceptor] = s /\ pc[Acceptor] \in {"AcArm", "AcJoin", "Stranded"}
CntLimit == IF Accepting THEN sessionCnt ELSE sessionCnt + 1
CntOK ==
    /\ \A s \in Slots : IF Numbered(s) THEN sessionID[s].cnt = sessionCnt
                                       ELSE sessionID[s].cnt < CntLimit
    /\ \A t \in Threads : Calling(t) => id[t].cnt < CntLimit

(* the session being accepted carries the value _sessionCnt has now *)
NumberOK == \A s \in Slots : Numbered(s) => sessionID[s].cnt = sessionCnt

ContentsOK == MapOK /\ StrandedOK /\ IdOK /\ CountOK /\ (NoWrap => CntOK)

(* a packet belongs to a thread only during a call of SendPacket *)
CallerOK == \A t \in Threads : pkt[t] # NoPacket => Calling(t) /\ op[t] = "send"

(* sendPacketArr is empty whenever packets may be put into it *)
ArrayOK == \A s \in Slots :
    /\ sessionID[s].cnt = 0 \/ (Preparing(s) /\ releaseFlag[s] = 0) => sendArr[s] = << >>
    /\ Held(s) /\ sendFlag[s] = 0 => sendArr[s] = << >>
    /\ \A w \in Senders(s) : pc[w] \in {"SendUnflag", "SpUse", "SpClear"}
                               => sendArr[s] = << >>

PacketOK == CallerOK /\ ArrayOK /\ PacketRefsExact

(* The inductive invariant of the server: SessionInv, what the contents know *)
(* and who owns a packet.                                                    *)
ServerInv == SessionInv /\ ContentsOK /\ NumberOK /\ PacketOK
=============================================================================
