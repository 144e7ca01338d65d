---------------------------- MODULE SessionProofs ---------------------------
(***************************************************************************)
(* The session life cycle of CNetServer, for any finite number of workers, *)
(* contents threads and slots, any packets and any bounds: types first,    *)
(* then the exact reference count with who may be inside a session, and    *)
(* what follows from it.                                                   *)
(*                                                                         *)
(* TypeOK is not inductive by itself. That a thread has a session wherever *)
(* it indexes an array with slot[t] is PlaceOK; that SendPacket has a      *)
(* packet, and that a call returns to a step of the thread's own kind, is  *)
(* CallOK. There is one lemma per action, and TypeStep combines them.      *)
(*                                                                         *)
(* The second half is about the contents' table of sessions and the        *)
(* packets. MapOK relates characterMap to the life of a session: it holds  *)
(* the sessions from OnClientJoin to OnClientLeave. Most steps are Quiet:  *)
(* they touch neither the tables nor a release, and ContentsQuiet keeps    *)
(* ContentsOK for all of them at once; the steps of ReleaseSession and of  *)
(* the accept thread are proved one by one. CntOK says that the session    *)
(* being accepted has the greatest identifier of all: a recycled slot      *)
(* differs from what a stale identifier names. With these, every step of   *)
(* the server is a step of the session table that the contents see, or     *)
(* leaves it alone.                                                        *)
(***************************************************************************)
EXTENDS CNetServer, FiniteSetTheorems, SequenceTheorems, TLAPS

(* abbreviations that every proof below may expand *)
USE DEF sessVars, sendVars, ioVars, tableVars, localVars, Goto,
        CallPcs, ValidPcs, SendPostPcs, RecvPcs, RecvPostPcs, ReleasePcs,
        AcceptPcs, BasePcs, AcceptRefPcs, IoPcs, WorkerPcs, ApiPcs,
        AcceptorPcs, Pcs

(* what TypeOK needs to be inductive *)
TypeInv == TypeOK /\ PlaceOK /\ CallOK

(* a thread is a worker, a contents thread or the accept thread, one of     *)
(* them                                                                     *)
LEMMA ThreadKinds ==
    /\ \A t \in Workers : t \in Threads /\ t # Acceptor /\ t \notin ApiThreads
    /\ \A t \in ApiThreads : t \in Threads /\ t # Acceptor /\ t \notin Workers
    /\ Acceptor \in Threads /\ Acceptor \notin Workers
BY ThreadAssumption DEF Threads

(* where a worker and the accept thread wait *)
LEMMA IdleKinds ==
    /\ \A t \in Workers : Idle(t) = "Gqcs"
    /\ Idle(Acceptor) = "AcAccept"
BY ThreadAssumption DEF Idle

(* the number of times a packet occurs in a queue is a number *)
LEMMA OccurrencesNat ==
    ASSUME NEW p, NEW q \in Seq(Packets)
    PROVE  Occurrences(p, q) \in Nat
<1>1. DOMAIN q = 1 .. Len(q) /\ Len(q) \in Nat
  OBVIOUS
<1>2. IsFiniteSet(1 .. Len(q))
  BY <1>1, FS_Interval
<1>3. IsFiniteSet({i \in DOMAIN q : q[i] = p})
  BY <1>1, <1>2, FS_Subset
<1> QED BY <1>3, FS_CardinalityType DEF Occurrences

(* freeing the packets of a queue leaves numbers in _refCount *)
LEMMA FreeAllType ==
    ASSUME SendTypeOK, NEW q \in Seq(Packets)
    PROVE  FreeAll(q) \in [Packets -> Int]
BY OccurrencesNat DEF FreeAll, SendTypeOK

(* One lemma per action.  First the completions, then what a worker takes   *)
(* from the port.                                                           *)
LEMMA TypeRecvComplete ==
    ASSUME TypeInv, NEW s \in Slots, RecvComplete(s)
    PROVE  TypeInv'
<1>2. SessionTypeOK' /\ SendTypeOK' /\ TableTypeOK' /\ ThreadTypeOK'
  BY DEF TypeInv, TypeOK, RecvComplete, SendTypeOK, SessionTypeOK, TableTypeOK,
         ThreadTypeOK
<1>3. PortTypeOK'
  BY DEF TypeInv, TypeOK, RecvComplete, PortTypeOK, OverlappedStates
<1>4. PlaceOK' /\ CallOK'
  BY DEF TypeInv, PlaceOK, CallOK, RecvComplete
<1> QED BY <1>2, <1>3, <1>4 DEF TypeInv, TypeOK

LEMMA TypeSendComplete ==
    ASSUME TypeInv, NEW s \in Slots, SendComplete(s)
    PROVE  TypeInv'
<1>2. SessionTypeOK' /\ SendTypeOK' /\ TableTypeOK' /\ ThreadTypeOK'
  BY DEF TypeInv, TypeOK, SendComplete, SendTypeOK, SessionTypeOK, TableTypeOK,
         ThreadTypeOK
<1>3. PortTypeOK'
  BY DEF TypeInv, TypeOK, SendComplete, PortTypeOK, OverlappedStates
<1>4. PlaceOK' /\ CallOK'
  BY DEF TypeInv, PlaceOK, CallOK, SendComplete
<1> QED BY <1>2, <1>3, <1>4 DEF TypeInv, TypeOK

LEMMA TypeTakeRecv ==
    ASSUME TypeInv, NEW w \in Workers, NEW s \in Slots, TakeRecv(w, s)
    PROVE  TypeInv'
<1>1. w \in Threads
  BY ThreadKinds
<1>2. SessionTypeOK' /\ SendTypeOK' /\ TableTypeOK'
  BY DEF TypeInv, TypeOK, TakeRecv, Dispatch, SendTypeOK, SessionTypeOK,
         TableTypeOK
<1>3. PortTypeOK'
  BY <1>1 DEF TypeInv, TypeOK, TakeRecv, Dispatch, PortTypeOK, OverlappedStates
<1>4. ThreadTypeOK'
  BY <1>1, ThreadKinds DEF TypeInv, TypeOK, ThreadTypeOK, TakeRecv, Dispatch
<1>5. PlaceOK'
  BY <1>1, ThreadKinds
     DEF TypeInv, TypeOK, ThreadTypeOK, PlaceOK, TakeRecv, Dispatch
<1>6. CallOK'
  BY <1>1, ThreadKinds
     DEF TypeInv, TypeOK, ThreadTypeOK, CallOK, TakeRecv, Dispatch
<1> QED BY <1>2, <1>3, <1>4, <1>5, <1>6 DEF TypeInv, TypeOK

LEMMA TypeTakeSend ==
    ASSUME TypeInv, NEW w \in Workers, NEW s \in Slots, TakeSend(w, s)
    PROVE  TypeInv'
<1>1. w \in Threads
  BY ThreadKinds
<1>2. SessionTypeOK' /\ SendTypeOK' /\ TableTypeOK'
  BY DEF TypeInv, TypeOK, TakeSend, Dispatch, SendTypeOK, SessionTypeOK,
         TableTypeOK
<1>3. PortTypeOK'
  BY <1>1 DEF TypeInv, TypeOK, TakeSend, Dispatch, PortTypeOK, OverlappedStates
<1>4. ThreadTypeOK'
  BY <1>1, ThreadKinds DEF TypeInv, TypeOK, ThreadTypeOK, TakeSend, Dispatch
<1>5. PlaceOK'
  BY <1>1, ThreadKinds
     DEF TypeInv, TypeOK, ThreadTypeOK, PlaceOK, TakeSend, Dispatch
<1>6. CallOK'
  BY <1>1, ThreadKinds
     DEF TypeInv, TypeOK, ThreadTypeOK, CallOK, TakeSend, Dispatch
<1> QED BY <1>2, <1>3, <1>4, <1>5, <1>6 DEF TypeInv, TypeOK

LEMMA TypeTakeSendPost ==
    ASSUME TypeInv, NEW w \in Workers, NEW s \in Slots, TakeSendPost(w, s)
    PROVE  TypeInv'
<1>1. w \in Threads
  BY ThreadKinds
<1>2. SessionTypeOK' /\ SendTypeOK' /\ TableTypeOK'
  BY DEF TypeInv, TypeOK, TakeSendPost, Dispatch, SendTypeOK, SessionTypeOK,
         TableTypeOK
<1>3. PortTypeOK'
  BY <1>1
     DEF TypeInv, TypeOK, TakeSendPost, Dispatch, PortTypeOK, OverlappedStates
<1>4. ThreadTypeOK'
  BY <1>1, ThreadKinds
     DEF TypeInv, TypeOK, ThreadTypeOK, TakeSendPost, Dispatch
<1>5. PlaceOK'
  BY <1>1, ThreadKinds
     DEF TypeInv, TypeOK, ThreadTypeOK, PlaceOK, TakeSendPost, Dispatch
<1>6. CallOK'
  BY <1>1, ThreadKinds
     DEF TypeInv, TypeOK, ThreadTypeOK, CallOK, TakeSendPost, Dispatch
<1> QED BY <1>2, <1>3, <1>4, <1>5, <1>6 DEF TypeInv, TypeOK

LEMMA TypeTakeRelease ==
    ASSUME TypeInv, NEW w \in Workers, NEW s \in Slots, TakeRelease(w, s)
    PROVE  TypeInv'
<1>1. w \in Threads
  BY ThreadKinds
<1>2. SessionTypeOK' /\ SendTypeOK' /\ TableTypeOK'
  BY DEF TypeInv, TypeOK, TakeRelease, Dispatch, SendTypeOK, SessionTypeOK,
         TableTypeOK
<1>3. PortTypeOK'
  BY <1>1
     DEF TypeInv, TypeOK, TakeRelease, Dispatch, PortTypeOK, OverlappedStates
<1>4. ThreadTypeOK'
  BY <1>1, ThreadKinds DEF TypeInv, TypeOK, ThreadTypeOK, TakeRelease, Dispatch
<1>5. PlaceOK'
  BY <1>1, ThreadKinds
     DEF TypeInv, TypeOK, ThreadTypeOK, PlaceOK, TakeRelease, Dispatch
<1>6. CallOK'
  BY <1>1, ThreadKinds
     DEF TypeInv, TypeOK, ThreadTypeOK, CallOK, TakeRelease, Dispatch
<1> QED BY <1>2, <1>3, <1>4, <1>5, <1>6 DEF TypeInv, TypeOK

LEMMA TypeDec ==
    ASSUME TypeInv, NEW w \in Workers, Dec(w)
    PROVE  TypeInv'
<1>1. w \in Threads /\ slot[w] \in Slots
  BY ThreadKinds DEF TypeInv, PlaceOK, Dec
<1>2. SendTypeOK' /\ PortTypeOK' /\ TableTypeOK'
  BY DEF TypeInv, TypeOK, Dec, DropRef, Finish, PortTypeOK, SendTypeOK,
         TableTypeOK
<1>3. SessionTypeOK'
  BY <1>1
     DEF TypeInv, TypeOK, Dec, DropRef, Finish, SessionTypeOK, Words,
         ClientSock
<1>4. ThreadTypeOK'
  BY <1>1, IdleKinds, ThreadKinds, SMTT(60)
     DEF TypeInv, TypeOK, ThreadTypeOK, Dec, DropRef, Finish
<1>5. PlaceOK'
  BY <1>1, IdleKinds, ThreadKinds
     DEF TypeInv, TypeOK, ThreadTypeOK, PlaceOK, Dec, DropRef, Finish
<1>6. CallOK'
  BY <1>1, IdleKinds, ThreadKinds
     DEF TypeInv, TypeOK, ThreadTypeOK, CallOK, Dec, DropRef, Finish
<1> QED BY <1>2, <1>3, <1>4, <1>5, <1>6 DEF TypeInv, TypeOK

(* the send logic *)
LEMMA TypeSendFree ==
    ASSUME TypeInv, NEW w \in Workers, SendFree(w)
    PROVE  TypeInv'
<1>1. w \in Threads /\ slot[w] \in Slots
  BY ThreadKinds DEF TypeInv, PlaceOK, SendFree
<1>2. SessionTypeOK' /\ PortTypeOK' /\ TableTypeOK'
  BY DEF TypeInv, TypeOK, SendFree, FreeAll, SentCountReset, PortTypeOK,
         SessionTypeOK, TableTypeOK
<1>3. SendTypeOK'
  <2>1. sendArr[slot[w]] \in Seq(Packets)
    BY <1>1 DEF TypeInv, TypeOK, SendTypeOK
  <2>2. FreeAll(sendArr[slot[w]]) \in [Packets -> Int]
    BY <2>1, FreeAllType DEF TypeInv, TypeOK
  <2> QED
    BY <1>1, <2>2
       DEF TypeInv, TypeOK, SendFree, SentCountReset, SendTypeOK
<1>4. ThreadTypeOK'
  BY <1>1, ThreadKinds
     DEF TypeInv, TypeOK, ThreadTypeOK, SendFree, FreeAll, SentCountReset
<1>5. PlaceOK'
  BY <1>1, ThreadKinds
     DEF TypeInv, TypeOK, ThreadTypeOK, PlaceOK, SendFree, FreeAll,
         SentCountReset
<1>6. CallOK'
  BY <1>1, ThreadKinds
     DEF TypeInv, TypeOK, ThreadTypeOK, CallOK, SendFree, FreeAll,
         SentCountReset
<1> QED BY <1>2, <1>3, <1>4, <1>5, <1>6 DEF TypeInv, TypeOK

LEMMA TypeSendUnflag ==
    ASSUME TypeInv, NEW w \in Workers, SendUnflag(w)
    PROVE  TypeInv'
<1>1. w \in Threads /\ slot[w] \in Slots
  BY ThreadKinds DEF TypeInv, PlaceOK, SendUnflag
<1>2. SessionTypeOK' /\ PortTypeOK' /\ TableTypeOK'
  BY DEF TypeInv, TypeOK, SendUnflag, PortTypeOK, SessionTypeOK, TableTypeOK
<1>3. SendTypeOK'
  BY <1>1 DEF TypeInv, TypeOK, SendUnflag, SendTypeOK
<1>4. ThreadTypeOK'
  BY <1>1, ThreadKinds DEF TypeInv, TypeOK, ThreadTypeOK, SendUnflag
<1>5. PlaceOK'
  BY <1>1, ThreadKinds DEF TypeInv, TypeOK, ThreadTypeOK, PlaceOK, SendUnflag
<1>6. CallOK'
  BY <1>1, ThreadKinds DEF TypeInv, TypeOK, ThreadTypeOK, CallOK, SendUnflag
<1> QED BY <1>2, <1>3, <1>4, <1>5, <1>6 DEF TypeInv, TypeOK

LEMMA TypeSpSize ==
    ASSUME TypeInv, NEW w \in Workers, SpSize(w)
    PROVE  TypeInv'
<1>1. w \in Threads /\ slot[w] \in Slots
  BY ThreadKinds DEF TypeInv, PlaceOK, SpSize
<1>2. SessionTypeOK' /\ SendTypeOK' /\ PortTypeOK' /\ TableTypeOK'
  BY DEF TypeInv, TypeOK, SpSize, PortTypeOK, SendTypeOK, SessionTypeOK,
         TableTypeOK
<1>3. ThreadTypeOK'
  BY <1>1, ThreadKinds DEF TypeInv, TypeOK, ThreadTypeOK, SpSize
<1>4. PlaceOK'
  BY <1>1, ThreadKinds DEF TypeInv, TypeOK, ThreadTypeOK, PlaceOK, SpSize
<1>5. CallOK'
  BY <1>1, ThreadKinds DEF TypeInv, TypeOK, ThreadTypeOK, CallOK, SpSize
<1> QED BY <1>2, <1>3, <1>4, <1>5 DEF TypeInv, TypeOK

LEMMA TypeSpFlag ==
    ASSUME TypeInv, NEW w \in Workers, SpFlag(w)
    PROVE  TypeInv'
<1>1. w \in Threads /\ slot[w] \in Slots
  BY ThreadKinds DEF TypeInv, PlaceOK, SpFlag
<1>2. SessionTypeOK' /\ PortTypeOK' /\ TableTypeOK'
  BY DEF TypeInv, TypeOK, SpFlag, AlreadySending, PortTypeOK, SessionTypeOK,
         TableTypeOK
<1>3. SendTypeOK'
  BY <1>1 DEF TypeInv, TypeOK, SpFlag, AlreadySending, SendTypeOK
<1>4. ThreadTypeOK'
  BY <1>1, ThreadKinds
     DEF TypeInv, TypeOK, ThreadTypeOK, SpFlag, AlreadySending
<1>5. PlaceOK'
  BY <1>1, ThreadKinds
     DEF TypeInv, TypeOK, ThreadTypeOK, PlaceOK, SpFlag, AlreadySending
<1>6. CallOK'
  BY <1>1, ThreadKinds
     DEF TypeInv, TypeOK, ThreadTypeOK, CallOK, SpFlag, AlreadySending
<1> QED BY <1>2, <1>3, <1>4, <1>5, <1>6 DEF TypeInv, TypeOK

LEMMA TypeSpUse ==
    ASSUME TypeInv, NEW w \in Workers, SpUse(w)
    PROVE  TypeInv'
<1>1. w \in Threads /\ slot[w] \in Slots
  BY ThreadKinds DEF TypeInv, PlaceOK, SpUse
<1>2. SessionTypeOK' /\ PortTypeOK' /\ TableTypeOK'
  BY DEF TypeInv, TypeOK, SpUse, PortTypeOK, SessionTypeOK, TableTypeOK
<1>3. SendTypeOK'
  <2>1. \A q \in Seq(Packets), m \in Nat : 
           SubSeq(q, 1, IF Len(q) > m THEN m ELSE Len(q)) \in Seq(Packets)
    BY SubSeqProperties
  <2>2. \A q \in Seq(Packets), m \in Nat : SubSeq(q, m + 1, Len(q)) \in Seq(Packets)
    BY SubSeqProperties
  <2>3. sendQ[slot[w]] \in Seq(Packets)
    BY <1>1 DEF TypeInv, TypeOK, SendTypeOK
  <2> DEFINE q == sendQ[slot[w]]
             n == IF Len(q) > MaxBuf THEN MaxBuf ELSE Len(q)
  <2>4. n \in Nat
    BY <2>3, BoundAssumption
  <2>5. SubSeq(q, 1, n) \in Seq(Packets)
    BY <2>1, <2>3, BoundAssumption
  <2>6. SubSeq(q, n + 1, Len(q)) \in Seq(Packets)
    BY <2>2, <2>3, <2>4
  <2>7. CASE q = << >>
    BY <2>7 DEF TypeInv, TypeOK, SpUse, SendTypeOK
  <2>8. CASE q # << >>
    <3>1. /\ sendArr' = [sendArr EXCEPT ![slot[w]] = SubSeq(q, 1, n)]
          /\ sendQ' = [sendQ EXCEPT ![slot[w]] = SubSeq(q, n + 1, Len(q))]
          /\ UNCHANGED <<sendFlag, refCount>>
      BY <2>8, <1>1 DEF SpUse, TypeInv, TypeOK, SendTypeOK
    <3> QED BY <3>1, <2>5, <2>6, <1>1 DEF TypeInv, TypeOK, SendTypeOK
  <2> QED BY <2>7, <2>8
<1>4. ThreadTypeOK'
  BY <1>1, ThreadKinds DEF TypeInv, TypeOK, ThreadTypeOK, SpUse
<1>5. PlaceOK'
  BY <1>1, ThreadKinds DEF TypeInv, TypeOK, ThreadTypeOK, PlaceOK, SpUse
<1>6. CallOK'
  BY <1>1, ThreadKinds DEF TypeInv, TypeOK, ThreadTypeOK, CallOK, SpUse
<1> QED BY <1>2, <1>3, <1>4, <1>5, <1>6 DEF TypeInv, TypeOK

LEMMA TypeSpClear ==
    ASSUME TypeInv, NEW w \in Workers, SpClear(w)
    PROVE  TypeInv'
<1>1. w \in Threads /\ slot[w] \in Slots
  BY ThreadKinds DEF TypeInv, PlaceOK, SpClear
<1>2. SessionTypeOK' /\ PortTypeOK' /\ TableTypeOK'
  BY DEF TypeInv, TypeOK, SpClear, PortTypeOK, SessionTypeOK, TableTypeOK
<1>3. SendTypeOK'
  BY <1>1 DEF TypeInv, TypeOK, SpClear, SendTypeOK
<1>4. ThreadTypeOK'
  BY <1>1, ThreadKinds DEF TypeInv, TypeOK, ThreadTypeOK, SpClear
<1>5. PlaceOK'
  BY <1>1, ThreadKinds DEF TypeInv, TypeOK, ThreadTypeOK, PlaceOK, SpClear
<1>6. CallOK'
  BY <1>1, ThreadKinds DEF TypeInv, TypeOK, ThreadTypeOK, CallOK, SpClear
<1> QED BY <1>2, <1>3, <1>4, <1>5, <1>6 DEF TypeInv, TypeOK

LEMMA TypeSpLoad ==
    ASSUME TypeInv, NEW w \in Workers, SpLoad(w)
    PROVE  TypeInv'
<1>1. w \in Threads /\ slot[w] \in Slots
  BY ThreadKinds DEF TypeInv, PlaceOK, SpLoad
<1>2. SendTypeOK' /\ PortTypeOK' /\ TableTypeOK'
  BY DEF TypeInv, TypeOK, SpLoad, AddRef, SocketArg, PortTypeOK, SendTypeOK,
         TableTypeOK
<1>3. SessionTypeOK'
  BY <1>1
     DEF TypeInv, TypeOK, SpLoad, AddRef, SocketArg, SessionTypeOK, Words,
         ClientSock
<1>4. ThreadTypeOK'
  BY <1>1, ThreadKinds
     DEF TypeInv, TypeOK, ThreadTypeOK, SessionTypeOK, SpLoad, AddRef,
         SocketArg
<1>5. PlaceOK'
  BY <1>1, ThreadKinds
     DEF TypeInv, TypeOK, ThreadTypeOK, PlaceOK, SpLoad, AddRef, SocketArg
<1>6. CallOK'
  BY <1>1, ThreadKinds
     DEF TypeInv, TypeOK, ThreadTypeOK, CallOK, SpLoad, AddRef, SocketArg
<1> QED BY <1>2, <1>3, <1>4, <1>5, <1>6 DEF TypeInv, TypeOK

LEMMA TypeSpCall ==
    ASSUME TypeInv, NEW w \in Workers, SpCall(w)
    PROVE  TypeInv'
<1>1. w \in Threads /\ slot[w] \in Slots
  BY ThreadKinds DEF TypeInv, PlaceOK, SpCall
<1>2. SendTypeOK' /\ TableTypeOK'
  BY DEF TypeInv, TypeOK, SpCall, PostFailed, DropRef, SendTypeOK, TableTypeOK
<1>3. SessionTypeOK'
  BY <1>1
     DEF TypeInv, TypeOK, SpCall, PostFailed, DropRef, SessionTypeOK, Words,
         ClientSock
<1>4. PortTypeOK'
  BY <1>1
     DEF TypeInv, TypeOK, SpCall, PostFailed, DropRef, PortTypeOK,
         OverlappedStates
<1>5. ThreadTypeOK'
  BY <1>1, ThreadKinds
     DEF TypeInv, TypeOK, ThreadTypeOK, INVALID_SOCKET, Words, SpCall,
         PostFailed, DropRef
<1>6. PlaceOK'
  BY <1>1, ThreadKinds
     DEF TypeInv, TypeOK, ThreadTypeOK, PlaceOK, SpCall, PostFailed, DropRef
<1>7. CallOK'
  BY <1>1, ThreadKinds
     DEF TypeInv, TypeOK, ThreadTypeOK, CallOK, SpCall, PostFailed, DropRef
<1> QED BY <1>2, <1>3, <1>4, <1>5, <1>6, <1>7 DEF TypeInv, TypeOK

LEMMA TypeSpPending ==
    ASSUME TypeInv, NEW w \in Workers, SpPending(w)
    PROVE  TypeInv'
<1>1. w \in Threads /\ slot[w] \in Slots
  BY ThreadKinds DEF TypeInv, PlaceOK, SpPending
<1>2. SessionTypeOK' /\ SendTypeOK' /\ TableTypeOK'
  BY DEF TypeInv, TypeOK, SpPending, CancelIfInvalid, Cancelled, SendTypeOK,
         SessionTypeOK, TableTypeOK
<1>3. PortTypeOK'
  BY <1>1
     DEF TypeInv, TypeOK, SpPending, CancelIfInvalid, Cancelled, PortTypeOK,
         OverlappedStates
<1>4. ThreadTypeOK'
  BY <1>1, ThreadKinds
     DEF TypeInv, TypeOK, ThreadTypeOK, SpPending, CancelIfInvalid, Cancelled
<1>5. PlaceOK'
  BY <1>1, ThreadKinds
     DEF TypeInv, TypeOK, ThreadTypeOK, PlaceOK, SpPending, CancelIfInvalid,
         Cancelled
<1>6. CallOK'
  BY <1>1, ThreadKinds
     DEF TypeInv, TypeOK, ThreadTypeOK, CallOK, SpPending, CancelIfInvalid,
         Cancelled
<1> QED BY <1>2, <1>3, <1>4, <1>5, <1>6 DEF TypeInv, TypeOK

(* the receive logic *)
LEMMA TypeParseEnd ==
    ASSUME TypeInv, NEW w \in Workers, ParseEnd(w)
    PROVE  TypeInv'
<1>1. w \in Threads /\ slot[w] \in Slots
  BY ThreadKinds DEF TypeInv, PlaceOK, ParseEnd
<1>2. SessionTypeOK' /\ SendTypeOK' /\ PortTypeOK' /\ TableTypeOK'
  BY DEF TypeInv, TypeOK, ParseEnd, PortTypeOK, SendTypeOK, SessionTypeOK,
         TableTypeOK
<1>3. ThreadTypeOK'
  BY <1>1, ThreadKinds DEF TypeInv, TypeOK, ThreadTypeOK, ParseEnd
<1>4. PlaceOK'
  BY <1>1, ThreadKinds DEF TypeInv, TypeOK, ThreadTypeOK, PlaceOK, ParseEnd
<1>5. CallOK'
  BY <1>1, ThreadKinds DEF TypeInv, TypeOK, ThreadTypeOK, CallOK, ParseEnd
<1> QED BY <1>2, <1>3, <1>4, <1>5 DEF TypeInv, TypeOK

LEMMA TypeParseBad ==
    ASSUME TypeInv, NEW w \in Workers, ParseBad(w)
    PROVE  TypeInv'
<1>1. w \in Threads /\ slot[w] \in Slots
  BY ThreadKinds DEF TypeInv, PlaceOK, ParseBad
<1>2. SessionTypeOK' /\ SendTypeOK' /\ PortTypeOK' /\ TableTypeOK'
  BY DEF TypeInv, TypeOK, ParseBad, Call, PortTypeOK, SendTypeOK,
         SessionTypeOK, TableTypeOK
<1>3. ThreadTypeOK'
  BY <1>1, ThreadKinds
     DEF TypeInv, TypeOK, ThreadTypeOK, SessionTypeOK, ParseBad, Call
<1>4. PlaceOK'
  BY <1>1, ThreadKinds
     DEF TypeInv, TypeOK, ThreadTypeOK, PlaceOK, ParseBad, Call
<1>5. CallOK'
  BY <1>1, ThreadKinds
     DEF TypeInv, TypeOK, ThreadTypeOK, CallOK, SessionTypeOK, ParseBad, Call
<1> QED BY <1>2, <1>3, <1>4, <1>5 DEF TypeInv, TypeOK

LEMMA TypeOnRecv ==
    ASSUME TypeInv, NEW w \in Workers, OnRecv(w)
    PROVE  TypeInv'
<1>1. w \in Threads /\ slot[w] \in Slots
  BY ThreadKinds DEF TypeInv, PlaceOK, OnRecv
<1>2. SessionTypeOK' /\ PortTypeOK' /\ TableTypeOK'
  BY DEF TypeInv, TypeOK, OnRecv, Call, PortTypeOK, SessionTypeOK, TableTypeOK
<1>3. SendTypeOK'
  BY <1>1 DEF TypeInv, TypeOK, OnRecv, Call, SendTypeOK
<1>4. ThreadTypeOK'
  <2>1. sessionID[slot[w]] \in SessionIDs
    BY <1>1 DEF TypeInv, TypeOK, SessionTypeOK
  <2>2. CASE sessionID[slot[w]] \in characterMap
    <3>1. PICK p \in Packets, l \in {"Parse", "Kick"} :
             pkt' = [pkt EXCEPT ![w] = p] /\ Call(w, "send", sessionID[slot[w]], l)
      BY <2>2 DEF OnRecv
    <3> QED BY <1>1, <2>1, <3>1 DEF TypeInv, TypeOK, ThreadTypeOK, OnRecv, Call
  <2>3. CASE sessionID[slot[w]] \notin characterMap
    BY <1>1, <2>1, <2>3 DEF TypeInv, TypeOK, ThreadTypeOK, OnRecv, Call
  <2> QED BY <2>2, <2>3
<1>5. PlaceOK'
  BY <1>1, ThreadKinds DEF TypeInv, TypeOK, ThreadTypeOK, PlaceOK, OnRecv, Call
<1>6. CallOK'
  BY <1>1, ThreadKinds
     DEF TypeInv, TypeOK, ThreadTypeOK, CallOK, SessionTypeOK, OnRecv, Call
<1> QED BY <1>2, <1>3, <1>4, <1>5, <1>6 DEF TypeInv, TypeOK

LEMMA TypeRpLoad ==
    ASSUME TypeInv, NEW w \in Workers, RpLoad(w)
    PROVE  TypeInv'
<1>1. w \in Threads /\ slot[w] \in Slots
  BY ThreadKinds DEF TypeInv, PlaceOK, RpLoad
<1>2. SendTypeOK' /\ PortTypeOK' /\ TableTypeOK'
  BY DEF TypeInv, TypeOK, RpLoad, AddRef, SocketArg, PortTypeOK, SendTypeOK,
         TableTypeOK
<1>3. SessionTypeOK'
  BY <1>1
     DEF TypeInv, TypeOK, RpLoad, AddRef, SocketArg, SessionTypeOK, Words,
         ClientSock
<1>4. ThreadTypeOK'
  BY <1>1, ThreadKinds
     DEF TypeInv, TypeOK, ThreadTypeOK, SessionTypeOK, RpLoad, AddRef,
         SocketArg
<1>5. PlaceOK'
  BY <1>1, ThreadKinds
     DEF TypeInv, TypeOK, ThreadTypeOK, PlaceOK, RpLoad, AddRef, SocketArg
<1>6. CallOK'
  BY <1>1, ThreadKinds
     DEF TypeInv, TypeOK, ThreadTypeOK, CallOK, RpLoad, AddRef, SocketArg
<1> QED BY <1>2, <1>3, <1>4, <1>5, <1>6 DEF TypeInv, TypeOK

LEMMA TypeRpCall ==
    ASSUME TypeInv, NEW w \in Workers, RpCall(w)
    PROVE  TypeInv'
<1>1. w \in Threads /\ slot[w] \in Slots
  BY ThreadKinds DEF TypeInv, PlaceOK, RpCall
<1>2. SendTypeOK' /\ TableTypeOK'
  BY DEF TypeInv, TypeOK, RpCall, PostFailed, DropRef, SendTypeOK, TableTypeOK
<1>3. SessionTypeOK'
  BY <1>1
     DEF TypeInv, TypeOK, RpCall, PostFailed, DropRef, SessionTypeOK, Words,
         ClientSock
<1>4. PortTypeOK'
  BY <1>1
     DEF TypeInv, TypeOK, RpCall, PostFailed, DropRef, PortTypeOK,
         OverlappedStates
<1>5. ThreadTypeOK'
  BY <1>1, ThreadKinds
     DEF TypeInv, TypeOK, ThreadTypeOK, INVALID_SOCKET, Words, RpCall,
         PostFailed, DropRef
<1>6. PlaceOK'
  BY <1>1, ThreadKinds
     DEF TypeInv, TypeOK, ThreadTypeOK, PlaceOK, RpCall, PostFailed, DropRef
<1>7. CallOK'
  BY <1>1, ThreadKinds
     DEF TypeInv, TypeOK, ThreadTypeOK, CallOK, RpCall, PostFailed, DropRef
<1> QED BY <1>2, <1>3, <1>4, <1>5, <1>6, <1>7 DEF TypeInv, TypeOK

LEMMA TypeRpPending ==
    ASSUME TypeInv, NEW w \in Workers, RpPending(w)
    PROVE  TypeInv'
<1>1. w \in Threads /\ slot[w] \in Slots
  BY ThreadKinds DEF TypeInv, PlaceOK, RpPending
<1>2. SessionTypeOK' /\ SendTypeOK' /\ TableTypeOK'
  BY DEF TypeInv, TypeOK, RpPending, CancelIfInvalid, Cancelled, SendTypeOK,
         SessionTypeOK, TableTypeOK
<1>3. PortTypeOK'
  BY <1>1
     DEF TypeInv, TypeOK, RpPending, CancelIfInvalid, Cancelled, PortTypeOK,
         OverlappedStates
<1>4. ThreadTypeOK'
  BY <1>1, ThreadKinds
     DEF TypeInv, TypeOK, ThreadTypeOK, RpPending, CancelIfInvalid, Cancelled
<1>5. PlaceOK'
  BY <1>1, ThreadKinds
     DEF TypeInv, TypeOK, ThreadTypeOK, PlaceOK, RpPending, CancelIfInvalid,
         Cancelled
<1>6. CallOK'
  BY <1>1, ThreadKinds
     DEF TypeInv, TypeOK, ThreadTypeOK, CallOK, RpPending, CancelIfInvalid,
         Cancelled
<1> QED BY <1>2, <1>3, <1>4, <1>5, <1>6 DEF TypeInv, TypeOK

(* Disconnect and SendPacket *)
LEMMA TypeEnter ==
    ASSUME TypeInv, NEW t \in Workers \cup ApiThreads, Enter(t)
    PROVE  TypeInv'
<1>1. t \in Threads /\ slot[t] \in Slots
  BY ThreadKinds DEF TypeInv, PlaceOK, Enter
<1>2. SendTypeOK' /\ PortTypeOK' /\ TableTypeOK'
  BY DEF TypeInv, TypeOK, Enter, AddRef, PortTypeOK, SendTypeOK, TableTypeOK
<1>3. SessionTypeOK'
  BY <1>1 DEF TypeInv, TypeOK, Enter, AddRef, SessionTypeOK, Words, ClientSock
<1>4. ThreadTypeOK'
  BY <1>1, ThreadKinds DEF TypeInv, TypeOK, ThreadTypeOK, Enter, AddRef
<1>5. PlaceOK'
  BY <1>1, ThreadKinds
     DEF TypeInv, TypeOK, ThreadTypeOK, PlaceOK, Enter, AddRef
<1>6. CallOK'
  BY <1>1, ThreadKinds DEF TypeInv, TypeOK, ThreadTypeOK, CallOK, Enter, AddRef
<1> QED BY <1>2, <1>3, <1>4, <1>5, <1>6 DEF TypeInv, TypeOK

LEMMA TypeChkFlag ==
    ASSUME TypeInv, NEW t \in Workers \cup ApiThreads, ChkFlag(t)
    PROVE  TypeInv'
<1>1. t \in Threads /\ slot[t] \in Slots
  BY ThreadKinds DEF TypeInv, PlaceOK, ChkFlag
<1>2. SessionTypeOK' /\ SendTypeOK' /\ PortTypeOK' /\ TableTypeOK'
  BY DEF TypeInv, TypeOK, ChkFlag, PortTypeOK, SendTypeOK, SessionTypeOK,
         TableTypeOK
<1>3. ThreadTypeOK'
  BY <1>1, ThreadKinds DEF TypeInv, TypeOK, ThreadTypeOK, ChkFlag
<1>4. PlaceOK'
  BY <1>1, ThreadKinds DEF TypeInv, TypeOK, ThreadTypeOK, PlaceOK, ChkFlag
<1>5. CallOK'
  BY <1>1, ThreadKinds DEF TypeInv, TypeOK, ThreadTypeOK, CallOK, ChkFlag
<1> QED BY <1>2, <1>3, <1>4, <1>5 DEF TypeInv, TypeOK

LEMMA TypeChkId ==
    ASSUME TypeInv, NEW t \in Workers \cup ApiThreads, ChkId(t)
    PROVE  TypeInv'
<1>1. t \in Threads /\ slot[t] \in Slots
  BY ThreadKinds DEF TypeInv, PlaceOK, ChkId
<1>2. SessionTypeOK' /\ SendTypeOK' /\ PortTypeOK' /\ TableTypeOK'
  BY DEF TypeInv, TypeOK, ChkId, PortTypeOK, SendTypeOK, SessionTypeOK,
         TableTypeOK
<1>3. ThreadTypeOK'
  BY <1>1, ThreadKinds DEF TypeInv, TypeOK, ThreadTypeOK, ChkId
<1>4. PlaceOK'
  BY <1>1, ThreadKinds DEF TypeInv, TypeOK, ThreadTypeOK, PlaceOK, ChkId
<1>5. CallOK'
  BY <1>1, ThreadKinds DEF TypeInv, TypeOK, ThreadTypeOK, CallOK, ChkId
<1> QED BY <1>2, <1>3, <1>4, <1>5 DEF TypeInv, TypeOK

LEMMA TypeDcExchange ==
    ASSUME TypeInv, NEW t \in Workers \cup ApiThreads, DcExchange(t)
    PROVE  TypeInv'
<1>1. t \in Threads /\ slot[t] \in Slots
  BY ThreadKinds DEF TypeInv, PlaceOK, DcExchange
<1>2. SendTypeOK' /\ PortTypeOK' /\ TableTypeOK'
  BY DEF TypeInv, TypeOK, DcExchange, PortTypeOK, SendTypeOK, TableTypeOK
<1>3. SessionTypeOK'
  BY <1>1 DEF TypeInv, TypeOK, DcExchange, SessionTypeOK, Words, ClientSock
<1>4. ThreadTypeOK'
  BY <1>1, ThreadKinds DEF TypeInv, TypeOK, ThreadTypeOK, DcExchange
<1>5. PlaceOK'
  BY <1>1, ThreadKinds DEF TypeInv, TypeOK, ThreadTypeOK, PlaceOK, DcExchange
<1>6. CallOK'
  BY <1>1, ThreadKinds DEF TypeInv, TypeOK, ThreadTypeOK, CallOK, DcExchange
<1> QED BY <1>2, <1>3, <1>4, <1>5, <1>6 DEF TypeInv, TypeOK

LEMMA TypeDcCancel ==
    ASSUME TypeInv, NEW t \in Workers \cup ApiThreads, DcCancel(t)
    PROVE  TypeInv'
<1>1. t \in Threads /\ slot[t] \in Slots
  BY ThreadKinds DEF TypeInv, PlaceOK, DcCancel
<1>2. SessionTypeOK' /\ SendTypeOK' /\ TableTypeOK'
  BY DEF TypeInv, TypeOK, DcCancel, Cancelled, SendTypeOK, SessionTypeOK,
         TableTypeOK
<1>3. PortTypeOK'
  BY <1>1
     DEF TypeInv, TypeOK, DcCancel, Cancelled, PortTypeOK, OverlappedStates
<1>4. ThreadTypeOK'
  BY <1>1, ThreadKinds DEF TypeInv, TypeOK, ThreadTypeOK, DcCancel, Cancelled
<1>5. PlaceOK'
  BY <1>1, ThreadKinds
     DEF TypeInv, TypeOK, ThreadTypeOK, PlaceOK, DcCancel, Cancelled
<1>6. CallOK'
  BY <1>1, ThreadKinds
     DEF TypeInv, TypeOK, ThreadTypeOK, CallOK, DcCancel, Cancelled
<1> QED BY <1>2, <1>3, <1>4, <1>5, <1>6 DEF TypeInv, TypeOK

LEMMA TypeSqEnqueue ==
    ASSUME TypeInv, NEW t \in Workers \cup ApiThreads, SqEnqueue(t)
    PROVE  TypeInv'
<1>1. t \in Threads /\ slot[t] \in Slots
  BY ThreadKinds DEF TypeInv, PlaceOK, SqEnqueue
<1>2. SessionTypeOK' /\ PortTypeOK' /\ TableTypeOK'
  BY DEF TypeInv, TypeOK, SqEnqueue, PortTypeOK, SessionTypeOK, TableTypeOK
<1>3. SendTypeOK'
  <2>1. pkt[t] \in Packets
    BY <1>1 DEF TypeInv, CallOK, SqEnqueue
  <2> QED BY <1>1, <2>1 DEF TypeInv, TypeOK, SqEnqueue, SendTypeOK
<1>4. ThreadTypeOK'
  BY <1>1, ThreadKinds DEF TypeInv, TypeOK, ThreadTypeOK, SqEnqueue
<1>5. PlaceOK'
  BY <1>1, ThreadKinds DEF TypeInv, TypeOK, ThreadTypeOK, PlaceOK, SqEnqueue
<1>6. CallOK'
  BY <1>1, ThreadKinds DEF TypeInv, TypeOK, ThreadTypeOK, CallOK, SqEnqueue
<1> QED BY <1>2, <1>3, <1>4, <1>5, <1>6 DEF TypeInv, TypeOK

LEMMA TypeSqPost ==
    ASSUME TypeInv, NEW t \in Workers \cup ApiThreads, SqPost(t)
    PROVE  TypeInv'
<1>1. t \in Threads /\ slot[t] \in Slots
  BY ThreadKinds DEF TypeInv, PlaceOK, SqPost
<1>2. SessionTypeOK' /\ SendTypeOK' /\ TableTypeOK'
  BY DEF TypeInv, TypeOK, SqPost, Return, EndCall, SendTypeOK, SessionTypeOK,
         TableTypeOK
<1>3. PortTypeOK'
  BY <1>1
     DEF TypeInv, TypeOK, SqPost, Return, EndCall, PortTypeOK, OverlappedStates
<1>4. ThreadTypeOK'
  BY <1>1, ThreadKinds
     DEF TypeInv, TypeOK, ThreadTypeOK, CallOK, SqPost, Return, EndCall
<1>5. PlaceOK'
  BY <1>1, ThreadKinds
     DEF TypeInv, TypeOK, ThreadTypeOK, PlaceOK, CallOK, SqPost, Return,
         EndCall
<1>6. CallOK'
  BY <1>1, ThreadKinds
     DEF TypeInv, TypeOK, ThreadTypeOK, CallOK, SqPost, Return, EndCall
<1> QED BY <1>2, <1>3, <1>4, <1>5, <1>6 DEF TypeInv, TypeOK

LEMMA TypeSqPostFails ==
    ASSUME TypeInv, NEW t \in Workers \cup ApiThreads, SqPostFails(t)
    PROVE  TypeInv'
<1>1. t \in Threads /\ slot[t] \in Slots
  BY ThreadKinds DEF TypeInv, PlaceOK, SqPostFails
<1>2. SessionTypeOK' /\ SendTypeOK' /\ PortTypeOK' /\ TableTypeOK'
  BY DEF TypeInv, TypeOK, SqPostFails, PortTypeOK, SendTypeOK, SessionTypeOK,
         TableTypeOK
<1>3. ThreadTypeOK'
  BY <1>1, ThreadKinds DEF TypeInv, TypeOK, ThreadTypeOK, SqPostFails
<1>4. PlaceOK'
  BY <1>1, ThreadKinds DEF TypeInv, TypeOK, ThreadTypeOK, PlaceOK, SqPostFails
<1>5. CallOK'
  BY <1>1, ThreadKinds DEF TypeInv, TypeOK, ThreadTypeOK, CallOK, SqPostFails
<1> QED BY <1>2, <1>3, <1>4, <1>5 DEF TypeInv, TypeOK

LEMMA TypeLeave ==
    ASSUME TypeInv, NEW t \in Workers \cup ApiThreads, Leave(t)
    PROVE  TypeInv'
<1>1. t \in Threads /\ slot[t] \in Slots
  BY ThreadKinds DEF TypeInv, PlaceOK, Leave
<1>2. SendTypeOK' /\ TableTypeOK'
  BY DEF TypeInv, TypeOK, Leave, DropRef, Return, EndCall, SendTypeOK,
         TableTypeOK
<1>3. SessionTypeOK'
  BY <1>1
     DEF TypeInv, TypeOK, Leave, DropRef, Return, EndCall, SessionTypeOK,
         Words, ClientSock
<1>4. PortTypeOK'
  BY <1>1
     DEF TypeInv, TypeOK, Leave, DropRef, Return, EndCall, PortTypeOK,
         OverlappedStates
<1>5. ThreadTypeOK'
  <2>1. ret[t] \in Pcs \/ op[t] = "send"
    BY <1>1 DEF TypeInv, CallOK, Leave
  <2>2. CASE op[t] = "send"
    BY <1>1, <2>2 DEF TypeInv, TypeOK, ThreadTypeOK, Leave, Return
  <2>3. CASE op[t] # "send"
    BY <1>1, <2>1, <2>3, ZenonT(30)
       DEF TypeInv, TypeOK, ThreadTypeOK, Leave, Return, EndCall
  <2> QED BY <2>2, <2>3
<1>6. PlaceOK'
  BY <1>1, ThreadKinds
     DEF TypeInv, TypeOK, ThreadTypeOK, PlaceOK, CallOK, Leave, DropRef,
         Return, EndCall
<1>7. CallOK'
  BY <1>1, ThreadKinds
     DEF TypeInv, TypeOK, ThreadTypeOK, CallOK, Leave, DropRef, Return, EndCall
<1> QED BY <1>2, <1>3, <1>4, <1>5, <1>6, <1>7 DEF TypeInv, TypeOK

LEMMA TypeFreePkt ==
    ASSUME TypeInv, NEW t \in Workers \cup ApiThreads, FreePkt(t)
    PROVE  TypeInv'
<1>1. t \in Threads /\ slot[t] \in Slots
  BY ThreadKinds DEF TypeInv, PlaceOK, FreePkt
<1>2. SessionTypeOK' /\ PortTypeOK' /\ TableTypeOK'
  BY DEF TypeInv, TypeOK, FreePkt, Call, EndCall, PortTypeOK, SessionTypeOK,
         TableTypeOK
<1>3. SendTypeOK'
  <2>1. pkt[t] \in Packets
    BY <1>1 DEF TypeInv, CallOK, FreePkt
  <2>2. refCount' \in [Packets -> Int]
    BY <2>1 DEF TypeInv, TypeOK, FreePkt, SendTypeOK
  <2> QED BY <2>2 DEF TypeInv, TypeOK, FreePkt, SendTypeOK
<1>4. ThreadTypeOK'
  <2>1. ret[t] \in {"Parse", "RpLoad", "Kick", "ApiIdle"} /\ id[t] \in SessionIDs
    BY <1>1 DEF TypeInv, CallOK, FreePkt
  <2>2. CASE ret[t] = "Kick"
    BY <1>1, <2>1, <2>2, ZenonT(30) DEF TypeInv, TypeOK, ThreadTypeOK, FreePkt, Call
  <2>3. CASE ret[t] # "Kick"
    <3>1. ret[t] \in Pcs
      BY <2>1, <2>3
    <3> QED
      BY <1>1, <2>3, <3>1, SMTT(60)
         DEF TypeInv, TypeOK, ThreadTypeOK, FreePkt, EndCall
  <2> QED BY <2>2, <2>3
<1>5. PlaceOK'
  BY <1>1, ThreadKinds
     DEF TypeInv, TypeOK, ThreadTypeOK, PlaceOK, CallOK, FreePkt, Call, EndCall
<1>6. CallOK'
  BY <1>1, ThreadKinds
     DEF TypeInv, TypeOK, ThreadTypeOK, CallOK, FreePkt, Call, EndCall
<1> QED BY <1>2, <1>3, <1>4, <1>5, <1>6 DEF TypeInv, TypeOK

LEMMA TypeApiCall ==
    ASSUME TypeInv, NEW t \in ApiThreads, ApiCall(t)
    PROVE  TypeInv'
<1>1. t \in Threads
  BY ThreadKinds
<1>2. SessionTypeOK' /\ PortTypeOK' /\ TableTypeOK'
  BY DEF TypeInv, TypeOK, ApiCall, Call, PortTypeOK, SessionTypeOK, TableTypeOK
<1>3. SendTypeOK'
  BY <1>1 DEF TypeInv, TypeOK, ApiCall, Call, SendTypeOK
<1>4. ThreadTypeOK'
  <2>1. PICK i \in characterMap :
           /\ slot' = [slot EXCEPT ![t] = i.idx]
           /\ \/ Call(t, "disconnect", i, "ApiIdle") /\ UNCHANGED pkt
              \/ \E p \in Packets : /\ pkt' = [pkt EXCEPT ![t] = p]
                                   /\ Call(t, "send", i, "ApiIdle")
    BY DEF ApiCall
  <2>2. i \in SessionIDs /\ i.idx \in Slots
    BY DEF TypeInv, TypeOK, TableTypeOK, SessionIDs
  <2>3. pc' \in [Threads -> Pcs] /\ slot' \in [Threads -> Slots \cup {NoSlot}]
    BY <1>1, <2>1, <2>2 DEF TypeInv, TypeOK, ThreadTypeOK, Call
  <2>4. id' \in [Threads -> SessionIDs \cup {NoID}]
    BY <1>1, <2>1, <2>2 DEF TypeInv, TypeOK, ThreadTypeOK, Call
  <2>5. /\ op' \in [Threads -> {"disconnect", "send", "none"}]
        /\ ret' \in [Threads -> {"Parse", "Kick", "RpLoad", "ApiIdle", "none"}]
    BY <1>1, <2>1 DEF TypeInv, TypeOK, ThreadTypeOK, Call
  <2>6. pkt' \in [Threads -> Packets \cup {NoPacket}]
    BY <1>1, <2>1 DEF TypeInv, TypeOK, ThreadTypeOK
  <2> QED BY <2>3, <2>4, <2>5, <2>6 DEF TypeInv, TypeOK, ThreadTypeOK, ApiCall
<1>5. PlaceOK'
  BY <1>1, ThreadKinds
     DEF TypeInv, TypeOK, ThreadTypeOK, PlaceOK, TableTypeOK, SessionIDs,
         ApiCall, Call
<1>6. CallOK'
  BY <1>1, ThreadKinds
     DEF TypeInv, TypeOK, ThreadTypeOK, CallOK, TableTypeOK, ApiCall, Call
<1> QED BY <1>2, <1>3, <1>4, <1>5, <1>6 DEF TypeInv, TypeOK

(* ReleaseSession *)
LEMMA TypeRelCas ==
    ASSUME TypeInv, NEW t \in Workers \cup {Acceptor}, RelCas(t)
    PROVE  TypeInv'
<1>1. t \in Threads /\ slot[t] \in Slots
  BY ThreadKinds DEF TypeInv, PlaceOK, RelCas
<1>2. SendTypeOK' /\ PortTypeOK' /\ TableTypeOK'
  BY DEF TypeInv, TypeOK, RelCas, MayRelease, Finish, PortTypeOK, SendTypeOK,
         TableTypeOK
<1>3. SessionTypeOK'
  BY <1>1
     DEF TypeInv, TypeOK, RelCas, MayRelease, Finish, SessionTypeOK, Words,
         ClientSock
<1>4. ThreadTypeOK'
  <2>1. Idle(t) \in Pcs /\ "RelDrain" \in Pcs
    BY IdleKinds
  <2>2. CASE MayRelease(slot[t])
    BY <1>1, <2>1, <2>2 DEF TypeInv, TypeOK, ThreadTypeOK, RelCas
  <2>3. CASE ~MayRelease(slot[t])
    BY <1>1, <2>1, <2>3 DEF TypeInv, TypeOK, ThreadTypeOK, RelCas, Finish
  <2> QED BY <2>2, <2>3
<1>5. PlaceOK'
  BY <1>1, IdleKinds, ThreadKinds
     DEF TypeInv, TypeOK, ThreadTypeOK, PlaceOK, RelCas, MayRelease, Finish
<1>6. CallOK'
  BY <1>1, IdleKinds, ThreadKinds
     DEF TypeInv, TypeOK, ThreadTypeOK, CallOK, RelCas, MayRelease, Finish
<1> QED BY <1>2, <1>3, <1>4, <1>5, <1>6 DEF TypeInv, TypeOK

LEMMA TypeRelDrain ==
    ASSUME TypeInv, NEW t \in Workers \cup {Acceptor}, RelDrain(t)
    PROVE  TypeInv'
<1>1. t \in Threads /\ slot[t] \in Slots
  BY ThreadKinds DEF TypeInv, PlaceOK, RelDrain
<1>2. PortTypeOK' /\ TableTypeOK'
  BY DEF TypeInv, TypeOK, RelDrain, FreeAll, PortTypeOK, TableTypeOK
<1>3. SessionTypeOK'
  BY <1>1
     DEF TypeInv, TypeOK, RelDrain, FreeAll, SessionTypeOK, Words, ClientSock
<1>4. SendTypeOK'
  <2>1. sendQ[slot[t]] \o sendArr[slot[t]] \in Seq(Packets)
    BY <1>1 DEF TypeInv, TypeOK, SendTypeOK
  <2>2. FreeAll(sendQ[slot[t]] \o sendArr[slot[t]]) \in [Packets -> Int]
    BY <2>1, FreeAllType DEF TypeInv, TypeOK
  <2> QED BY <1>1, <2>2 DEF TypeInv, TypeOK, RelDrain, SendTypeOK
<1>5. ThreadTypeOK'
  BY <1>1, ThreadKinds DEF TypeInv, TypeOK, ThreadTypeOK, RelDrain, FreeAll
<1>6. PlaceOK'
  BY <1>1, ThreadKinds
     DEF TypeInv, TypeOK, ThreadTypeOK, PlaceOK, RelDrain, FreeAll
<1>7. CallOK'
  BY <1>1, ThreadKinds
     DEF TypeInv, TypeOK, ThreadTypeOK, CallOK, RelDrain, FreeAll
<1> QED BY <1>2, <1>3, <1>4, <1>5, <1>6, <1>7 DEF TypeInv, TypeOK

LEMMA TypeRelLeave ==
    ASSUME TypeInv, NEW t \in Workers \cup {Acceptor}, RelLeave(t)
    PROVE  TypeInv'
<1>1. t \in Threads /\ slot[t] \in Slots
  BY ThreadKinds DEF TypeInv, PlaceOK, RelLeave
<1>2. SessionTypeOK' /\ SendTypeOK' /\ PortTypeOK'
  BY DEF TypeInv, TypeOK, RelLeave, PortTypeOK, SendTypeOK, SessionTypeOK
<1>3. TableTypeOK'
  BY <1>1 DEF TypeInv, TypeOK, RelLeave, TableTypeOK
<1>4. ThreadTypeOK'
  BY <1>1, ThreadKinds DEF TypeInv, TypeOK, ThreadTypeOK, RelLeave
<1>5. PlaceOK'
  BY <1>1, ThreadKinds DEF TypeInv, TypeOK, ThreadTypeOK, PlaceOK, RelLeave
<1>6. CallOK'
  BY <1>1, ThreadKinds DEF TypeInv, TypeOK, ThreadTypeOK, CallOK, RelLeave
<1> QED BY <1>2, <1>3, <1>4, <1>5, <1>6 DEF TypeInv, TypeOK

LEMMA TypeRelPush ==
    ASSUME TypeInv, NEW t \in Workers \cup {Acceptor}, RelPush(t)
    PROVE  TypeInv'
<1>1. t \in Threads /\ slot[t] \in Slots
  BY ThreadKinds DEF TypeInv, PlaceOK, RelPush
<1>2. SessionTypeOK' /\ SendTypeOK' /\ PortTypeOK'
  BY DEF TypeInv, TypeOK, RelPush, PortTypeOK, SendTypeOK, SessionTypeOK
<1>3. TableTypeOK'
  BY <1>1 DEF TypeInv, TypeOK, RelPush, TableTypeOK, SessionTypeOK, SessionIDs
<1>4. ThreadTypeOK'
  BY <1>1, ThreadKinds DEF TypeInv, TypeOK, ThreadTypeOK, RelPush
<1>5. PlaceOK'
  BY <1>1, ThreadKinds DEF TypeInv, TypeOK, ThreadTypeOK, PlaceOK, RelPush
<1>6. CallOK'
  BY <1>1, ThreadKinds DEF TypeInv, TypeOK, ThreadTypeOK, CallOK, RelPush
<1> QED BY <1>2, <1>3, <1>4, <1>5, <1>6 DEF TypeInv, TypeOK

LEMMA TypeRelCount ==
    ASSUME TypeInv, NEW t \in Workers \cup {Acceptor}, RelCount(t)
    PROVE  TypeInv'
<1>1. t \in Threads
  BY ThreadKinds
<1>2. SessionTypeOK' /\ SendTypeOK' /\ PortTypeOK'
  BY DEF TypeInv, TypeOK, RelCount, PortTypeOK, SendTypeOK, SessionTypeOK
<1>3. TableTypeOK'
  BY <1>1 DEF TypeInv, TypeOK, RelCount, TableTypeOK
<1>4. ThreadTypeOK'
  BY <1>1, IdleKinds, ThreadKinds DEF TypeInv, TypeOK, ThreadTypeOK, RelCount
<1>5. PlaceOK'
  BY <1>1, IdleKinds, ThreadKinds
     DEF TypeInv, TypeOK, ThreadTypeOK, PlaceOK, RelCount
<1>6. CallOK'
  BY <1>1, IdleKinds, ThreadKinds
     DEF TypeInv, TypeOK, ThreadTypeOK, CallOK, RelCount
<1> QED BY <1>2, <1>3, <1>4, <1>5, <1>6 DEF TypeInv, TypeOK

(* AcceptThread *)
LEMMA TypeAcAccept ==
    ASSUME TypeInv, AcAccept
    PROVE  TypeInv'
<1>1. Acceptor \in Threads
  BY ThreadKinds
<1>2. SessionTypeOK' /\ SendTypeOK' /\ PortTypeOK'
  BY DEF TypeInv, TypeOK, AcAccept, NextSessionCnt, PortTypeOK, SendTypeOK,
         SessionTypeOK
<1>3. TableTypeOK'
  BY <1>1, BoundAssumption
     DEF TypeInv, TypeOK, AcAccept, NextSessionCnt, TableTypeOK
<1>4. ThreadTypeOK'
  BY <1>1, ThreadKinds
     DEF TypeInv, TypeOK, ThreadTypeOK, AcAccept, NextSessionCnt
<1>5. PlaceOK'
  BY <1>1, ThreadKinds
     DEF TypeInv, TypeOK, ThreadTypeOK, PlaceOK, AcAccept, NextSessionCnt
<1>6. CallOK'
  BY <1>1, ThreadKinds
     DEF TypeInv, TypeOK, ThreadTypeOK, CallOK, AcAccept, NextSessionCnt
<1> QED BY <1>2, <1>3, <1>4, <1>5, <1>6 DEF TypeInv, TypeOK

LEMMA TypeAcEnd ==
    ASSUME TypeInv, AcEnd
    PROVE  TypeInv'
<1>1. Acceptor \in Threads
  BY ThreadKinds
<1>2. SessionTypeOK' /\ SendTypeOK' /\ PortTypeOK' /\ TableTypeOK'
  BY DEF TypeInv, TypeOK, AcEnd, PortTypeOK, SendTypeOK, SessionTypeOK,
         TableTypeOK
<1>3. ThreadTypeOK'
  BY <1>1, ThreadKinds DEF TypeInv, TypeOK, ThreadTypeOK, AcEnd
<1>4. PlaceOK'
  BY <1>1, ThreadKinds DEF TypeInv, TypeOK, ThreadTypeOK, PlaceOK, AcEnd
<1>5. CallOK'
  BY <1>1, ThreadKinds DEF TypeInv, TypeOK, ThreadTypeOK, CallOK, AcEnd
<1> QED BY <1>2, <1>3, <1>4, <1>5 DEF TypeInv, TypeOK

LEMMA TypeAcPop ==
    ASSUME TypeInv, NEW s \in Slots, AcPop(s)
    PROVE  TypeInv'
<1>1. Acceptor \in Threads
  BY ThreadKinds
<1>2. SessionTypeOK' /\ SendTypeOK' /\ PortTypeOK'
  BY DEF TypeInv, TypeOK, AcPop, PortTypeOK, SendTypeOK, SessionTypeOK
<1>3. TableTypeOK'
  BY <1>1 DEF TypeInv, TypeOK, AcPop, TableTypeOK
<1>4. ThreadTypeOK'
  BY <1>1, ThreadKinds DEF TypeInv, TypeOK, ThreadTypeOK, AcPop
<1>5. PlaceOK'
  BY <1>1, ThreadKinds DEF TypeInv, TypeOK, ThreadTypeOK, PlaceOK, AcPop
<1>6. CallOK'
  BY <1>1, ThreadKinds DEF TypeInv, TypeOK, ThreadTypeOK, CallOK, AcPop
<1> QED BY <1>2, <1>3, <1>4, <1>5, <1>6 DEF TypeInv, TypeOK

LEMMA TypeAcInc ==
    ASSUME TypeInv, AcInc
    PROVE  TypeInv'
<1>1. Acceptor \in Threads /\ slot[Acceptor] \in Slots
  BY ThreadKinds DEF TypeInv, PlaceOK, AcInc
<1>2. SendTypeOK' /\ PortTypeOK' /\ TableTypeOK'
  BY DEF TypeInv, TypeOK, AcInc, AddRef, PortTypeOK, SendTypeOK, TableTypeOK
<1>3. SessionTypeOK'
  BY <1>1 DEF TypeInv, TypeOK, AcInc, AddRef, SessionTypeOK, Words, ClientSock
<1>4. ThreadTypeOK'
  BY <1>1, ThreadKinds DEF TypeInv, TypeOK, ThreadTypeOK, AcInc, AddRef
<1>5. PlaceOK'
  BY <1>1, ThreadKinds
     DEF TypeInv, TypeOK, ThreadTypeOK, PlaceOK, AcInc, AddRef
<1>6. CallOK'
  BY <1>1, ThreadKinds DEF TypeInv, TypeOK, ThreadTypeOK, CallOK, AcInc, AddRef
<1> QED BY <1>2, <1>3, <1>4, <1>5, <1>6 DEF TypeInv, TypeOK

LEMMA TypeAcId ==
    ASSUME TypeInv, AcId
    PROVE  TypeInv'
<1>1. Acceptor \in Threads /\ slot[Acceptor] \in Slots
  BY ThreadKinds DEF TypeInv, PlaceOK, AcId
<1>2. SendTypeOK' /\ PortTypeOK' /\ TableTypeOK'
  BY DEF TypeInv, TypeOK, AcId, PortTypeOK, SendTypeOK, TableTypeOK
<1>3. SessionTypeOK'
  BY <1>1
     DEF TypeInv, TypeOK, AcId, SessionTypeOK, Words, ClientSock, TableTypeOK,
         SessionIDs
<1>4. ThreadTypeOK'
  BY <1>1, ThreadKinds DEF TypeInv, TypeOK, ThreadTypeOK, AcId
<1>5. PlaceOK'
  BY <1>1, ThreadKinds DEF TypeInv, TypeOK, ThreadTypeOK, PlaceOK, AcId
<1>6. CallOK'
  BY <1>1, ThreadKinds DEF TypeInv, TypeOK, ThreadTypeOK, CallOK, AcId
<1> QED BY <1>2, <1>3, <1>4, <1>5, <1>6 DEF TypeInv, TypeOK

LEMMA TypeAcArm ==
    ASSUME TypeInv, AcArm
    PROVE  TypeInv'
<1>1. Acceptor \in Threads /\ slot[Acceptor] \in Slots
  BY ThreadKinds DEF TypeInv, PlaceOK, AcArm
<1>2. PortTypeOK' /\ TableTypeOK'
  BY DEF TypeInv, TypeOK, AcArm, PortTypeOK, TableTypeOK
<1>3. SessionTypeOK'
  BY <1>1 DEF TypeInv, TypeOK, AcArm, SessionTypeOK, Words, ClientSock
<1>4. SendTypeOK'
  BY <1>1 DEF TypeInv, TypeOK, AcArm, SendTypeOK
<1>5. ThreadTypeOK'
  BY <1>1, ThreadKinds DEF TypeInv, TypeOK, ThreadTypeOK, AcArm
<1>6. PlaceOK'
  BY <1>1, ThreadKinds DEF TypeInv, TypeOK, ThreadTypeOK, PlaceOK, AcArm
<1>7. CallOK'
  BY <1>1, ThreadKinds DEF TypeInv, TypeOK, ThreadTypeOK, CallOK, AcArm
<1> QED BY <1>2, <1>3, <1>4, <1>5, <1>6, <1>7 DEF TypeInv, TypeOK

LEMMA TypeAcJoin ==
    ASSUME TypeInv, AcJoin
    PROVE  TypeInv'
<1>1. Acceptor \in Threads /\ slot[Acceptor] \in Slots
  BY ThreadKinds DEF TypeInv, PlaceOK, AcJoin
<1>2. SessionTypeOK' /\ SendTypeOK' /\ PortTypeOK'
  BY DEF TypeInv, TypeOK, AcJoin, PortTypeOK, SendTypeOK, SessionTypeOK
<1>3. TableTypeOK'
  BY <1>1 DEF TypeInv, TypeOK, AcJoin, TableTypeOK, SessionTypeOK, SessionIDs
<1>4. ThreadTypeOK'
  BY <1>1, ThreadKinds DEF TypeInv, TypeOK, ThreadTypeOK, AcJoin
<1>5. PlaceOK'
  BY <1>1, ThreadKinds DEF TypeInv, TypeOK, ThreadTypeOK, PlaceOK, AcJoin
<1>6. CallOK'
  BY <1>1, ThreadKinds DEF TypeInv, TypeOK, ThreadTypeOK, CallOK, AcJoin
<1> QED BY <1>2, <1>3, <1>4, <1>5, <1>6 DEF TypeInv, TypeOK

LEMMA TypeAcRecv ==
    ASSUME TypeInv, AcRecv
    PROVE  TypeInv'
<1>1. Acceptor \in Threads /\ slot[Acceptor] \in Slots
  BY ThreadKinds DEF TypeInv, PlaceOK, AcRecv
<1>2. SendTypeOK' /\ TableTypeOK'
  BY DEF TypeInv, TypeOK, AcRecv, DropRef, Finish, SendTypeOK, TableTypeOK
<1>3. SessionTypeOK'
  BY <1>1
     DEF TypeInv, TypeOK, AcRecv, DropRef, Finish, SessionTypeOK, Words,
         ClientSock
<1>4. PortTypeOK'
  BY <1>1
     DEF TypeInv, TypeOK, AcRecv, DropRef, Finish, PortTypeOK, OverlappedStates
<1>5. ThreadTypeOK'
  BY <1>1, IdleKinds, ThreadKinds, ZenonT(30)
     DEF TypeInv, TypeOK, ThreadTypeOK, AcRecv, DropRef, Finish
<1>6. PlaceOK'
  BY <1>1, IdleKinds, ThreadKinds
     DEF TypeInv, TypeOK, ThreadTypeOK, PlaceOK, AcRecv, DropRef, Finish
<1>7. CallOK'
  BY <1>1, IdleKinds, ThreadKinds
     DEF TypeInv, TypeOK, ThreadTypeOK, CallOK, AcRecv, DropRef, Finish
<1> QED BY <1>2, <1>3, <1>4, <1>5, <1>6, <1>7 DEF TypeInv, TypeOK

LEMMA TypeAcPending ==
    ASSUME TypeInv, AcPending
    PROVE  TypeInv'
<1>1. Acceptor \in Threads /\ slot[Acceptor] \in Slots
  BY ThreadKinds DEF TypeInv, PlaceOK, AcPending
<1>2. SessionTypeOK' /\ SendTypeOK' /\ TableTypeOK'
  BY DEF TypeInv, TypeOK, AcPending, Finish, CancelIfInvalid, Cancelled,
         SendTypeOK, SessionTypeOK, TableTypeOK
<1>3. PortTypeOK'
  BY <1>1
     DEF TypeInv, TypeOK, AcPending, Finish, CancelIfInvalid, Cancelled,
         PortTypeOK, OverlappedStates
<1>4. ThreadTypeOK'
  BY <1>1, IdleKinds, ThreadKinds
     DEF TypeInv, TypeOK, ThreadTypeOK, AcPending, Finish, CancelIfInvalid,
         Cancelled
<1>5. PlaceOK'
  BY <1>1, IdleKinds, ThreadKinds
     DEF TypeInv, TypeOK, ThreadTypeOK, PlaceOK, AcPending, Finish,
         CancelIfInvalid, Cancelled
<1>6. CallOK'
  BY <1>1, IdleKinds, ThreadKinds
     DEF TypeInv, TypeOK, ThreadTypeOK, CallOK, AcPending, Finish,
         CancelIfInvalid, Cancelled
<1> QED BY <1>2, <1>3, <1>4, <1>5, <1>6 DEF TypeInv, TypeOK

(* TypeInv holds when the server has started ... *)
LEMMA TypeInit == Init => TypeInv
<1> SUFFICES ASSUME Init PROVE TypeInv
  OBVIOUS
<1>1. \A t \in Threads : Idle(t) \in {"Gqcs", "AcAccept", "ApiIdle"}
  BY DEF Idle
<1>2. SessionTypeOK
  BY BoundAssumption DEF Init, SessionTypeOK, SessionIDs, INVALID_SOCKET, Words
<1>3. SendTypeOK /\ PortTypeOK
  BY DEF Init, SendTypeOK, PortTypeOK, OverlappedStates
<1>4. TableTypeOK
  BY BoundAssumption DEF Init, TableTypeOK
<1>5. ThreadTypeOK
  BY <1>1 DEF Init, ThreadTypeOK, INVALID_SOCKET, Words
<1>6. PlaceOK
  BY ThreadAssumption DEF Init, PlaceOK, Idle
<1>7. CallOK
  BY <1>1 DEF Init, CallOK
<1> QED BY <1>2, <1>3, <1>4, <1>5, <1>6, <1>7 DEF TypeInv, TypeOK

(* ... and every step of every thread preserves it. *)
LEMMA TypeStep == TypeInv /\ [Next]_vars => TypeInv'
<1> SUFFICES ASSUME TypeInv, [Next]_vars PROVE TypeInv'
  OBVIOUS
<1>1. CASE Kernel
  BY <1>1, TypeRecvComplete, TypeSendComplete DEF Kernel
<1>2. ASSUME NEW w \in Workers, Take(w) PROVE TypeInv'
  BY <1>2, TypeTakeRecv, TypeTakeSend, TypeTakeSendPost, TypeTakeRelease
     DEF Take
<1>3. ASSUME NEW w \in Workers, SendStep(w) PROVE TypeInv'
  BY <1>3, TypeSendFree, TypeSendUnflag, TypeSpSize, TypeSpFlag, TypeSpUse,
     TypeSpClear, TypeSpLoad, TypeSpCall, TypeSpPending
     DEF SendStep
<1>4. ASSUME NEW w \in Workers, RecvStep(w) PROVE TypeInv'
  BY <1>4, TypeParseEnd, TypeParseBad, TypeOnRecv, TypeRpLoad, TypeRpCall,
     TypeRpPending
     DEF RecvStep
<1>5. ASSUME NEW t \in Workers \cup ApiThreads, CallStep(t) PROVE TypeInv'
  BY <1>5, TypeEnter, TypeChkFlag, TypeChkId, TypeDcExchange, TypeDcCancel,
     TypeSqEnqueue, TypeSqPost, TypeSqPostFails, TypeLeave, TypeFreePkt
     DEF CallStep
<1>6. ASSUME NEW t \in Workers \cup {Acceptor}, ReleaseStep(t) PROVE TypeInv'
  BY <1>6, TypeRelCas, TypeRelDrain, TypeRelLeave, TypeRelPush, TypeRelCount
     DEF ReleaseStep
<1>7. CASE AcceptStep
  BY <1>7, TypeAcAccept, TypeAcEnd, TypeAcPop, TypeAcInc, TypeAcId, TypeAcArm,
     TypeAcJoin, TypeAcRecv, TypeAcPending
     DEF AcceptStep
<1>8. CASE UNCHANGED vars
  BY <1>8 DEF vars, TypeInv, 
     TypeOK, SessionTypeOK, SendTypeOK, PortTypeOK, TableTypeOK, ThreadTypeOK,
     PlaceOK, CallOK
<1> QED
  BY <1>1, <1>2, <1>3, <1>4, <1>5, <1>6, <1>7, <1>8, TypeDec, TypeApiCall
     DEF Next

(* Every variable of SESSION, of the completion port, of the tables and of  *)
(* the threads keeps its type; in particular _sessionCnt wraps before it    *)
(* leaves its 48 bits, and no thread indexes _sessionArr without a session. *)
THEOREM TypeCorrect == Spec => []TypeOK
<1>1. TypeInv => TypeOK
  BY DEF TypeInv
<1> QED BY TypeInit, TypeStep, <1>1, PTL DEF Spec

-----------------------------------------------------------------------------
(***************************************************************************)
(* SessionInv is an inductive invariant of CNetServer, and from it follow: *)
(* ioCount is exact, nothing uses a session after its release, a slot is   *)
(* released once, and its send side and receive side have one owner.       *)
(*                                                                         *)
(* The count. Refs counts the threads that hold references; a step of      *)
(* thread t changes it by Share(t, s), so CountStep reduces RefCountExact  *)
(* to the effect of one step on one thread. Nothing is proved by induction *)
(* over the set of threads.                                                *)
(*                                                                         *)
(* The slots. PlainStep and OwnershipStep preserve the invariants that say *)
(* who may use a slot when the step changes no owner; StayStep (a thread   *)
(* goes on with its session) and ArriveStep (a thread takes one up) join   *)
(* them with CountStep. The steps that do change the owner, RelCas to      *)
(* RelPush and AcPop to AcArm, are proved one by one. The crucial one is   *)
(* RelCas: an exact count of 0 leaves nobody inside the session            *)
(* (NobodyInside).                                                         *)
(***************************************************************************)

(* 1 for TRUE, 0 for FALSE *)
One(b) == IF b THEN 1 ELSE 0

(* the number of references that thread t holds on its slot *)
Weight(t) == One(t \in Workers \cup {Acceptor} /\ pc[t] \in BasePcs \cup AcceptRefPcs)
             + One(pc[t] \in CallPcs) + One(pc[t] \in IoPcs)

(* and on slot s *)
Share(t, s) == IF slot[t] = s THEN Weight(t) ELSE 0

(* the references on slot s that threads hold *)
Refs(s) == Cardinality(BaseRefs(s)) + Cardinality(CallRefs(s)) + Cardinality(IoRefs(s))

(* only thread t moves *)
OnlyThread(t) == \A u \in Threads \ {t} : pc'[u] = pc[u] /\ slot'[u] = slot[u]

(* a step whose references and posted entries are all on slot s *)
OnlySlot(s) == \A u \in Slots \ {s} :
    InFlight(u)' = InFlight(u) /\ ioCount'[u] = ioCount[u] /\ relJobs'[u] = relJobs[u]

USE DEF OnlySlot

(* the sets that are counted are finite *)
LEMMA ThreadsFinite ==
    /\ IsFiniteSet(Threads)
    /\ IsFiniteSet(Workers \cup {Acceptor})
    /\ Workers \cup {Acceptor} \subseteq Threads
<1>1. IsFiniteSet(Workers \cup {Acceptor})
  BY ThreadAssumption, FS_AddElement
<1>2. IsFiniteSet(Workers \cup ApiThreads)
  BY ThreadAssumption, FS_Union
<1>3. IsFiniteSet((Workers \cup ApiThreads) \cup {Acceptor})
  BY <1>2, FS_AddElement
<1> QED BY <1>1, <1>3 DEF Threads

LEMMA RefsFinite ==
    ASSUME NEW s
    PROVE  IsFiniteSet(BaseRefs(s)) /\ IsFiniteSet(CallRefs(s)) /\ IsFiniteSet(IoRefs(s))
<1>1. BaseRefs(s) \in SUBSET (Workers \cup {Acceptor})
  BY DEF BaseRefs
<1>2. CallRefs(s) \in SUBSET Threads /\ IoRefs(s) \in SUBSET Threads
  BY DEF CallRefs, IoRefs
<1> QED BY <1>1, <1>2, ThreadsFinite, FS_Subset

(* sets that differ in one element differ in size by its membership *)
LEMMA OneElement ==
    ASSUME NEW S, NEW T, NEW t, IsFiniteSet(S), IsFiniteSet(T), S \ {t} = T \ {t}
    PROVE  /\ Cardinality(S) \in Nat /\ Cardinality(T) \in Nat
           /\ Cardinality(T) = Cardinality(S) - One(t \in S) + One(t \in T)
<1>1. Cardinality(S) \in Nat /\ Cardinality(T) \in Nat
  BY FS_CardinalityType
<1>2. Cardinality(S \ {t}) = IF t \in S THEN Cardinality(S) - 1 ELSE Cardinality(S)
  BY FS_RemoveElement
<1>3. Cardinality(T \ {t}) = IF t \in T THEN Cardinality(T) - 1 ELSE Cardinality(T)
  BY FS_RemoveElement
<1>4. Cardinality(S \ {t}) = Cardinality(T \ {t})
  OBVIOUS
<1> QED BY <1>1, <1>2, <1>3, <1>4 DEF One

(* what a step of one thread changes about the number of references *)
LEMMA RefStep ==
    ASSUME NEW t \in Threads, NEW s, OnlyThread(t)
    PROVE  /\ Refs(s) \in Nat
           /\ Refs(s)' = Refs(s) - Share(t, s) + Share(t, s)'
<1>1. BaseRefs(s) \ {t} = BaseRefs(s)' \ {t}
  BY ThreadsFinite DEF BaseRefs, OnlyThread
<1>2. CallRefs(s) \ {t} = CallRefs(s)' \ {t} /\ IoRefs(s) \ {t} = IoRefs(s)' \ {t}
  BY DEF CallRefs, IoRefs, OnlyThread
<1>3. IsFiniteSet(BaseRefs(s)') /\ IsFiniteSet(CallRefs(s)') /\ IsFiniteSet(IoRefs(s)')
  <2>1. BaseRefs(s)' \in SUBSET (Workers \cup {Acceptor})
    BY DEF BaseRefs
  <2>2. CallRefs(s)' \in SUBSET Threads /\ IoRefs(s)' \in SUBSET Threads
    BY DEF CallRefs, IoRefs
  <2> QED BY <2>1, <2>2, ThreadsFinite, FS_Subset
<1>4. /\ Cardinality(BaseRefs(s)) \in Nat /\ Cardinality(BaseRefs(s)') \in Nat
      /\ Cardinality(BaseRefs(s)') =
           Cardinality(BaseRefs(s)) - One(t \in BaseRefs(s)) + One(t \in BaseRefs(s)')
  BY <1>1, <1>3, RefsFinite, OneElement
<1>5. /\ Cardinality(CallRefs(s)) \in Nat /\ Cardinality(CallRefs(s)') \in Nat
      /\ Cardinality(CallRefs(s)') =
           Cardinality(CallRefs(s)) - One(t \in CallRefs(s)) + One(t \in CallRefs(s)')
  BY <1>2, <1>3, RefsFinite, OneElement
<1>6. /\ Cardinality(IoRefs(s)) \in Nat /\ Cardinality(IoRefs(s)') \in Nat
      /\ Cardinality(IoRefs(s)') =
           Cardinality(IoRefs(s)) - One(t \in IoRefs(s)) + One(t \in IoRefs(s)')
  BY <1>2, <1>3, RefsFinite, OneElement
<1>7. Share(t, s) = One(t \in BaseRefs(s)) + One(t \in CallRefs(s)) + One(t \in IoRefs(s))
  BY DEF Share, Weight, BaseRefs, CallRefs, IoRefs, One
<1>8. Share(t, s)' = One(t \in BaseRefs(s)')
                     + One(t \in CallRefs(s)') + One(t \in IoRefs(s)')
  BY DEF Share, Weight, BaseRefs, CallRefs, IoRefs, One
<1>9. Refs(s)' = Cardinality(BaseRefs(s)')
                 + Cardinality(CallRefs(s)') + Cardinality(IoRefs(s)')
  BY DEF Refs
<1>10. \A b : One(b) \in Int
  BY DEF One
<1> QED BY <1>4, <1>5, <1>6, <1>7, <1>8, <1>9, <1>10 DEF Refs

(* the entries of the port that hold a reference are a number *)
LEMMA InFlightType ==
    ASSUME PortTypeOK, NEW s \in Slots
    PROVE  InFlight(s) \in Nat
BY DEF PortTypeOK, InFlight, Busy

(* RefCountExact is preserved if ioCount changes by as much as the          *)
(* references of the stepping thread and the posted entries do.             *)
LEMMA CountStep ==
    ASSUME TypeInv, TypeInv', RefCountExact, NEW t \in Threads, OnlyThread(t),
           \A s \in Slots :
              ioCount'[s] = ioCount[s] - Share(t, s) + Share(t, s)'
                            - InFlight(s) + InFlight(s)'
    PROVE  RefCountExact'
<1> SUFFICES ASSUME NEW s \in Slots
             PROVE  ioCount'[s] = Refs(s)' + InFlight(s)'
  BY DEF RefCountExact, Refs
<1>1. ioCount[s] = Refs(s) + InFlight(s)
  BY DEF RefCountExact, Refs
<1>2. Refs(s) \in Nat /\ Refs(s)' = Refs(s) - Share(t, s) + Share(t, s)'
  BY RefStep
<1>3. InFlight(s) \in Nat /\ InFlight(s)' \in Nat
  <2>1. PortTypeOK /\ PortTypeOK'
    BY DEF TypeInv, TypeOK
  <2> QED BY <2>1 DEF PortTypeOK, InFlight, Busy
<1>4. Share(t, s) \in Nat /\ Share(t, s)' \in Nat
  BY DEF Share, Weight, One
<1> QED BY <1>1, <1>2, <1>3, <1>4

(* steps in which a slot changes hands *)
OwnerPcs == ReleasePcs \cup {"AcInc", "AcId", "AcArm"}

(* A step that neither starts nor ends a release or a preparation preserves *)
(* the invariants on who may use a slot, if what it lets a thread, a job or *)
(* the contents name is reached, and what it lets them rely on is held.     *)
LEMMA OwnershipStep ==
    ASSUME TypeInv, TypeInv', ReachOK, HoldOK, OwnerOK,
           NEW t \in Threads, OnlyThread(t),
           UNCHANGED <<sessionID, releaseFlag, relSocket, freeStack>>,
           \A i \in characterMap' : Reached(i.idx),
           \/ pc'[t] = pc[t] /\ slot'[t] = slot[t]
           \/ /\ pc[t] \notin OwnerPcs /\ pc'[t] \notin OwnerPcs
              /\ slot'[t] \in Slots => /\ Reached(slot'[t])
                                       /\ Guarded(t)' => Held(slot'[t]),
           \A s \in Slots : /\ relJobs'[s] > 0 => Reached(s)
                            /\ InFlight(s)' > 0 => Held(s)
    PROVE  ReachOK' /\ HoldOK' /\ OwnerOK'
<1>1. \A s \in Slots : Preparing(s)' <=> Preparing(s)
  BY ThreadKinds DEF Preparing, OnlyThread, OwnerPcs
<1>2. \A s \in Slots : (Reached(s)' <=> Reached(s)) /\ (Held(s)' <=> Held(s))
  BY <1>1 DEF Reached, Held
<1>3. ReachOK'
  <2>1. \A i \in characterMap' : i.idx \in Slots
    BY DEF TypeInv, TypeOK, TableTypeOK, SessionIDs
  <2> QED BY <1>1, <1>2, <2>1 DEF ReachOK, OnlyThread
<1>4. HoldOK'
  <2>1. \A u \in Threads \ {t} : Guarded(u)' <=> Guarded(u)
    BY DEF Guarded, OnlyThread
  <2>2. pc'[t] = pc[t] => (Guarded(t)' <=> Guarded(t))
    BY DEF Guarded
  <2> QED BY <1>2, <2>1, <2>2 DEF HoldOK, OnlyThread
<1>5. OwnerOK'
  <2>1. \A s \in Slots : Releasing(s)' = Releasing(s)
    BY DEF Releasing, OnlyThread, OwnerPcs
  <2>2. \A s \in Slots : Preparing(s) => pc'[Acceptor] = pc[Acceptor]
    BY ThreadKinds DEF Preparing, OnlyThread, OwnerPcs
  <2>3. \A s \in Slots : Live(s)' <=> Live(s)
    BY DEF Live
  <2> QED BY <1>1, <2>1, <2>2, <2>3 DEF OwnerOK
<1> QED BY <1>3, <1>4, <1>5

(* the same for a step that leaves the tables alone *)
LEMMA PlainStep ==
    ASSUME TypeInv, TypeInv', IdentityOK, ReachOK, HoldOK, OwnerOK,
           NEW t \in Threads, OnlyThread(t),
           UNCHANGED <<sessionID, releaseFlag, relSocket, tableVars>>,
           \A s \in Slots : socket'[s].hi = socket[s].hi,
           \/ pc'[t] = pc[t] /\ slot'[t] = slot[t]
           \/ /\ pc[t] \notin OwnerPcs /\ pc'[t] \notin OwnerPcs \cup {"AcPop"}
              /\ slot'[t] \in Slots => /\ Reached(slot'[t])
                                       /\ Guarded(t)' => Held(slot'[t]),
           \A s \in Slots : /\ relJobs'[s] > 0 => Reached(s)
                            /\ InFlight(s)' > 0 => Held(s)
    PROVE  IdentityOK' /\ ReachOK' /\ HoldOK' /\ OwnerOK'
<1>1. IdentityOK'
  BY ThreadKinds DEF IdentityOK, OnlyThread, OwnerPcs
<1>2. \A i \in characterMap' : Reached(i.idx)
  BY DEF ReachOK
<1>3. UNCHANGED freeStack
  OBVIOUS
<1> QED BY <1>1, <1>2, <1>3, OwnershipStep

(* nobody new becomes the sender of a slot *)
LEMMA SameSender ==
    ASSUME SenderOK, UNCHANGED sendFlag,
           \A s \in Slots : /\ Senders(s)' \subseteq Senders(s)
                            /\ sendOv'[s] = "idle" <=> sendOv[s] = "idle"
    PROVE  SenderOK'
BY DEF SenderOK

(* nobody new becomes the receiver of a slot *)
LEMMA SameReceiver ==
    ASSUME ReceiverOK,
           \A s \in Slots : /\ Receivers(s)' \subseteq Receivers(s)
                            /\ recvOv'[s] = "idle" <=> recvOv[s] = "idle"
    PROVE  ReceiverOK'
BY DEF ReceiverOK

(* the part of SessionInv that is about slots *)
SlotInv == RefCountExact /\ IdentityOK /\ ReachOK /\ HoldOK /\ OwnerOK

(* SessionInv by the parts the lemmas below treat separately *)
LEMMA InvParts == SessionInv <=> TypeInv /\ SlotInv /\ SenderOK /\ ReceiverOK
BY DEF SessionInv, TypeInv, SlotInv

LEMMA InvPartsPrime ==
    ASSUME TypeInv', SlotInv', SenderOK', ReceiverOK'
    PROVE  SessionInv'
BY DEF SessionInv, TypeInv, SlotInv

(* a held slot may be named *)
LEMMA HeldIsReached ==
    ASSUME NEW s, Held(s)
    PROVE  Reached(s)
BY DEF Held, Reached

(* a worker before its decrement works on a held slot *)
LEMMA WorkerHolds ==
    ASSUME HoldOK, NEW w \in Workers, slot[w] \in Slots, pc[w] \in BasePcs
    PROVE  Held(slot[w]) /\ Reached(slot[w])
BY ThreadKinds, HeldIsReached DEF HoldOK, Guarded

(* thread t takes a step on its slot s, or finishes with it *)
LEMMA StayStep ==
    ASSUME TypeInv, TypeInv', SlotInv, NEW t \in Threads, OnlyThread(t),
           NEW s \in Slots, slot[t] = s, Reached(s),
           slot'[t] = s \/ slot'[t] = NoSlot,
           pc[t] \notin OwnerPcs, pc'[t] \notin OwnerPcs \cup {"AcPop"},
           slot'[t] = s /\ Guarded(t)' => Held(s),
           InFlight(s)' > 0 => Held(s),
           UNCHANGED <<sessionID, releaseFlag, relSocket, tableVars>>,
           \A u \in Slots : socket'[u].hi = socket[u].hi,
           OnlySlot(s),
           ioCount'[s] = ioCount[s] - Weight(t) + (IF slot'[t] = s THEN Weight(t)' ELSE 0)
                         - InFlight(s) + InFlight(s)'
    PROVE  SlotInv'
<1>1. RefCountExact'
  <2>1. ASSUME NEW u \in Slots
        PROVE  ioCount'[u] = ioCount[u] - Share(t, u) + Share(t, u)'
                           - InFlight(u) + InFlight(u)'
    <3>1. CASE u = s
      BY <3>1 DEF Share
    <3>2. CASE u # s
      <4>1. ioCount[u] \in Int /\ InFlight(u) \in Nat
        BY InFlightType DEF TypeInv, TypeOK, SessionTypeOK
      <4>2. Share(t, u) = 0 /\ Share(t, u)' = 0
        BY <3>2, SlotAssumption DEF Share
      <4> QED BY <3>2, <4>1, <4>2
    <3> QED BY <3>1, <3>2
  <2> QED BY <2>1, CountStep DEF SlotInv
<1>2. \A u \in Slots : /\ relJobs'[u] > 0 => Reached(u)
                       /\ InFlight(u)' > 0 => Held(u)
  <2>1. \A u \in Slots \ {s} : relJobs'[u] > 0 => Reached(u)
    BY DEF SlotInv, ReachOK
  <2>2. \A u \in Slots \ {s} : InFlight(u)' > 0 => Held(u)
    BY DEF SlotInv, HoldOK
  <2> QED BY <2>1, <2>2
<1>3. IdentityOK' /\ ReachOK' /\ HoldOK' /\ OwnerOK'
  BY <1>2, PlainStep, SlotAssumption DEF SlotInv
<1> QED BY <1>1, <1>3 DEF SlotInv

(* thread t takes up slot s, with a reference that a posted entry held *)
LEMMA ArriveStep ==
    ASSUME TypeInv, TypeInv', SlotInv, NEW t \in Threads, OnlyThread(t),
           NEW s \in Slots, slot'[t] = s, Reached(s), Weight(t) = 0,
           pc[t] \notin OwnerPcs, pc'[t] \notin OwnerPcs \cup {"AcPop"},
           Guarded(t)' => Held(s),
           UNCHANGED <<sessionID, socket, releaseFlag, relSocket, ioCount, tableVars>>,
           \A u \in Slots : relJobs'[u] > 0 => relJobs[u] > 0,
           \A u \in Slots \ {s} : InFlight(u)' = InFlight(u),
           InFlight(s) = InFlight(s)' + Weight(t)'
    PROVE  SlotInv'
<1>1. \A u \in Slots : InFlight(u) \in Nat /\ InFlight(u)' \in Nat /\ Weight(t)' \in Nat
  BY DEF TypeInv, TypeOK, PortTypeOK, InFlight, Busy, Weight, One
<1>2. RefCountExact'
  <2>1. ASSUME NEW u \in Slots
        PROVE  ioCount'[u] = ioCount[u] - Share(t, u) + Share(t, u)'
                           - InFlight(u) + InFlight(u)'
    <3>1. ioCount[u] \in Int
      BY DEF TypeInv, TypeOK, SessionTypeOK
    <3> QED BY <1>1, <3>1 DEF Share
  <2> QED BY <2>1, CountStep DEF SlotInv
<1>3. \A u \in Slots : /\ relJobs'[u] > 0 => Reached(u)
                       /\ InFlight(u)' > 0 => Held(u)
  BY <1>1 DEF SlotInv, ReachOK, HoldOK
<1>4. IdentityOK' /\ ReachOK' /\ HoldOK' /\ OwnerOK'
  BY <1>3, PlainStep DEF SlotInv
<1> QED BY <1>2, <1>4 DEF SlotInv

(* the sender hands the send side over *)
LEMMA SenderLeaves ==
    ASSUME SenderOK, NEW w, NEW s \in Slots, w \in Senders(s),
           w \notin Senders(s)',
           \A u \in Slots : Senders(u)' \subseteq Senders(u),
           \A u \in Slots \ {s} : sendFlag'[u] = sendFlag[u],
           \A u \in Slots \ {s} : sendOv'[u] = "idle" <=> sendOv[u] = "idle",
           sendOv'[s] # "idle" => sendFlag'[s] = 1
    PROVE  SenderOK'
<1>1. Senders(s)' = {}
  BY DEF SenderOK
<1> QED BY <1>1 DEF SenderOK

(* a worker that read sendFlag as 0 becomes the sender *)
LEMMA SenderEnters ==
    ASSUME SenderOK, NEW w, NEW s \in Slots, Senders(s) = {},
           Senders(s)' \subseteq {w},
           \A u \in Slots \ {s} : Senders(u)' \subseteq Senders(u),
           \A u \in Slots \ {s} : sendFlag'[u] = sendFlag[u],
           \A u \in Slots \ {s} : sendOv'[u] = "idle" <=> sendOv[u] = "idle",
           sendOv'[s] = "idle", sendFlag'[s] = 1
    PROVE  SenderOK'
BY DEF SenderOK

(* CancelIoEx changes the result of operations, not which are in flight *)
LEMMA CancelKeepsBusy ==
    ASSUME PortTypeOK, NEW s \in Slots,
           \/ CancelIfInvalid(s)
           \/ recvOv' = Cancelled(recvOv, s) /\ sendOv' = Cancelled(sendOv, s)
    PROVE  \A u \in Slots : /\ recvOv'[u] = "idle" <=> recvOv[u] = "idle"
                            /\ sendOv'[u] = "idle" <=> sendOv[u] = "idle"
                            /\ Busy(recvOv'[u]) = Busy(recvOv[u])
                            /\ Busy(sendOv'[u]) = Busy(sendOv[u])
BY DEF PortTypeOK, CancelIfInvalid, Cancelled, Busy

(* The send logic of a worker *)
LEMMA SessionSendFree ==
    ASSUME SessionInv, TypeInv', NEW w \in Workers, SendFree(w)
    PROVE  SessionInv'
<1>1. TypeInv /\ SlotInv /\ SenderOK /\ ReceiverOK /\ w \in Threads /\ slot[w] \in Slots
  BY InvParts, ThreadKinds DEF TypeInv, PlaceOK, SendFree
<1>s. PICK s \in Slots : slot[w] = s
  BY <1>1
<1>2. /\ OnlyThread(w) /\ slot'[w] = slot[w]
      /\ pc[w] = "SendFree" /\ pc'[w] \in {"SendUnflag"}
  BY <1>1 DEF OnlyThread, SendFree, TypeInv, TypeOK, ThreadTypeOK
<1>3. Weight(w) = 1 /\ Weight(w)' = 1
  BY <1>2 DEF Weight, One
<1>4. SlotInv'
  <2>1. Held(slot[w]) /\ Reached(slot[w])
    BY <1>1, <1>2, WorkerHolds DEF SlotInv
  <2>2. pc[w] \notin OwnerPcs /\ pc'[w] \notin OwnerPcs \cup {"AcPop"}
    BY <1>2 DEF OwnerPcs
  <2>3. /\ UNCHANGED <<sessionID, socket, releaseFlag, relSocket, tableVars>>
        /\ OnlySlot(s)
        /\ ioCount'[s] = ioCount[s] - 1 + 1 - InFlight(s) + InFlight(s)'
    BY <1>s, <1>1, <1>3
       DEF SendFree, FreeAll, SentCountReset, InFlight, Busy, TypeInv, TypeOK,
           SessionTypeOK, PortTypeOK
  <2> QED BY <1>s, <1>1, <1>2, <1>3, <2>1, <2>2, <2>3, StayStep
<1>5. SenderOK'
  <2>1. \A u \in Slots : Senders(u)' \subseteq Senders(u)
    BY <1>1, <1>2, ThreadKinds DEF Senders, OnlyThread
  <2> QED
    BY <1>1, <2>1, SameSender
       DEF SendFree, FreeAll, SentCountReset, TypeInv, TypeOK, PortTypeOK
<1>6. ReceiverOK'
  <2>1. \A u \in Slots : Receivers(u)' \subseteq Receivers(u)
    BY <1>1, <1>2, ThreadKinds DEF Receivers, OnlyThread
  <2> QED
    BY <1>1, <2>1, SameReceiver
       DEF SendFree, FreeAll, SentCountReset, TypeInv, TypeOK, PortTypeOK
<1> QED BY <1>4, <1>5, <1>6, InvPartsPrime

LEMMA SessionSendUnflag ==
    ASSUME SessionInv, TypeInv', NEW w \in Workers, SendUnflag(w)
    PROVE  SessionInv'
<1>1. TypeInv /\ SlotInv /\ SenderOK /\ ReceiverOK /\ w \in Threads /\ slot[w] \in Slots
  BY InvParts, ThreadKinds DEF TypeInv, PlaceOK, SendUnflag
<1>s. PICK s \in Slots : slot[w] = s
  BY <1>1
<1>2. /\ OnlyThread(w) /\ slot'[w] = slot[w]
      /\ pc[w] = "SendUnflag" /\ pc'[w] \in {"SpSize"}
  BY <1>1 DEF OnlyThread, SendUnflag, TypeInv, TypeOK, ThreadTypeOK
<1>3. Weight(w) = 1 /\ Weight(w)' = 1
  BY <1>2 DEF Weight, One
<1>4. SlotInv'
  <2>1. Held(slot[w]) /\ Reached(slot[w])
    BY <1>1, <1>2, WorkerHolds DEF SlotInv
  <2>2. pc[w] \notin OwnerPcs /\ pc'[w] \notin OwnerPcs \cup {"AcPop"}
    BY <1>2 DEF OwnerPcs
  <2>3. /\ UNCHANGED <<sessionID, socket, releaseFlag, relSocket, tableVars>>
        /\ OnlySlot(s)
        /\ ioCount'[s] = ioCount[s] - 1 + 1 - InFlight(s) + InFlight(s)'
    BY <1>s, <1>1, <1>3
       DEF SendUnflag, InFlight, Busy, TypeInv, TypeOK, SessionTypeOK,
           PortTypeOK
  <2> QED BY <1>s, <1>1, <1>2, <1>3, <2>1, <2>2, <2>3, StayStep
<1>5. SenderOK'
  <2>1. \A u \in Slots : Senders(u)' \subseteq Senders(u)
    BY <1>1, <1>2, ThreadKinds DEF Senders, OnlyThread
  <2>2. w \in Senders(s) /\ w \notin Senders(s)'
    BY <1>s, <1>1, <1>2 DEF Senders
  <2>3. sendFlag[s] = 1 /\ sendOv[s] = "idle"
    BY <1>1, <2>2 DEF SenderOK
  <2>4. /\ \A u \in Slots \ {s} : sendFlag'[u] = sendFlag[u]
        /\ \A u \in Slots \ {s} : sendOv'[u] = "idle" <=> sendOv[u] = "idle"
        /\ sendOv'[s] # "idle" => sendFlag'[s] = 1
    BY <1>s, <1>1, <2>3 DEF SendUnflag, TypeInv, TypeOK, PortTypeOK, SendTypeOK
  <2> QED BY <1>1, <2>1, <2>2, <2>4, SenderLeaves
<1>6. ReceiverOK'
  <2>1. \A u \in Slots : Receivers(u)' \subseteq Receivers(u)
    BY <1>1, <1>2, ThreadKinds DEF Receivers, OnlyThread
  <2> QED
    BY <1>1, <2>1, SameReceiver
       DEF SendUnflag, TypeInv, TypeOK, PortTypeOK
<1> QED BY <1>4, <1>5, <1>6, InvPartsPrime

LEMMA SessionSpSize ==
    ASSUME SessionInv, TypeInv', NEW w \in Workers, SpSize(w)
    PROVE  SessionInv'
<1>1. TypeInv /\ SlotInv /\ SenderOK /\ ReceiverOK /\ w \in Threads /\ slot[w] \in Slots
  BY InvParts, ThreadKinds DEF TypeInv, PlaceOK, SpSize
<1>s. PICK s \in Slots : slot[w] = s
  BY <1>1
<1>2. /\ OnlyThread(w) /\ slot'[w] = slot[w]
      /\ pc[w] = "SpSize" /\ pc'[w] \in {"Dec", "SpFlag"}
  BY <1>1 DEF OnlyThread, SpSize, TypeInv, TypeOK, ThreadTypeOK
<1>3. Weight(w) = 1 /\ Weight(w)' = 1
  BY <1>2 DEF Weight, One
<1>4. SlotInv'
  <2>1. Held(slot[w]) /\ Reached(slot[w])
    BY <1>1, <1>2, WorkerHolds DEF SlotInv
  <2>2. pc[w] \notin OwnerPcs /\ pc'[w] \notin OwnerPcs \cup {"AcPop"}
    BY <1>2 DEF OwnerPcs
  <2>3. /\ UNCHANGED <<sessionID, socket, releaseFlag, relSocket, tableVars>>
        /\ OnlySlot(s)
        /\ ioCount'[s] = ioCount[s] - 1 + 1 - InFlight(s) + InFlight(s)'
    BY <1>s, <1>1, <1>3
       DEF SpSize, InFlight, Busy, TypeInv, TypeOK, SessionTypeOK, PortTypeOK
  <2> QED BY <1>s, <1>1, <1>2, <1>3, <2>1, <2>2, <2>3, StayStep
<1>5. SenderOK'
  <2>1. \A u \in Slots : Senders(u)' \subseteq Senders(u)
    BY <1>1, <1>2, ThreadKinds DEF Senders, OnlyThread
  <2> QED BY <1>1, <2>1, SameSender DEF SpSize, TypeInv, TypeOK, PortTypeOK
<1>6. ReceiverOK'
  <2>1. \A u \in Slots : Receivers(u)' \subseteq Receivers(u)
    BY <1>1, <1>2, ThreadKinds DEF Receivers, OnlyThread
  <2> QED BY <1>1, <2>1, SameReceiver DEF SpSize, TypeInv, TypeOK, PortTypeOK
<1> QED BY <1>4, <1>5, <1>6, InvPartsPrime

LEMMA SessionSpFlag ==
    ASSUME SessionInv, TypeInv', NEW w \in Workers, SpFlag(w)
    PROVE  SessionInv'
<1>1. TypeInv /\ SlotInv /\ SenderOK /\ ReceiverOK /\ w \in Threads /\ slot[w] \in Slots
  BY InvParts, ThreadKinds DEF TypeInv, PlaceOK, SpFlag
<1>s. PICK s \in Slots : slot[w] = s
  BY <1>1
<1>2. /\ OnlyThread(w) /\ slot'[w] = slot[w]
      /\ pc[w] = "SpFlag" /\ pc'[w] \in {"Dec", "SpUse"}
  BY <1>1 DEF OnlyThread, SpFlag, TypeInv, TypeOK, ThreadTypeOK
<1>3. Weight(w) = 1 /\ Weight(w)' = 1
  BY <1>2 DEF Weight, One
<1>4. SlotInv'
  <2>1. Held(slot[w]) /\ Reached(slot[w])
    BY <1>1, <1>2, WorkerHolds DEF SlotInv
  <2>2. pc[w] \notin OwnerPcs /\ pc'[w] \notin OwnerPcs \cup {"AcPop"}
    BY <1>2 DEF OwnerPcs
  <2>3. /\ UNCHANGED <<sessionID, socket, releaseFlag, relSocket, tableVars>>
        /\ OnlySlot(s)
        /\ ioCount'[s] = ioCount[s] - 1 + 1 - InFlight(s) + InFlight(s)'
    BY <1>s, <1>1, <1>3
       DEF SpFlag, AlreadySending, InFlight, Busy, TypeInv, TypeOK,
           SessionTypeOK, PortTypeOK
  <2> QED BY <1>s, <1>1, <1>2, <1>3, <2>1, <2>2, <2>3, StayStep
<1>5. SenderOK'
  <2>1. CASE AlreadySending(s)
    <3>1. \A u \in Slots : Senders(u)' \subseteq Senders(u)
      BY <1>s, <1>1, <1>2, <2>1, ThreadKinds
         DEF Senders, OnlyThread, SpFlag, TypeInv, TypeOK, ThreadTypeOK
    <3>2. sendFlag' = sendFlag
      BY <1>s, <1>1, <2>1
         DEF SpFlag, AlreadySending, TypeInv, TypeOK, SendTypeOK
    <3> QED BY <1>1, <3>1, <3>2, SameSender DEF SpFlag
  <2>2. CASE ~AlreadySending(s)
    <3>1. Senders(s) = {} /\ sendOv[s] = "idle"
      BY <1>1, <2>2 DEF SenderOK, AlreadySending
    <3>2. \A u \in Slots : Senders(u)' \ {w} = Senders(u) \ {w}
      BY <1>1, <1>2, ThreadKinds DEF Senders, OnlyThread
    <3>3. \A u \in Slots \ {s} : w \notin Senders(u)'
      BY <1>s, <1>2 DEF Senders
    <3>4. /\ sendFlag'[s] = 1 /\ sendOv' = sendOv
          /\ \A u \in Slots \ {s} : sendFlag'[u] = sendFlag[u]
      BY <1>s, <1>1 DEF SpFlag, TypeInv, TypeOK, SendTypeOK
    <3>5. /\ Senders(s)' \subseteq {w}
          /\ \A u \in Slots \ {s} : Senders(u)' \subseteq Senders(u)
      BY <3>1, <3>2, <3>3
    <3> QED BY <1>1, <3>1, <3>4, <3>5, SenderEnters
  <2> QED BY <2>1, <2>2
<1>6. ReceiverOK'
  <2>1. \A u \in Slots : Receivers(u)' \subseteq Receivers(u)
    BY <1>1, <1>2, ThreadKinds DEF Receivers, OnlyThread
  <2> QED
    BY <1>1, <2>1, SameReceiver
       DEF SpFlag, AlreadySending, TypeInv, TypeOK, PortTypeOK
<1> QED BY <1>4, <1>5, <1>6, InvPartsPrime

LEMMA SessionSpUse ==
    ASSUME SessionInv, TypeInv', NEW w \in Workers, SpUse(w)
    PROVE  SessionInv'
<1>1. TypeInv /\ SlotInv /\ SenderOK /\ ReceiverOK /\ w \in Threads /\ slot[w] \in Slots
  BY InvParts, ThreadKinds DEF TypeInv, PlaceOK, SpUse
<1>s. PICK s \in Slots : slot[w] = s
  BY <1>1
<1>2. /\ OnlyThread(w) /\ slot'[w] = slot[w]
      /\ pc[w] = "SpUse" /\ pc'[w] \in {"SpClear", "SpLoad"}
  BY <1>1 DEF OnlyThread, SpUse, TypeInv, TypeOK, ThreadTypeOK
<1>3. Weight(w) = 1 /\ Weight(w)' = 1
  BY <1>2 DEF Weight, One
<1>4. SlotInv'
  <2>1. Held(slot[w]) /\ Reached(slot[w])
    BY <1>1, <1>2, WorkerHolds DEF SlotInv
  <2>2. pc[w] \notin OwnerPcs /\ pc'[w] \notin OwnerPcs \cup {"AcPop"}
    BY <1>2 DEF OwnerPcs
  <2>3. /\ UNCHANGED <<sessionID, socket, releaseFlag, relSocket, tableVars>>
        /\ OnlySlot(s)
        /\ ioCount'[s] = ioCount[s] - 1 + 1 - InFlight(s) + InFlight(s)'
    BY <1>s, <1>1, <1>3
       DEF SpUse, InFlight, Busy, TypeInv, TypeOK, SessionTypeOK, PortTypeOK
  <2> QED BY <1>s, <1>1, <1>2, <1>3, <2>1, <2>2, <2>3, StayStep
<1>5. SenderOK'
  <2>1. \A u \in Slots : Senders(u)' \subseteq Senders(u)
    BY <1>1, <1>2, ThreadKinds DEF Senders, OnlyThread
  <2> QED BY <1>1, <2>1, SameSender DEF SpUse, TypeInv, TypeOK, PortTypeOK
<1>6. ReceiverOK'
  <2>1. \A u \in Slots : Receivers(u)' \subseteq Receivers(u)
    BY <1>1, <1>2, ThreadKinds DEF Receivers, OnlyThread
  <2> QED BY <1>1, <2>1, SameReceiver DEF SpUse, TypeInv, TypeOK, PortTypeOK
<1> QED BY <1>4, <1>5, <1>6, InvPartsPrime

LEMMA SessionSpClear ==
    ASSUME SessionInv, TypeInv', NEW w \in Workers, SpClear(w)
    PROVE  SessionInv'
<1>1. TypeInv /\ SlotInv /\ SenderOK /\ ReceiverOK /\ w \in Threads /\ slot[w] \in Slots
  BY InvParts, ThreadKinds DEF TypeInv, PlaceOK, SpClear
<1>s. PICK s \in Slots : slot[w] = s
  BY <1>1
<1>2. /\ OnlyThread(w) /\ slot'[w] = slot[w]
      /\ pc[w] = "SpClear" /\ pc'[w] \in {"Dec", "SpSize"}
  BY <1>1 DEF OnlyThread, SpClear, TypeInv, TypeOK, ThreadTypeOK
<1>3. Weight(w) = 1 /\ Weight(w)' = 1
  BY <1>2 DEF Weight, One
<1>4. SlotInv'
  <2>1. Held(slot[w]) /\ Reached(slot[w])
    BY <1>1, <1>2, WorkerHolds DEF SlotInv
  <2>2. pc[w] \notin OwnerPcs /\ pc'[w] \notin OwnerPcs \cup {"AcPop"}
    BY <1>2 DEF OwnerPcs
  <2>3. /\ UNCHANGED <<sessionID, socket, releaseFlag, relSocket, tableVars>>
        /\ OnlySlot(s)
        /\ ioCount'[s] = ioCount[s] - 1 + 1 - InFlight(s) + InFlight(s)'
    BY <1>s, <1>1, <1>3
       DEF SpClear, InFlight, Busy, TypeInv, TypeOK, SessionTypeOK, PortTypeOK
  <2> QED BY <1>s, <1>1, <1>2, <1>3, <2>1, <2>2, <2>3, StayStep
<1>5. SenderOK'
  <2>1. \A u \in Slots : Senders(u)' \subseteq Senders(u)
    BY <1>1, <1>2, ThreadKinds DEF Senders, OnlyThread
  <2>2. w \in Senders(s) /\ w \notin Senders(s)'
    BY <1>s, <1>1, <1>2 DEF Senders
  <2>3. sendFlag[s] = 1 /\ sendOv[s] = "idle"
    BY <1>1, <2>2 DEF SenderOK
  <2>4. /\ \A u \in Slots \ {s} : sendFlag'[u] = sendFlag[u]
        /\ \A u \in Slots \ {s} : sendOv'[u] = "idle" <=> sendOv[u] = "idle"
        /\ sendOv'[s] # "idle" => sendFlag'[s] = 1
    BY <1>s, <1>1, <2>3 DEF SpClear, TypeInv, TypeOK, PortTypeOK, SendTypeOK
  <2> QED BY <1>1, <2>1, <2>2, <2>4, SenderLeaves
<1>6. ReceiverOK'
  <2>1. \A u \in Slots : Receivers(u)' \subseteq Receivers(u)
    BY <1>1, <1>2, ThreadKinds DEF Receivers, OnlyThread
  <2> QED BY <1>1, <2>1, SameReceiver DEF SpClear, TypeInv, TypeOK, PortTypeOK
<1> QED BY <1>4, <1>5, <1>6, InvPartsPrime

LEMMA SessionSpLoad ==
    ASSUME SessionInv, TypeInv', NEW w \in Workers, SpLoad(w)
    PROVE  SessionInv'
<1>1. TypeInv /\ SlotInv /\ SenderOK /\ ReceiverOK /\ w \in Threads /\ slot[w] \in Slots
  BY InvParts, ThreadKinds DEF TypeInv, PlaceOK, SpLoad
<1>s. PICK s \in Slots : slot[w] = s
  BY <1>1
<1>2. /\ OnlyThread(w) /\ slot'[w] = slot[w]
      /\ pc[w] = "SpLoad" /\ pc'[w] \in {"SpCall"}
  BY <1>1 DEF OnlyThread, SpLoad, TypeInv, TypeOK, ThreadTypeOK
<1>3. Weight(w) = 1 /\ Weight(w)' = 2
  BY <1>2 DEF Weight, One
<1>4. SlotInv'
  <2>1. Held(slot[w]) /\ Reached(slot[w])
    BY <1>1, <1>2, WorkerHolds DEF SlotInv
  <2>2. pc[w] \notin OwnerPcs /\ pc'[w] \notin OwnerPcs \cup {"AcPop"}
    BY <1>2 DEF OwnerPcs
  <2>3. /\ UNCHANGED <<sessionID, socket, releaseFlag, relSocket, tableVars>>
        /\ OnlySlot(s)
        /\ ioCount'[s] = ioCount[s] - 1 + 2 - InFlight(s) + InFlight(s)'
    BY <1>s, <1>1, <1>3
       DEF SpLoad, AddRef, SocketArg, InFlight, Busy, TypeInv, TypeOK,
           SessionTypeOK, PortTypeOK
  <2> QED BY <1>s, <1>1, <1>2, <1>3, <2>1, <2>2, <2>3, StayStep
<1>5. SenderOK'
  <2>1. \A u \in Slots : Senders(u)' \subseteq Senders(u)
    BY <1>1, <1>2, ThreadKinds DEF Senders, OnlyThread
  <2> QED
    BY <1>1, <2>1, SameSender
       DEF SpLoad, AddRef, SocketArg, TypeInv, TypeOK, PortTypeOK
<1>6. ReceiverOK'
  <2>1. \A u \in Slots : Receivers(u)' \subseteq Receivers(u)
    BY <1>1, <1>2, ThreadKinds DEF Receivers, OnlyThread
  <2> QED
    BY <1>1, <2>1, SameReceiver
       DEF SpLoad, AddRef, SocketArg, TypeInv, TypeOK, PortTypeOK
<1> QED BY <1>4, <1>5, <1>6, InvPartsPrime

LEMMA SessionSpCall ==
    ASSUME SessionInv, TypeInv', NEW w \in Workers, SpCall(w)
    PROVE  SessionInv'
<1>1. TypeInv /\ SlotInv /\ SenderOK /\ ReceiverOK /\ w \in Threads /\ slot[w] \in Slots
  BY InvParts, ThreadKinds DEF TypeInv, PlaceOK, SpCall
<1>s. PICK s \in Slots : slot[w] = s
  BY <1>1
<1>2. /\ OnlyThread(w) /\ slot'[w] = slot[w]
      /\ pc[w] = "SpCall" /\ pc'[w] \in {"SpPending", "Dec"}
  BY <1>1 DEF OnlyThread, SpCall, TypeInv, TypeOK, ThreadTypeOK
<1>3. Weight(w) = 2 /\ Weight(w)' = 1
  BY <1>2 DEF Weight, One
<1>4. SlotInv'
  <2>1. Held(slot[w]) /\ Reached(slot[w])
    BY <1>1, <1>2, WorkerHolds DEF SlotInv
  <2>2. pc[w] \notin OwnerPcs /\ pc'[w] \notin OwnerPcs \cup {"AcPop"}
    BY <1>2 DEF OwnerPcs
  <2>3. /\ UNCHANGED <<sessionID, socket, releaseFlag, relSocket, tableVars>>
        /\ OnlySlot(s)
        /\ ioCount'[s] = ioCount[s] - 2 + 1 - InFlight(s) + InFlight(s)'
    <3>1. sendOv[slot[w]] = "idle"
      BY <1>1, <1>2 DEF SenderOK, Senders
    <3>2. UNCHANGED <<sessionID, socket, releaseFlag, relSocket, tableVars,
                      recvOv, jobs, relJobs>>
      BY DEF SpCall
    <3>3. /\ \A u \in Slots \ {s} : ioCount'[u] = ioCount[u] /\ sendOv'[u] = sendOv[u]
          /\ ioCount'[s] = ioCount[s] - 1 + Busy(sendOv'[s])
      BY <1>s, <1>1, <3>1
         DEF SpCall, PostFailed, DropRef, Busy, TypeInv, TypeOK, SessionTypeOK,
             PortTypeOK
    <3>4. ioCount[s] \in Int /\ jobs[s] \in Nat
      BY <1>1 DEF TypeInv, TypeOK, SessionTypeOK, PortTypeOK
    <3> QED BY <1>s, <1>1, <3>1, <3>2, <3>3, <3>4 DEF InFlight, Busy
  <2> QED BY <1>s, <1>1, <1>2, <1>3, <2>1, <2>2, <2>3, StayStep
<1>5. SenderOK'
  <2>1. \A u \in Slots : Senders(u)' \subseteq Senders(u)
    BY <1>1, <1>2, ThreadKinds DEF Senders, OnlyThread
  <2>2. w \in Senders(s) /\ w \notin Senders(s)'
    BY <1>s, <1>1, <1>2 DEF Senders
  <2>3. sendFlag[s] = 1 /\ sendOv[s] = "idle"
    BY <1>1, <2>2 DEF SenderOK
  <2>4. /\ \A u \in Slots \ {s} : sendFlag'[u] = sendFlag[u]
        /\ \A u \in Slots \ {s} : sendOv'[u] = "idle" <=> sendOv[u] = "idle"
        /\ sendOv'[s] # "idle" => sendFlag'[s] = 1
    BY <1>s, <1>1, <2>3 DEF SpCall, TypeInv, TypeOK, PortTypeOK, SendTypeOK
  <2> QED BY <1>1, <2>1, <2>2, <2>4, SenderLeaves
<1>6. ReceiverOK'
  <2>1. \A u \in Slots : Receivers(u)' \subseteq Receivers(u)
    BY <1>1, <1>2, ThreadKinds DEF Receivers, OnlyThread
  <2> QED
    BY <1>1, <2>1, SameReceiver
       DEF SpCall, PostFailed, DropRef, TypeInv, TypeOK, PortTypeOK
<1> QED BY <1>4, <1>5, <1>6, InvPartsPrime

LEMMA SessionSpPending ==
    ASSUME SessionInv, TypeInv', NEW w \in Workers, SpPending(w)
    PROVE  SessionInv'
<1>1. TypeInv /\ SlotInv /\ SenderOK /\ ReceiverOK /\ w \in Threads /\ slot[w] \in Slots
  BY InvParts, ThreadKinds DEF TypeInv, PlaceOK, SpPending
<1>s. PICK s \in Slots : slot[w] = s
  BY <1>1
<1>2. /\ OnlyThread(w) /\ slot'[w] = slot[w]
      /\ pc[w] = "SpPending" /\ pc'[w] \in {"Dec"}
  BY <1>1 DEF OnlyThread, SpPending, TypeInv, TypeOK, ThreadTypeOK
<1>3. Weight(w) = 1 /\ Weight(w)' = 1
  BY <1>2 DEF Weight, One
<1>4. SlotInv'
  <2>1. Held(slot[w]) /\ Reached(slot[w])
    BY <1>1, <1>2, WorkerHolds DEF SlotInv
  <2>2. pc[w] \notin OwnerPcs /\ pc'[w] \notin OwnerPcs \cup {"AcPop"}
    BY <1>2 DEF OwnerPcs
  <2>3. /\ UNCHANGED <<sessionID, socket, releaseFlag, relSocket, tableVars>>
        /\ OnlySlot(s)
        /\ ioCount'[s] = ioCount[s] - 1 + 1 - InFlight(s) + InFlight(s)'
    <3>1. \A u \in Slots : /\ Busy(recvOv'[u]) = Busy(recvOv[u])
                            /\ Busy(sendOv'[u]) = Busy(sendOv[u])
      BY <1>s, <1>1, CancelKeepsBusy DEF SpPending, TypeInv, TypeOK
    <3>2. \A u \in Slots : InFlight(u)' = InFlight(u) /\ InFlight(u) \in Nat
      BY <1>1, <3>1, InFlightType DEF SpPending, InFlight, TypeInv, TypeOK
    <3> QED
      BY <1>1, <3>2
         DEF SpPending, TypeInv, TypeOK, SessionTypeOK, PortTypeOK
  <2> QED BY <1>s, <1>1, <1>2, <1>3, <2>1, <2>2, <2>3, StayStep
<1>5. SenderOK'
  <2>1. \A u \in Slots : Senders(u)' \subseteq Senders(u)
    BY <1>1, <1>2, ThreadKinds DEF Senders, OnlyThread
  <2> QED
    BY <1>1, <2>1, SameSender
       DEF SpPending, CancelIfInvalid, Cancelled, TypeInv, TypeOK, PortTypeOK
<1>6. ReceiverOK'
  <2>1. \A u \in Slots : Receivers(u)' \subseteq Receivers(u)
    BY <1>1, <1>2, ThreadKinds DEF Receivers, OnlyThread
  <2> QED
    BY <1>1, <2>1, SameReceiver
       DEF SpPending, CancelIfInvalid, Cancelled, TypeInv, TypeOK, PortTypeOK
<1> QED BY <1>4, <1>5, <1>6, InvPartsPrime

(* The receive logic of a worker *)
LEMMA SessionParseEnd ==
    ASSUME SessionInv, TypeInv', NEW w \in Workers, ParseEnd(w)
    PROVE  SessionInv'
<1>1. TypeInv /\ SlotInv /\ SenderOK /\ ReceiverOK /\ w \in Threads /\ slot[w] \in Slots
  BY InvParts, ThreadKinds DEF TypeInv, PlaceOK, ParseEnd
<1>s. PICK s \in Slots : slot[w] = s
  BY <1>1
<1>2. /\ OnlyThread(w) /\ slot'[w] = slot[w]
      /\ pc[w] = "Parse" /\ pc'[w] \in {"RpLoad"}
  BY <1>1 DEF OnlyThread, ParseEnd, TypeInv, TypeOK, ThreadTypeOK
<1>3. Weight(w) = 1 /\ Weight(w)' = 1
  BY <1>2 DEF Weight, One
<1>4. SlotInv'
  <2>1. Held(slot[w]) /\ Reached(slot[w])
    BY <1>1, <1>2, WorkerHolds DEF SlotInv
  <2>2. pc[w] \notin OwnerPcs /\ pc'[w] \notin OwnerPcs \cup {"AcPop"}
    BY <1>2 DEF OwnerPcs
  <2>3. /\ UNCHANGED <<sessionID, socket, releaseFlag, relSocket, tableVars>>
        /\ OnlySlot(s)
        /\ ioCount'[s] = ioCount[s] - 1 + 1 - InFlight(s) + InFlight(s)'
    BY <1>s, <1>1, <1>3
       DEF ParseEnd, InFlight, Busy, TypeInv, TypeOK, SessionTypeOK, PortTypeOK
  <2> QED BY <1>s, <1>1, <1>2, <1>3, <2>1, <2>2, <2>3, StayStep
<1>5. SenderOK'
  <2>1. \A u \in Slots : Senders(u)' \subseteq Senders(u)
    BY <1>1, <1>2, ThreadKinds DEF Senders, OnlyThread
  <2> QED BY <1>1, <2>1, SameSender DEF ParseEnd, TypeInv, TypeOK, PortTypeOK
<1>6. ReceiverOK'
  <2>1. \A u \in Slots : Receivers(u)' \subseteq Receivers(u)
    BY <1>1, <1>2, ThreadKinds DEF Receivers, OnlyThread
  <2> QED BY <1>1, <2>1, SameReceiver DEF ParseEnd, TypeInv, TypeOK, PortTypeOK
<1> QED BY <1>4, <1>5, <1>6, InvPartsPrime

LEMMA SessionParseBad ==
    ASSUME SessionInv, TypeInv', NEW w \in Workers, ParseBad(w)
    PROVE  SessionInv'
<1>1. TypeInv /\ SlotInv /\ SenderOK /\ ReceiverOK /\ w \in Threads /\ slot[w] \in Slots
  BY InvParts, ThreadKinds DEF TypeInv, PlaceOK, ParseBad
<1>s. PICK s \in Slots : slot[w] = s
  BY <1>1
<1>2. /\ OnlyThread(w) /\ slot'[w] = slot[w]
      /\ pc[w] = "Parse" /\ pc'[w] \in {"Enter"}
  BY <1>1 DEF OnlyThread, ParseBad, Call, TypeInv, TypeOK, ThreadTypeOK
<1>3. Weight(w) = 1 /\ Weight(w)' = 1
  BY <1>2 DEF Weight, One
<1>4. SlotInv'
  <2>1. Held(slot[w]) /\ Reached(slot[w])
    BY <1>1, <1>2, WorkerHolds DEF SlotInv
  <2>2. pc[w] \notin OwnerPcs /\ pc'[w] \notin OwnerPcs \cup {"AcPop"}
    BY <1>2 DEF OwnerPcs
  <2>3. /\ UNCHANGED <<sessionID, socket, releaseFlag, relSocket, tableVars>>
        /\ OnlySlot(s)
        /\ ioCount'[s] = ioCount[s] - 1 + 1 - InFlight(s) + InFlight(s)'
    BY <1>s, <1>1, <1>3
       DEF ParseBad, Call, InFlight, Busy, TypeInv, TypeOK, SessionTypeOK,
           PortTypeOK
  <2> QED BY <1>s, <1>1, <1>2, <1>3, <2>1, <2>2, <2>3, StayStep
<1>5. SenderOK'
  <2>1. \A u \in Slots : Senders(u)' \subseteq Senders(u)
    BY <1>1, <1>2, ThreadKinds DEF Senders, OnlyThread
  <2> QED
    BY <1>1, <2>1, SameSender
       DEF ParseBad, Call, TypeInv, TypeOK, PortTypeOK
<1>6. ReceiverOK'
  <2>1. \A u \in Slots : Receivers(u)' \subseteq Receivers(u)
    BY <1>1, <1>2, ThreadKinds DEF Receivers, OnlyThread
  <2> QED
    BY <1>1, <2>1, SameReceiver
       DEF ParseBad, Call, TypeInv, TypeOK, PortTypeOK
<1> QED BY <1>4, <1>5, <1>6, InvPartsPrime

LEMMA SessionOnRecv ==
    ASSUME SessionInv, TypeInv', NEW w \in Workers, OnRecv(w)
    PROVE  SessionInv'
<1>1. TypeInv /\ SlotInv /\ SenderOK /\ ReceiverOK /\ w \in Threads /\ slot[w] \in Slots
  BY InvParts, ThreadKinds DEF TypeInv, PlaceOK, OnRecv
<1>s. PICK s \in Slots : slot[w] = s
  BY <1>1
<1>2. /\ OnlyThread(w) /\ slot'[w] = slot[w]
      /\ pc[w] = "Parse" /\ pc'[w] \in {"Enter"}
  BY <1>1 DEF OnlyThread, OnRecv, Call, TypeInv, TypeOK, ThreadTypeOK
<1>3. Weight(w) = 1 /\ Weight(w)' = 1
  BY <1>2 DEF Weight, One
<1>4. SlotInv'
  <2>1. Held(slot[w]) /\ Reached(slot[w])
    BY <1>1, <1>2, WorkerHolds DEF SlotInv
  <2>2. pc[w] \notin OwnerPcs /\ pc'[w] \notin OwnerPcs \cup {"AcPop"}
    BY <1>2 DEF OwnerPcs
  <2>3. /\ UNCHANGED <<sessionID, socket, releaseFlag, relSocket, tableVars>>
        /\ OnlySlot(s)
        /\ ioCount'[s] = ioCount[s] - 1 + 1 - InFlight(s) + InFlight(s)'
    BY <1>s, <1>1, <1>3
       DEF OnRecv, Call, InFlight, Busy, TypeInv, TypeOK, SessionTypeOK,
           PortTypeOK
  <2> QED BY <1>s, <1>1, <1>2, <1>3, <2>1, <2>2, <2>3, StayStep
<1>5. SenderOK'
  <2>1. \A u \in Slots : Senders(u)' \subseteq Senders(u)
    BY <1>1, <1>2, ThreadKinds DEF Senders, OnlyThread
  <2> QED
    BY <1>1, <2>1, SameSender
       DEF OnRecv, Call, TypeInv, TypeOK, PortTypeOK
<1>6. ReceiverOK'
  <2>1. \A u \in Slots : Receivers(u)' \subseteq Receivers(u)
    BY <1>1, <1>2, ThreadKinds DEF Receivers, OnlyThread
  <2> QED
    BY <1>1, <2>1, SameReceiver
       DEF OnRecv, Call, TypeInv, TypeOK, PortTypeOK
<1> QED BY <1>4, <1>5, <1>6, InvPartsPrime

LEMMA SessionRpLoad ==
    ASSUME SessionInv, TypeInv', NEW w \in Workers, RpLoad(w)
    PROVE  SessionInv'
<1>1. TypeInv /\ SlotInv /\ SenderOK /\ ReceiverOK /\ w \in Threads /\ slot[w] \in Slots
  BY InvParts, ThreadKinds DEF TypeInv, PlaceOK, RpLoad
<1>s. PICK s \in Slots : slot[w] = s
  BY <1>1
<1>2. /\ OnlyThread(w) /\ slot'[w] = slot[w]
      /\ pc[w] = "RpLoad" /\ pc'[w] \in {"RpCall"}
  BY <1>1 DEF OnlyThread, RpLoad, TypeInv, TypeOK, ThreadTypeOK
<1>3. Weight(w) = 1 /\ Weight(w)' = 2
  BY <1>2 DEF Weight, One
<1>4. SlotInv'
  <2>1. Held(slot[w]) /\ Reached(slot[w])
    BY <1>1, <1>2, WorkerHolds DEF SlotInv
  <2>2. pc[w] \notin OwnerPcs /\ pc'[w] \notin OwnerPcs \cup {"AcPop"}
    BY <1>2 DEF OwnerPcs
  <2>3. /\ UNCHANGED <<sessionID, socket, releaseFlag, relSocket, tableVars>>
        /\ OnlySlot(s)
        /\ ioCount'[s] = ioCount[s] - 1 + 2 - InFlight(s) + InFlight(s)'
    BY <1>s, <1>1, <1>3
       DEF RpLoad, AddRef, SocketArg, InFlight, Busy, TypeInv, TypeOK,
           SessionTypeOK, PortTypeOK
  <2> QED BY <1>s, <1>1, <1>2, <1>3, <2>1, <2>2, <2>3, StayStep
<1>5. SenderOK'
  <2>1. \A u \in Slots : Senders(u)' \subseteq Senders(u)
    BY <1>1, <1>2, ThreadKinds DEF Senders, OnlyThread
  <2> QED
    BY <1>1, <2>1, SameSender
       DEF RpLoad, AddRef, SocketArg, TypeInv, TypeOK, PortTypeOK
<1>6. ReceiverOK'
  <2>1. \A u \in Slots : Receivers(u)' \subseteq Receivers(u)
    BY <1>1, <1>2, ThreadKinds DEF Receivers, OnlyThread
  <2> QED
    BY <1>1, <2>1, SameReceiver
       DEF RpLoad, AddRef, SocketArg, TypeInv, TypeOK, PortTypeOK
<1> QED BY <1>4, <1>5, <1>6, InvPartsPrime

LEMMA SessionRpCall ==
    ASSUME SessionInv, TypeInv', NEW w \in Workers, RpCall(w)
    PROVE  SessionInv'
<1>1. TypeInv /\ SlotInv /\ SenderOK /\ ReceiverOK /\ w \in Threads /\ slot[w] \in Slots
  BY InvParts, ThreadKinds DEF TypeInv, PlaceOK, RpCall
<1>s. PICK s \in Slots : slot[w] = s
  BY <1>1
<1>2. /\ OnlyThread(w) /\ slot'[w] = slot[w]
      /\ pc[w] = "RpCall" /\ pc'[w] \in {"RpPending", "Dec"}
  BY <1>1 DEF OnlyThread, RpCall, TypeInv, TypeOK, ThreadTypeOK
<1>3. Weight(w) = 2 /\ Weight(w)' = 1
  BY <1>2 DEF Weight, One
<1>4. SlotInv'
  <2>1. Held(slot[w]) /\ Reached(slot[w])
    BY <1>1, <1>2, WorkerHolds DEF SlotInv
  <2>2. pc[w] \notin OwnerPcs /\ pc'[w] \notin OwnerPcs \cup {"AcPop"}
    BY <1>2 DEF OwnerPcs
  <2>3. /\ UNCHANGED <<sessionID, socket, releaseFlag, relSocket, tableVars>>
        /\ OnlySlot(s)
        /\ ioCount'[s] = ioCount[s] - 2 + 1 - InFlight(s) + InFlight(s)'
    <3>1. recvOv[slot[w]] = "idle"
      BY <1>1, <1>2 DEF ReceiverOK, Receivers
    <3> QED
      BY <1>s, <1>1, <1>3, <3>1, SMTT(30)
         DEF RpCall, PostFailed, DropRef, InFlight, Busy, TypeInv, TypeOK,
             SessionTypeOK, PortTypeOK
  <2> QED BY <1>s, <1>1, <1>2, <1>3, <2>1, <2>2, <2>3, StayStep
<1>5. SenderOK'
  <2>1. \A u \in Slots : Senders(u)' \subseteq Senders(u)
    BY <1>1, <1>2, ThreadKinds DEF Senders, OnlyThread
  <2> QED
    BY <1>1, <2>1, SameSender
       DEF RpCall, PostFailed, DropRef, TypeInv, TypeOK, PortTypeOK
<1>6. ReceiverOK'
  <2>1. \A u \in Slots : Receivers(u)' = Receivers(u) \ {w}
    BY <1>1, <1>2, ThreadKinds DEF Receivers, OnlyThread
  <2>2. w \in Receivers(slot[w])
    BY <1>1, <1>2 DEF Receivers
  <2> QED
    BY <1>1, <2>1, <2>2
       DEF ReceiverOK, RpCall, PostFailed, DropRef, TypeInv, TypeOK, PortTypeOK
<1> QED BY <1>4, <1>5, <1>6, InvPartsPrime

LEMMA SessionRpPending ==
    ASSUME SessionInv, TypeInv', NEW w \in Workers, RpPending(w)
    PROVE  SessionInv'
<1>1. TypeInv /\ SlotInv /\ SenderOK /\ ReceiverOK /\ w \in Threads /\ slot[w] \in Slots
  BY InvParts, ThreadKinds DEF TypeInv, PlaceOK, RpPending
<1>s. PICK s \in Slots : slot[w] = s
  BY <1>1
<1>2. /\ OnlyThread(w) /\ slot'[w] = slot[w]
      /\ pc[w] = "RpPending" /\ pc'[w] \in {"Dec"}
  BY <1>1 DEF OnlyThread, RpPending, TypeInv, TypeOK, ThreadTypeOK
<1>3. Weight(w) = 1 /\ Weight(w)' = 1
  BY <1>2 DEF Weight, One
<1>4. SlotInv'
  <2>1. Held(slot[w]) /\ Reached(slot[w])
    BY <1>1, <1>2, WorkerHolds DEF SlotInv
  <2>2. pc[w] \notin OwnerPcs /\ pc'[w] \notin OwnerPcs \cup {"AcPop"}
    BY <1>2 DEF OwnerPcs
  <2>3. /\ UNCHANGED <<sessionID, socket, releaseFlag, relSocket, tableVars>>
        /\ OnlySlot(s)
        /\ ioCount'[s] = ioCount[s] - 1 + 1 - InFlight(s) + InFlight(s)'
    <3>1. \A u \in Slots : /\ Busy(recvOv'[u]) = Busy(recvOv[u])
                            /\ Busy(sendOv'[u]) = Busy(sendOv[u])
      BY <1>s, <1>1, CancelKeepsBusy DEF RpPending, TypeInv, TypeOK
    <3>2. \A u \in Slots : InFlight(u)' = InFlight(u) /\ InFlight(u) \in Nat
      BY <1>1, <3>1, InFlightType DEF RpPending, InFlight, TypeInv, TypeOK
    <3> QED
      BY <1>1, <3>2
         DEF RpPending, TypeInv, TypeOK, SessionTypeOK, PortTypeOK
  <2> QED BY <1>s, <1>1, <1>2, <1>3, <2>1, <2>2, <2>3, StayStep
<1>5. SenderOK'
  <2>1. \A u \in Slots : Senders(u)' \subseteq Senders(u)
    BY <1>1, <1>2, ThreadKinds DEF Senders, OnlyThread
  <2> QED
    BY <1>1, <2>1, SameSender
       DEF RpPending, CancelIfInvalid, Cancelled, TypeInv, TypeOK, PortTypeOK
<1>6. ReceiverOK'
  <2>1. \A u \in Slots : Receivers(u)' \subseteq Receivers(u)
    BY <1>1, <1>2, ThreadKinds DEF Receivers, OnlyThread
  <2> QED
    BY <1>1, <2>1, SameReceiver
       DEF RpPending, CancelIfInvalid, Cancelled, TypeInv, TypeOK, PortTypeOK
<1> QED BY <1>4, <1>5, <1>6, InvPartsPrime

(* Disconnect and SendPacket, on behalf of any thread *)
LEMMA SessionEnter ==
    ASSUME SessionInv, TypeInv', NEW t \in Workers \cup ApiThreads, Enter(t)
    PROVE  SessionInv'
<1>1. /\ TypeInv /\ SlotInv /\ SenderOK /\ ReceiverOK
      /\ t \in Threads /\ t # Acceptor /\ slot[t] \in Slots
      /\ t \in Workers <=> t \notin ApiThreads
  BY InvParts, ThreadKinds DEF TypeInv, PlaceOK, Enter
<1>s. PICK s \in Slots : slot[t] = s
  BY <1>1
<1>2. /\ OnlyThread(t) /\ slot'[t] = s /\ pc[t] = "Enter"
      /\ pc'[t] \in {"ChkFlag"}
  BY <1>1, <1>s DEF OnlyThread, Enter, TypeInv, TypeOK, ThreadTypeOK
<1>3. Weight(t) \in Nat /\ Weight(t)' = Weight(t) + 1
  BY <1>1, <1>2 DEF Weight, One
<1>4. SlotInv'
  <2>1. Reached(s)
    BY <1>s, <1>1 DEF SlotInv, ReachOK
  <2>2. (slot'[t] = s /\ Guarded(t)' => Held(s)) /\ (Guarded(t) => Held(s))
    BY <1>s, <1>1, <1>2, <2>1
       DEF SlotInv, HoldOK, Guarded, Reached, Held, Enter, TypeInv, TypeOK,
           ThreadTypeOK, SessionTypeOK
  <2>3. pc[t] \notin OwnerPcs /\ pc'[t] \notin OwnerPcs \cup {"AcPop"}
    BY <1>2 DEF OwnerPcs
  <2>4. /\ UNCHANGED <<sessionID, releaseFlag, relSocket, tableVars>>
        /\ \A u \in Slots : socket'[u].hi = socket[u].hi
        /\ OnlySlot(s)
        /\ ioCount'[s] = ioCount[s] + 1 - InFlight(s) + InFlight(s)'
    BY <1>s, <1>1, <1>3
       DEF Enter, AddRef, InFlight, Busy, TypeInv, TypeOK, SessionTypeOK,
           PortTypeOK
  <2>5. InFlight(s)' > 0 => Held(s)
    BY <1>s, <1>1, <1>2, <2>2 DEF SlotInv, HoldOK, Enter, InFlight, Guarded
  <2>6. ioCount[s] \in Int /\ InFlight(s) \in Nat /\ InFlight(s)' \in Nat
    BY <1>1 DEF TypeInv, TypeOK, SessionTypeOK, PortTypeOK, InFlight, Busy
  <2>7. ioCount'[s] = ioCount[s] - Weight(t) + (IF slot'[t] = s THEN Weight(t)' ELSE 0)
                      - InFlight(s) + InFlight(s)'
    BY <1>2, <1>3, <2>4, <2>6
  <2> QED BY <1>s, <1>1, <1>2, <2>1, <2>2, <2>3, <2>4, <2>5, <2>7, StayStep
<1>5. SenderOK'
  <2>1. \A u \in Slots : Senders(u)' \subseteq Senders(u)
    BY <1>1, <1>2, <1>s, ThreadKinds DEF Senders, OnlyThread
  <2> QED
    BY <1>1, <2>1, SameSender
       DEF Enter, AddRef, TypeInv, TypeOK, PortTypeOK
<1>6. ReceiverOK'
  <2>1. \A u \in Slots : Receivers(u)' \subseteq Receivers(u)
    BY <1>1, <1>2, <1>s, ThreadKinds DEF Receivers, OnlyThread
  <2> QED
    BY <1>1, <2>1, SameReceiver
       DEF Enter, AddRef, TypeInv, TypeOK, PortTypeOK
<1> QED BY <1>4, <1>5, <1>6, InvPartsPrime

LEMMA SessionChkFlag ==
    ASSUME SessionInv, TypeInv', NEW t \in Workers \cup ApiThreads, ChkFlag(t)
    PROVE  SessionInv'
<1>1. /\ TypeInv /\ SlotInv /\ SenderOK /\ ReceiverOK
      /\ t \in Threads /\ t # Acceptor /\ slot[t] \in Slots
      /\ t \in Workers <=> t \notin ApiThreads
  BY InvParts, ThreadKinds DEF TypeInv, PlaceOK, ChkFlag
<1>s. PICK s \in Slots : slot[t] = s
  BY <1>1
<1>2. /\ OnlyThread(t) /\ slot'[t] = s /\ pc[t] = "ChkFlag"
      /\ pc'[t] \in {"Leave", "ChkId"}
  BY <1>1, <1>s DEF OnlyThread, ChkFlag, TypeInv, TypeOK, ThreadTypeOK
<1>3. Weight(t) \in Nat /\ Weight(t)' = Weight(t)
  BY <1>1, <1>2 DEF Weight, One
<1>4. SlotInv'
  <2>1. Reached(s)
    BY <1>s, <1>1 DEF SlotInv, ReachOK
  <2>2. (slot'[t] = s /\ Guarded(t)' => Held(s)) /\ (Guarded(t) => Held(s))
    BY <1>s, <1>1, <1>2, <2>1
       DEF SlotInv, HoldOK, Guarded, Reached, Held, ChkFlag, TypeInv, TypeOK,
           ThreadTypeOK, SessionTypeOK
  <2>3. pc[t] \notin OwnerPcs /\ pc'[t] \notin OwnerPcs \cup {"AcPop"}
    BY <1>2 DEF OwnerPcs
  <2>4. /\ UNCHANGED <<sessionID, releaseFlag, relSocket, tableVars>>
        /\ \A u \in Slots : socket'[u].hi = socket[u].hi
        /\ OnlySlot(s)
        /\ ioCount'[s] = ioCount[s] - InFlight(s) + InFlight(s)'
    BY <1>s, <1>1, <1>3
       DEF ChkFlag, InFlight, Busy, TypeInv, TypeOK, SessionTypeOK, PortTypeOK
  <2>5. InFlight(s)' > 0 => Held(s)
    BY <1>s, <1>1, <1>2, <2>2 DEF SlotInv, HoldOK, ChkFlag, InFlight, Guarded
  <2>6. ioCount[s] \in Int /\ InFlight(s) \in Nat /\ InFlight(s)' \in Nat
    BY <1>1 DEF TypeInv, TypeOK, SessionTypeOK, PortTypeOK, InFlight, Busy
  <2>7. ioCount'[s] = ioCount[s] - Weight(t) + (IF slot'[t] = s THEN Weight(t)' ELSE 0)
                      - InFlight(s) + InFlight(s)'
    BY <1>2, <1>3, <2>4, <2>6
  <2> QED BY <1>s, <1>1, <1>2, <2>1, <2>2, <2>3, <2>4, <2>5, <2>7, StayStep
<1>5. SenderOK'
  <2>1. \A u \in Slots : Senders(u)' \subseteq Senders(u)
    BY <1>1, <1>2, <1>s, ThreadKinds DEF Senders, OnlyThread
  <2> QED BY <1>1, <2>1, SameSender DEF ChkFlag, TypeInv, TypeOK, PortTypeOK
<1>6. ReceiverOK'
  <2>1. \A u \in Slots : Receivers(u)' \subseteq Receivers(u)
    BY <1>1, <1>2, <1>s, ThreadKinds DEF Receivers, OnlyThread
  <2> QED BY <1>1, <2>1, SameReceiver DEF ChkFlag, TypeInv, TypeOK, PortTypeOK
<1> QED BY <1>4, <1>5, <1>6, InvPartsPrime

LEMMA SessionChkId ==
    ASSUME SessionInv, TypeInv', NEW t \in Workers \cup ApiThreads, ChkId(t)
    PROVE  SessionInv'
<1>1. /\ TypeInv /\ SlotInv /\ SenderOK /\ ReceiverOK
      /\ t \in Threads /\ t # Acceptor /\ slot[t] \in Slots
      /\ t \in Workers <=> t \notin ApiThreads
  BY InvParts, ThreadKinds DEF TypeInv, PlaceOK, ChkId
<1>s. PICK s \in Slots : slot[t] = s
  BY <1>1
<1>2. /\ OnlyThread(t) /\ slot'[t] = s /\ pc[t] = "ChkId"
      /\ pc'[t] \in {"Leave", "SqEnqueue", "DcExchange"}
  BY <1>1, <1>s DEF OnlyThread, ChkId, TypeInv, TypeOK, ThreadTypeOK
<1>3. Weight(t) \in Nat /\ Weight(t)' = Weight(t)
  BY <1>1, <1>2 DEF Weight, One
<1>4. SlotInv'
  <2>1. Reached(s)
    BY <1>s, <1>1 DEF SlotInv, ReachOK
  <2>2. (slot'[t] = s /\ Guarded(t)' => Held(s)) /\ (Guarded(t) => Held(s))
    BY <1>s, <1>1, <1>2, <2>1
       DEF SlotInv, HoldOK, Guarded, Reached, Held, ChkId, TypeInv, TypeOK,
           ThreadTypeOK, SessionTypeOK
  <2>3. pc[t] \notin OwnerPcs /\ pc'[t] \notin OwnerPcs \cup {"AcPop"}
    BY <1>2 DEF OwnerPcs
  <2>4. /\ UNCHANGED <<sessionID, releaseFlag, relSocket, tableVars>>
        /\ \A u \in Slots : socket'[u].hi = socket[u].hi
        /\ OnlySlot(s)
        /\ ioCount'[s] = ioCount[s] - InFlight(s) + InFlight(s)'
    BY <1>s, <1>1, <1>3
       DEF ChkId, InFlight, Busy, TypeInv, TypeOK, SessionTypeOK, PortTypeOK
  <2>5. InFlight(s)' > 0 => Held(s)
    BY <1>s, <1>1, <1>2, <2>2 DEF SlotInv, HoldOK, ChkId, InFlight, Guarded
  <2>6. ioCount[s] \in Int /\ InFlight(s) \in Nat /\ InFlight(s)' \in Nat
    BY <1>1 DEF TypeInv, TypeOK, SessionTypeOK, PortTypeOK, InFlight, Busy
  <2>7. ioCount'[s] = ioCount[s] - Weight(t) + (IF slot'[t] = s THEN Weight(t)' ELSE 0)
                      - InFlight(s) + InFlight(s)'
    BY <1>2, <1>3, <2>4, <2>6
  <2> QED BY <1>s, <1>1, <1>2, <2>1, <2>2, <2>3, <2>4, <2>5, <2>7, StayStep
<1>5. SenderOK'
  <2>1. \A u \in Slots : Senders(u)' \subseteq Senders(u)
    BY <1>1, <1>2, <1>s, ThreadKinds DEF Senders, OnlyThread
  <2> QED BY <1>1, <2>1, SameSender DEF ChkId, TypeInv, TypeOK, PortTypeOK
<1>6. ReceiverOK'
  <2>1. \A u \in Slots : Receivers(u)' \subseteq Receivers(u)
    BY <1>1, <1>2, <1>s, ThreadKinds DEF Receivers, OnlyThread
  <2> QED BY <1>1, <2>1, SameReceiver DEF ChkId, TypeInv, TypeOK, PortTypeOK
<1> QED BY <1>4, <1>5, <1>6, InvPartsPrime

LEMMA SessionDcExchange ==
    ASSUME SessionInv, TypeInv', NEW t \in Workers \cup ApiThreads, DcExchange(t)
    PROVE  SessionInv'
<1>1. /\ TypeInv /\ SlotInv /\ SenderOK /\ ReceiverOK
      /\ t \in Threads /\ t # Acceptor /\ slot[t] \in Slots
      /\ t \in Workers <=> t \notin ApiThreads
  BY InvParts, ThreadKinds DEF TypeInv, PlaceOK, DcExchange
<1>s. PICK s \in Slots : slot[t] = s
  BY <1>1
<1>2. /\ OnlyThread(t) /\ slot'[t] = s /\ pc[t] = "DcExchange"
      /\ pc'[t] \in {"Leave", "DcCancel"}
  BY <1>1, <1>s DEF OnlyThread, DcExchange, TypeInv, TypeOK, ThreadTypeOK
<1>3. Weight(t) \in Nat /\ Weight(t)' = Weight(t)
  BY <1>1, <1>2 DEF Weight, One
<1>4. SlotInv'
  <2>1. Reached(s)
    BY <1>s, <1>1 DEF SlotInv, ReachOK
  <2>2. (slot'[t] = s /\ Guarded(t)' => Held(s)) /\ (Guarded(t) => Held(s))
    BY <1>s, <1>1, <1>2, <2>1
       DEF SlotInv, HoldOK, Guarded, Reached, Held, DcExchange, TypeInv,
           TypeOK, ThreadTypeOK, SessionTypeOK
  <2>3. pc[t] \notin OwnerPcs /\ pc'[t] \notin OwnerPcs \cup {"AcPop"}
    BY <1>2 DEF OwnerPcs
  <2>4. /\ UNCHANGED <<sessionID, releaseFlag, relSocket, tableVars>>
        /\ \A u \in Slots : socket'[u].hi = socket[u].hi
        /\ OnlySlot(s)
        /\ ioCount'[s] = ioCount[s] - InFlight(s) + InFlight(s)'
    BY <1>s, <1>1, <1>3
       DEF DcExchange, InFlight, Busy, TypeInv, TypeOK, SessionTypeOK,
           PortTypeOK
  <2>5. InFlight(s)' > 0 => Held(s)
    BY <1>s, <1>1, <1>2, <2>2
       DEF SlotInv, HoldOK, DcExchange, InFlight, Guarded
  <2>6. ioCount[s] \in Int /\ InFlight(s) \in Nat /\ InFlight(s)' \in Nat
    BY <1>1 DEF TypeInv, TypeOK, SessionTypeOK, PortTypeOK, InFlight, Busy
  <2>7. ioCount'[s] = ioCount[s] - Weight(t) + (IF slot'[t] = s THEN Weight(t)' ELSE 0)
                      - InFlight(s) + InFlight(s)'
    BY <1>2, <1>3, <2>4, <2>6
  <2> QED BY <1>s, <1>1, <1>2, <2>1, <2>2, <2>3, <2>4, <2>5, <2>7, StayStep
<1>5. SenderOK'
  <2>1. \A u \in Slots : Senders(u)' \subseteq Senders(u)
    BY <1>1, <1>2, <1>s, ThreadKinds DEF Senders, OnlyThread
  <2> QED BY <1>1, <2>1, SameSender DEF DcExchange, TypeInv, TypeOK, PortTypeOK
<1>6. ReceiverOK'
  <2>1. \A u \in Slots : Receivers(u)' \subseteq Receivers(u)
    BY <1>1, <1>2, <1>s, ThreadKinds DEF Receivers, OnlyThread
  <2> QED
    BY <1>1, <2>1, SameReceiver
       DEF DcExchange, TypeInv, TypeOK, PortTypeOK
<1> QED BY <1>4, <1>5, <1>6, InvPartsPrime

LEMMA SessionDcCancel ==
    ASSUME SessionInv, TypeInv', NEW t \in Workers \cup ApiThreads, DcCancel(t)
    PROVE  SessionInv'
<1>1. /\ TypeInv /\ SlotInv /\ SenderOK /\ ReceiverOK
      /\ t \in Threads /\ t # Acceptor /\ slot[t] \in Slots
      /\ t \in Workers <=> t \notin ApiThreads
  BY InvParts, ThreadKinds DEF TypeInv, PlaceOK, DcCancel
<1>s. PICK s \in Slots : slot[t] = s
  BY <1>1
<1>2. /\ OnlyThread(t) /\ slot'[t] = s /\ pc[t] = "DcCancel"
      /\ pc'[t] \in {"Leave"}
  BY <1>1, <1>s DEF OnlyThread, DcCancel, TypeInv, TypeOK, ThreadTypeOK
<1>3. Weight(t) \in Nat /\ Weight(t)' = Weight(t)
  BY <1>1, <1>2 DEF Weight, One
<1>4. SlotInv'
  <2>1. Reached(s)
    BY <1>s, <1>1 DEF SlotInv, ReachOK
  <2>2. (slot'[t] = s /\ Guarded(t)' => Held(s)) /\ (Guarded(t) => Held(s))
    BY <1>s, <1>1, <1>2, <2>1
       DEF SlotInv, HoldOK, Guarded, Reached, Held, DcCancel, TypeInv, TypeOK,
           ThreadTypeOK, SessionTypeOK
  <2>3. pc[t] \notin OwnerPcs /\ pc'[t] \notin OwnerPcs \cup {"AcPop"}
    BY <1>2 DEF OwnerPcs
  <2>4. /\ UNCHANGED <<sessionID, releaseFlag, relSocket, tableVars>>
        /\ \A u \in Slots : socket'[u].hi = socket[u].hi
        /\ OnlySlot(s)
        /\ ioCount'[s] = ioCount[s] - InFlight(s) + InFlight(s)'
    <3>1. \A u \in Slots : /\ Busy(recvOv'[u]) = Busy(recvOv[u])
                            /\ Busy(sendOv'[u]) = Busy(sendOv[u])
      BY <1>s, <1>1, CancelKeepsBusy DEF DcCancel, TypeInv, TypeOK
    <3>2. \A u \in Slots : InFlight(u)' = InFlight(u) /\ InFlight(u) \in Nat
      BY <1>1, <3>1, InFlightType DEF DcCancel, InFlight, TypeInv, TypeOK
    <3> QED BY <1>1, <1>3, <3>2 DEF DcCancel, TypeInv, TypeOK, SessionTypeOK
  <2>5. InFlight(s)' > 0 => Held(s)
    BY <1>s, <1>1, <1>2, <2>2 DEF SlotInv, HoldOK, DcCancel, Guarded
  <2>6. ioCount[s] \in Int /\ InFlight(s) \in Nat /\ InFlight(s)' \in Nat
    BY <1>1 DEF TypeInv, TypeOK, SessionTypeOK, PortTypeOK, InFlight, Busy
  <2>7. ioCount'[s] = ioCount[s] - Weight(t) + (IF slot'[t] = s THEN Weight(t)' ELSE 0)
                      - InFlight(s) + InFlight(s)'
    BY <1>2, <1>3, <2>4, <2>6
  <2> QED BY <1>s, <1>1, <1>2, <2>1, <2>2, <2>3, <2>4, <2>5, <2>7, StayStep
<1>5. SenderOK'
  <2>1. \A u \in Slots : Senders(u)' \subseteq Senders(u)
    BY <1>1, <1>2, <1>s, ThreadKinds DEF Senders, OnlyThread
  <2> QED
    BY <1>1, <2>1, SameSender
       DEF DcCancel, Cancelled, TypeInv, TypeOK, PortTypeOK
<1>6. ReceiverOK'
  <2>1. \A u \in Slots : Receivers(u)' \subseteq Receivers(u)
    BY <1>1, <1>2, <1>s, ThreadKinds DEF Receivers, OnlyThread
  <2> QED
    BY <1>1, <2>1, SameReceiver
       DEF DcCancel, Cancelled, TypeInv, TypeOK, PortTypeOK
<1> QED BY <1>4, <1>5, <1>6, InvPartsPrime

LEMMA SessionSqEnqueue ==
    ASSUME SessionInv, TypeInv', NEW t \in Workers \cup ApiThreads, SqEnqueue(t)
    PROVE  SessionInv'
<1>1. /\ TypeInv /\ SlotInv /\ SenderOK /\ ReceiverOK
      /\ t \in Threads /\ t # Acceptor /\ slot[t] \in Slots
      /\ t \in Workers <=> t \notin ApiThreads
  BY InvParts, ThreadKinds DEF TypeInv, PlaceOK, SqEnqueue
<1>s. PICK s \in Slots : slot[t] = s
  BY <1>1
<1>2. /\ OnlyThread(t) /\ slot'[t] = s /\ pc[t] = "SqEnqueue"
      /\ pc'[t] \in {"SqPost"}
  BY <1>1, <1>s DEF OnlyThread, SqEnqueue, TypeInv, TypeOK, ThreadTypeOK
<1>3. Weight(t) \in Nat /\ Weight(t)' = Weight(t)
  BY <1>1, <1>2 DEF Weight, One
<1>4. SlotInv'
  <2>1. Reached(s)
    BY <1>s, <1>1 DEF SlotInv, ReachOK
  <2>2. (slot'[t] = s /\ Guarded(t)' => Held(s)) /\ (Guarded(t) => Held(s))
    BY <1>s, <1>1, <1>2, <2>1
       DEF SlotInv, HoldOK, Guarded, Reached, Held, SqEnqueue, TypeInv, TypeOK,
           ThreadTypeOK, SessionTypeOK
  <2>3. pc[t] \notin OwnerPcs /\ pc'[t] \notin OwnerPcs \cup {"AcPop"}
    BY <1>2 DEF OwnerPcs
  <2>4. /\ UNCHANGED <<sessionID, releaseFlag, relSocket, tableVars>>
        /\ \A u \in Slots : socket'[u].hi = socket[u].hi
        /\ OnlySlot(s)
        /\ ioCount'[s] = ioCount[s] - InFlight(s) + InFlight(s)'
    BY <1>s, <1>1, <1>3
       DEF SqEnqueue, InFlight, Busy, TypeInv, TypeOK, SessionTypeOK,
           PortTypeOK
  <2>5. InFlight(s)' > 0 => Held(s)
    BY <1>s, <1>1, <1>2, <2>2 DEF SlotInv, HoldOK, SqEnqueue, InFlight, Guarded
  <2>6. ioCount[s] \in Int /\ InFlight(s) \in Nat /\ InFlight(s)' \in Nat
    BY <1>1 DEF TypeInv, TypeOK, SessionTypeOK, PortTypeOK, InFlight, Busy
  <2>7. ioCount'[s] = ioCount[s] - Weight(t) + (IF slot'[t] = s THEN Weight(t)' ELSE 0)
                      - InFlight(s) + InFlight(s)'
    BY <1>2, <1>3, <2>4, <2>6
  <2> QED BY <1>s, <1>1, <1>2, <2>1, <2>2, <2>3, <2>4, <2>5, <2>7, StayStep
<1>5. SenderOK'
  <2>1. \A u \in Slots : Senders(u)' \subseteq Senders(u)
    BY <1>1, <1>2, <1>s, ThreadKinds DEF Senders, OnlyThread
  <2> QED BY <1>1, <2>1, SameSender DEF SqEnqueue, TypeInv, TypeOK, PortTypeOK
<1>6. ReceiverOK'
  <2>1. \A u \in Slots : Receivers(u)' \subseteq Receivers(u)
    BY <1>1, <1>2, <1>s, ThreadKinds DEF Receivers, OnlyThread
  <2> QED
    BY <1>1, <2>1, SameReceiver
       DEF SqEnqueue, TypeInv, TypeOK, PortTypeOK
<1> QED BY <1>4, <1>5, <1>6, InvPartsPrime

LEMMA SessionSqPostFails ==
    ASSUME SessionInv, TypeInv', NEW t \in Workers \cup ApiThreads, SqPostFails(t)
    PROVE  SessionInv'
<1>1. /\ TypeInv /\ SlotInv /\ SenderOK /\ ReceiverOK
      /\ t \in Threads /\ t # Acceptor /\ slot[t] \in Slots
      /\ t \in Workers <=> t \notin ApiThreads
  BY InvParts, ThreadKinds DEF TypeInv, PlaceOK, SqPostFails
<1>s. PICK s \in Slots : slot[t] = s
  BY <1>1
<1>2. /\ OnlyThread(t) /\ slot'[t] = s /\ pc[t] = "SqPost"
      /\ pc'[t] \in {"Leave"}
  BY <1>1, <1>s DEF OnlyThread, SqPostFails, TypeInv, TypeOK, ThreadTypeOK
<1>3. Weight(t) \in Nat /\ Weight(t)' = Weight(t)
  BY <1>1, <1>2 DEF Weight, One
<1>4. SlotInv'
  <2>1. Reached(s)
    BY <1>s, <1>1 DEF SlotInv, ReachOK
  <2>2. (slot'[t] = s /\ Guarded(t)' => Held(s)) /\ (Guarded(t) => Held(s))
    BY <1>s, <1>1, <1>2, <2>1
       DEF SlotInv, HoldOK, Guarded, Reached, Held, SqPostFails, TypeInv,
           TypeOK, ThreadTypeOK, SessionTypeOK
  <2>3. pc[t] \notin OwnerPcs /\ pc'[t] \notin OwnerPcs \cup {"AcPop"}
    BY <1>2 DEF OwnerPcs
  <2>4. /\ UNCHANGED <<sessionID, releaseFlag, relSocket, tableVars>>
        /\ \A u \in Slots : socket'[u].hi = socket[u].hi
        /\ OnlySlot(s)
        /\ ioCount'[s] = ioCount[s] - InFlight(s) + InFlight(s)'
    BY <1>s, <1>1, <1>3
       DEF SqPostFails, InFlight, Busy, TypeInv, TypeOK, SessionTypeOK,
           PortTypeOK
  <2>5. InFlight(s)' > 0 => Held(s)
    BY <1>s, <1>1, <1>2, <2>2
       DEF SlotInv, HoldOK, SqPostFails, InFlight, Guarded
  <2>6. ioCount[s] \in Int /\ InFlight(s) \in Nat /\ InFlight(s)' \in Nat
    BY <1>1 DEF TypeInv, TypeOK, SessionTypeOK, PortTypeOK, InFlight, Busy
  <2>7. ioCount'[s] = ioCount[s] - Weight(t) + (IF slot'[t] = s THEN Weight(t)' ELSE 0)
                      - InFlight(s) + InFlight(s)'
    BY <1>2, <1>3, <2>4, <2>6
  <2> QED BY <1>s, <1>1, <1>2, <2>1, <2>2, <2>3, <2>4, <2>5, <2>7, StayStep
<1>5. SenderOK'
  <2>1. \A u \in Slots : Senders(u)' \subseteq Senders(u)
    BY <1>1, <1>2, <1>s, ThreadKinds DEF Senders, OnlyThread
  <2> QED
    BY <1>1, <2>1, SameSender
       DEF SqPostFails, TypeInv, TypeOK, PortTypeOK
<1>6. ReceiverOK'
  <2>1. \A u \in Slots : Receivers(u)' \subseteq Receivers(u)
    BY <1>1, <1>2, <1>s, ThreadKinds DEF Receivers, OnlyThread
  <2> QED
    BY <1>1, <2>1, SameReceiver
       DEF SqPostFails, TypeInv, TypeOK, PortTypeOK
<1> QED BY <1>4, <1>5, <1>6, InvPartsPrime

LEMMA SessionSqPost ==
    ASSUME SessionInv, TypeInv', NEW t \in Workers \cup ApiThreads, SqPost(t)
    PROVE  SessionInv'
<1>1. /\ TypeInv /\ SlotInv /\ SenderOK /\ ReceiverOK
      /\ t \in Threads /\ t # Acceptor /\ slot[t] \in Slots
      /\ t \in Workers <=> t \notin ApiThreads
  BY InvParts, ThreadKinds DEF TypeInv, PlaceOK, SqPost
<1>s. PICK s \in Slots : slot[t] = s
  BY <1>1
<1>2. /\ OnlyThread(t) /\ pc[t] = "SqPost"
      /\ \/ slot'[t] = s /\ pc'[t] \in {"FreePkt", "Parse", "RpLoad"}
         \/ t \in ApiThreads /\ slot'[t] = NoSlot /\ pc'[t] = "ApiIdle"
  <2>1. ret[t] \in IF t \in Workers THEN {"Parse", "RpLoad", "Kick"} ELSE {"ApiIdle"}
    BY <1>1 DEF TypeInv, CallOK, SqPost
  <2>2. op[t] # "send" => ret[t] # "Kick"
    BY <1>1 DEF TypeInv, CallOK, SqPost
  <2> QED
    BY <1>1, <1>s, <2>1, <2>2
       DEF OnlyThread, SqPost, Call, Return, EndCall, TypeInv, TypeOK,
           ThreadTypeOK
<1>3. Weight(t) \in Nat /\ (IF slot'[t] = s THEN Weight(t)' ELSE 0) = Weight(t) - 1
  BY <1>1, <1>2, SlotAssumption DEF Weight, One
<1>4. SlotInv'
  <2>1. Reached(s)
    BY <1>s, <1>1 DEF SlotInv, ReachOK
  <2>2. (slot'[t] = s /\ Guarded(t)' => Held(s)) /\ (Guarded(t) => Held(s))
    BY <1>s, <1>1, <1>2, <2>1
       DEF SlotInv, HoldOK, Guarded, Reached, Held, SqPost, TypeInv, TypeOK,
           ThreadTypeOK, SessionTypeOK
  <2>3. pc[t] \notin OwnerPcs /\ pc'[t] \notin OwnerPcs \cup {"AcPop"}
    BY <1>2 DEF OwnerPcs
  <2>4. /\ UNCHANGED <<sessionID, releaseFlag, relSocket, tableVars>>
        /\ \A u \in Slots : socket'[u].hi = socket[u].hi
        /\ OnlySlot(s)
        /\ ioCount'[s] = ioCount[s] - 1 - InFlight(s) + InFlight(s)'
    BY <1>s, <1>1, <1>3
       DEF SqPost, InFlight, Busy, TypeInv, TypeOK, SessionTypeOK, PortTypeOK
  <2>5. InFlight(s)' > 0 => Held(s)
    BY <1>s, <1>1, <1>2, <2>2 DEF SlotInv, HoldOK, SqPost, InFlight, Guarded
  <2>6. ioCount[s] \in Int /\ InFlight(s) \in Nat /\ InFlight(s)' \in Nat
    BY <1>1 DEF TypeInv, TypeOK, SessionTypeOK, PortTypeOK, InFlight, Busy
  <2>7. ioCount'[s] = ioCount[s] - Weight(t) + (IF slot'[t] = s THEN Weight(t)' ELSE 0)
                      - InFlight(s) + InFlight(s)'
    BY <1>2, <1>3, <2>4, <2>6
  <2> QED BY <1>s, <1>1, <1>2, <2>1, <2>2, <2>3, <2>4, <2>5, <2>7, StayStep
<1>5. SenderOK'
  <2>1. \A u \in Slots : Senders(u)' \subseteq Senders(u)
    BY <1>1, <1>2, <1>s, SlotAssumption, ThreadKinds DEF Senders, OnlyThread
  <2> QED
    BY <1>1, <2>1, SameSender
       DEF SqPost, Return, EndCall, TypeInv, TypeOK, PortTypeOK
<1>6. ReceiverOK'
  <2>1. \A u \in Slots : Receivers(u)' \subseteq Receivers(u)
    BY <1>1, <1>2, <1>s, SlotAssumption, ThreadKinds DEF Receivers, OnlyThread
  <2> QED
    BY <1>1, <2>1, SameReceiver
       DEF SqPost, Return, EndCall, TypeInv, TypeOK, PortTypeOK
<1> QED BY <1>4, <1>5, <1>6, InvPartsPrime

LEMMA SessionLeave ==
    ASSUME SessionInv, TypeInv', NEW t \in Workers \cup ApiThreads, Leave(t)
    PROVE  SessionInv'
<1>1. /\ TypeInv /\ SlotInv /\ SenderOK /\ ReceiverOK
      /\ t \in Threads /\ t # Acceptor /\ slot[t] \in Slots
      /\ t \in Workers <=> t \notin ApiThreads
  BY InvParts, ThreadKinds DEF TypeInv, PlaceOK, Leave
<1>s. PICK s \in Slots : slot[t] = s
  BY <1>1
<1>2. /\ OnlyThread(t) /\ pc[t] = "Leave"
      /\ \/ slot'[t] = s /\ pc'[t] \in {"FreePkt", "Parse", "RpLoad"}
         \/ t \in ApiThreads /\ slot'[t] = NoSlot /\ pc'[t] = "ApiIdle"
  <2>1. ret[t] \in IF t \in Workers THEN {"Parse", "RpLoad", "Kick"} ELSE {"ApiIdle"}
    BY <1>1 DEF TypeInv, CallOK, Leave
  <2>2. op[t] # "send" => ret[t] # "Kick"
    BY <1>1 DEF TypeInv, CallOK, Leave
  <2> QED
    BY <1>1, <1>s, <2>1, <2>2
       DEF OnlyThread, Leave, Call, Return, EndCall, TypeInv, TypeOK,
           ThreadTypeOK
<1>3. Weight(t) \in Nat /\ (IF slot'[t] = s THEN Weight(t)' ELSE 0) = Weight(t) - 1
  BY <1>1, <1>2, SlotAssumption DEF Weight, One
<1>4. SlotInv'
  <2>1. Reached(s)
    BY <1>s, <1>1 DEF SlotInv, ReachOK
  <2>2. (slot'[t] = s /\ Guarded(t)' => Held(s)) /\ (Guarded(t) => Held(s))
    BY <1>s, <1>1, <1>2, <2>1
       DEF SlotInv, HoldOK, Guarded, Reached, Held, Leave, TypeInv, TypeOK,
           ThreadTypeOK, SessionTypeOK
  <2>3. pc[t] \notin OwnerPcs /\ pc'[t] \notin OwnerPcs \cup {"AcPop"}
    BY <1>2 DEF OwnerPcs
  <2>4. /\ UNCHANGED <<sessionID, releaseFlag, relSocket, tableVars>>
        /\ \A u \in Slots : socket'[u].hi = socket[u].hi
        /\ OnlySlot(s)
        /\ ioCount'[s] = ioCount[s] - 1 - InFlight(s) + InFlight(s)'
    BY <1>s, <1>1, <1>3
       DEF Leave, DropRef, InFlight, Busy, TypeInv, TypeOK, SessionTypeOK,
           PortTypeOK
  <2>5. InFlight(s)' > 0 => Held(s)
    BY <1>s, <1>1, <1>2, <2>2 DEF SlotInv, HoldOK, Leave, InFlight, Guarded
  <2>6. ioCount[s] \in Int /\ InFlight(s) \in Nat /\ InFlight(s)' \in Nat
    BY <1>1 DEF TypeInv, TypeOK, SessionTypeOK, PortTypeOK, InFlight, Busy
  <2>7. ioCount'[s] = ioCount[s] - Weight(t) + (IF slot'[t] = s THEN Weight(t)' ELSE 0)
                      - InFlight(s) + InFlight(s)'
    BY <1>2, <1>3, <2>4, <2>6
  <2> QED BY <1>s, <1>1, <1>2, <2>1, <2>2, <2>3, <2>4, <2>5, <2>7, StayStep
<1>5. SenderOK'
  <2>1. \A u \in Slots : Senders(u)' \subseteq Senders(u)
    BY <1>1, <1>2, <1>s, SlotAssumption, ThreadKinds DEF Senders, OnlyThread
  <2> QED
    BY <1>1, <2>1, SameSender
       DEF Leave, DropRef, Return, EndCall, TypeInv, TypeOK, PortTypeOK
<1>6. ReceiverOK'
  <2>1. \A u \in Slots : Receivers(u)' \subseteq Receivers(u)
    BY <1>1, <1>2, <1>s, SlotAssumption, ThreadKinds DEF Receivers, OnlyThread
  <2> QED
    BY <1>1, <2>1, SameReceiver
       DEF Leave, DropRef, Return, EndCall, TypeInv, TypeOK, PortTypeOK
<1> QED BY <1>4, <1>5, <1>6, InvPartsPrime

LEMMA SessionFreePkt ==
    ASSUME SessionInv, TypeInv', NEW t \in Workers \cup ApiThreads, FreePkt(t)
    PROVE  SessionInv'
<1>1. /\ TypeInv /\ SlotInv /\ SenderOK /\ ReceiverOK
      /\ t \in Threads /\ t # Acceptor /\ slot[t] \in Slots
      /\ t \in Workers <=> t \notin ApiThreads
  BY InvParts, ThreadKinds DEF TypeInv, PlaceOK, FreePkt
<1>s. PICK s \in Slots : slot[t] = s
  BY <1>1
<1>2. /\ OnlyThread(t) /\ pc[t] = "FreePkt"
      /\ \/ slot'[t] = s /\ pc'[t] \in {"Enter", "Parse", "RpLoad"}
         \/ t \in ApiThreads /\ slot'[t] = NoSlot /\ pc'[t] = "ApiIdle"
  <2>1. ret[t] \in IF t \in Workers THEN {"Parse", "RpLoad", "Kick"} ELSE {"ApiIdle"}
    BY <1>1 DEF TypeInv, CallOK, FreePkt
  <2>2. op[t] # "send" => ret[t] # "Kick"
    BY <1>1 DEF TypeInv, CallOK, FreePkt
  <2> QED
    BY <1>1, <1>s, <2>1, <2>2
       DEF OnlyThread, FreePkt, Call, Return, EndCall, TypeInv, TypeOK,
           ThreadTypeOK
<1>3. Weight(t) \in Nat /\ (IF slot'[t] = s THEN Weight(t)' ELSE 0) = Weight(t)
  BY <1>1, <1>2, SlotAssumption DEF Weight, One
<1>4. SlotInv'
  <2>1. Reached(s)
    BY <1>s, <1>1 DEF SlotInv, ReachOK
  <2>2. (slot'[t] = s /\ Guarded(t)' => Held(s)) /\ (Guarded(t) => Held(s))
    BY <1>s, <1>1, <1>2, <2>1
       DEF SlotInv, HoldOK, Guarded, Reached, Held, FreePkt, TypeInv, TypeOK,
           ThreadTypeOK, SessionTypeOK
  <2>3. pc[t] \notin OwnerPcs /\ pc'[t] \notin OwnerPcs \cup {"AcPop"}
    BY <1>2 DEF OwnerPcs
  <2>4. /\ UNCHANGED <<sessionID, releaseFlag, relSocket, tableVars>>
        /\ \A u \in Slots : socket'[u].hi = socket[u].hi
        /\ OnlySlot(s)
        /\ ioCount'[s] = ioCount[s] - InFlight(s) + InFlight(s)'
    BY <1>s, <1>1, <1>3
       DEF FreePkt, InFlight, Busy, TypeInv, TypeOK, SessionTypeOK, PortTypeOK
  <2>5. InFlight(s)' > 0 => Held(s)
    BY <1>s, <1>1, <1>2, <2>2 DEF SlotInv, HoldOK, FreePkt, InFlight, Guarded
  <2>6. ioCount[s] \in Int /\ InFlight(s) \in Nat /\ InFlight(s)' \in Nat
    BY <1>1 DEF TypeInv, TypeOK, SessionTypeOK, PortTypeOK, InFlight, Busy
  <2>7. ioCount'[s] = ioCount[s] - Weight(t) + (IF slot'[t] = s THEN Weight(t)' ELSE 0)
                      - InFlight(s) + InFlight(s)'
    BY <1>2, <1>3, <2>4, <2>6
  <2> QED BY <1>s, <1>1, <1>2, <2>1, <2>2, <2>3, <2>4, <2>5, <2>7, StayStep
<1>5. SenderOK'
  <2>1. \A u \in Slots : Senders(u)' \subseteq Senders(u)
    BY <1>1, <1>2, <1>s, SlotAssumption, ThreadKinds DEF Senders, OnlyThread
  <2> QED
    BY <1>1, <2>1, SameSender
       DEF FreePkt, Call, EndCall, TypeInv, TypeOK, PortTypeOK
<1>6. ReceiverOK'
  <2>1. \A u \in Slots : Receivers(u)' \subseteq Receivers(u)
    BY <1>1, <1>2, <1>s, SlotAssumption, ThreadKinds DEF Receivers, OnlyThread
  <2> QED
    BY <1>1, <2>1, SameReceiver
       DEF FreePkt, Call, EndCall, TypeInv, TypeOK, PortTypeOK
<1> QED BY <1>4, <1>5, <1>6, InvPartsPrime

(* The kernel, and what a worker takes from the port *)
LEMMA SessionRecvComplete ==
    ASSUME SessionInv, TypeInv', NEW s \in Slots, RecvComplete(s)
    PROVE  SessionInv'
<1>1. TypeInv /\ SlotInv /\ SenderOK /\ ReceiverOK /\ Acceptor \in Threads
  BY InvParts, ThreadKinds
<1>2. UNCHANGED <<pc, slot>> /\ OnlyThread(Acceptor)
  BY DEF RecvComplete, OnlyThread
<1>3. \A u \in Slots : /\ InFlight(u)' = InFlight(u) /\ InFlight(u) \in Nat
                       /\ recvOv'[u] = "idle" <=> recvOv[u] = "idle"
                       /\ sendOv'[u] = "idle" <=> sendOv[u] = "idle"
  BY <1>1 DEF RecvComplete, InFlight, Busy, TypeInv, TypeOK, PortTypeOK
<1>4. RefCountExact'
  <2>1. \A u \in Slots : /\ Share(Acceptor, u) \in Nat
                         /\ Share(Acceptor, u)' = Share(Acceptor, u)
    BY <1>2 DEF Share, Weight, One
  <2>2. ioCount' = ioCount /\ \A u \in Slots : ioCount[u] \in Int
    BY <1>1 DEF RecvComplete, TypeInv, TypeOK, SessionTypeOK
  <2> QED BY <1>1, <1>2, <1>3, <2>1, <2>2, CountStep DEF SlotInv
<1>5. IdentityOK' /\ ReachOK' /\ HoldOK' /\ OwnerOK'
  <2>1. UNCHANGED <<sessionID, socket, releaseFlag, relSocket, tableVars, relJobs>>
    BY DEF RecvComplete
  <2>2. \A u \in Slots : /\ relJobs'[u] > 0 => Reached(u)
                         /\ InFlight(u)' > 0 => Held(u)
    BY <1>1, <1>3, <2>1 DEF SlotInv, ReachOK, HoldOK
  <2> QED BY <1>1, <1>2, <2>1, <2>2, PlainStep DEF SlotInv
<1>6. SenderOK'
  BY <1>1, <1>2, <1>3, SameSender DEF RecvComplete, Senders
<1>7. ReceiverOK'
  BY <1>1, <1>2, <1>3, SameReceiver DEF Receivers
<1> QED BY <1>4, <1>5, <1>6, <1>7, InvPartsPrime DEF SlotInv

LEMMA SessionSendComplete ==
    ASSUME SessionInv, TypeInv', NEW s \in Slots, SendComplete(s)
    PROVE  SessionInv'
<1>1. TypeInv /\ SlotInv /\ SenderOK /\ ReceiverOK /\ Acceptor \in Threads
  BY InvParts, ThreadKinds
<1>2. UNCHANGED <<pc, slot>> /\ OnlyThread(Acceptor)
  BY DEF SendComplete, OnlyThread
<1>3. \A u \in Slots : /\ InFlight(u)' = InFlight(u) /\ InFlight(u) \in Nat
                       /\ recvOv'[u] = "idle" <=> recvOv[u] = "idle"
                       /\ sendOv'[u] = "idle" <=> sendOv[u] = "idle"
  BY <1>1 DEF SendComplete, InFlight, Busy, TypeInv, TypeOK, PortTypeOK
<1>4. RefCountExact'
  <2>1. \A u \in Slots : /\ Share(Acceptor, u) \in Nat
                         /\ Share(Acceptor, u)' = Share(Acceptor, u)
    BY <1>2 DEF Share, Weight, One
  <2>2. ioCount' = ioCount /\ \A u \in Slots : ioCount[u] \in Int
    BY <1>1 DEF SendComplete, TypeInv, TypeOK, SessionTypeOK
  <2> QED BY <1>1, <1>2, <1>3, <2>1, <2>2, CountStep DEF SlotInv
<1>5. IdentityOK' /\ ReachOK' /\ HoldOK' /\ OwnerOK'
  <2>1. UNCHANGED <<sessionID, socket, releaseFlag, relSocket, tableVars, relJobs>>
    BY DEF SendComplete
  <2>2. \A u \in Slots : /\ relJobs'[u] > 0 => Reached(u)
                         /\ InFlight(u)' > 0 => Held(u)
    BY <1>1, <1>3, <2>1 DEF SlotInv, ReachOK, HoldOK
  <2> QED BY <1>1, <1>2, <2>1, <2>2, PlainStep DEF SlotInv
<1>6. SenderOK'
  BY <1>1, <1>2, <1>3, SameSender DEF SendComplete, Senders
<1>7. ReceiverOK'
  BY <1>1, <1>2, <1>3, SameReceiver DEF Receivers
<1> QED BY <1>4, <1>5, <1>6, <1>7, InvPartsPrime DEF SlotInv

LEMMA SessionTakeRecv ==
    ASSUME SessionInv, TypeInv', NEW w \in Workers, NEW s \in Slots, TakeRecv(w, s)
    PROVE  SessionInv'
<1>1. TypeInv /\ SlotInv /\ SenderOK /\ ReceiverOK /\ w \in Threads
  BY InvParts, ThreadKinds
<1>2. Reached(s) /\ Held(s)
  BY <1>1, HeldIsReached
     DEF TakeRecv, SlotInv, ReachOK, HoldOK, InFlight, Busy, TypeInv, TypeOK,
         PortTypeOK
<1>3. /\ OnlyThread(w) /\ slot'[w] = s /\ pc[w] = "Gqcs"
      /\ pc'[w] \in {"Parse", "Dec"}
  BY <1>1 DEF OnlyThread, TakeRecv, Dispatch, TypeInv, TypeOK, ThreadTypeOK
<1>4. Weight(w) = 0 /\ Weight(w)' = 1
  BY <1>3 DEF Weight, One
<1>5. SlotInv'
  <2>1. /\ UNCHANGED <<sessionID, socket, releaseFlag, relSocket, ioCount, tableVars>>
        /\ \A u \in Slots : relJobs'[u] > 0 => relJobs[u] > 0
        /\ \A u \in Slots \ {s} : InFlight(u)' = InFlight(u)
        /\ InFlight(s) = InFlight(s)' + 1
    BY <1>1 DEF TakeRecv, Dispatch, InFlight, Busy, TypeInv, TypeOK, PortTypeOK
  <2>2. pc[w] \notin OwnerPcs /\ pc'[w] \notin OwnerPcs \cup {"AcPop"}
    BY <1>3 DEF OwnerPcs
  <2>3. Guarded(w)' => Held(s)
    BY <1>2, <1>3 DEF Guarded
  <2> QED BY <1>1, <1>2, <1>3, <1>4, <2>1, <2>2, <2>3, ArriveStep
<1>6. SenderOK'
  <2>1. \A u \in Slots : Senders(u)' \subseteq Senders(u)
    BY <1>1, <1>3, ThreadKinds DEF Senders, OnlyThread
  <2> QED BY <1>1, <2>1, SameSender DEF TakeRecv, Dispatch
<1>7. ReceiverOK'
  <2>1. Receivers(s) = {}
    BY <1>1 DEF ReceiverOK, TakeRecv
  <2>2. /\ Receivers(s)' \subseteq {w}
        /\ \A u \in Slots \ {s} : Receivers(u)' \subseteq Receivers(u)
    BY <1>1, <1>3, <2>1, ThreadKinds DEF Receivers, OnlyThread
  <2>3. recvOv'[s] = "idle" /\ \A u \in Slots \ {s} : recvOv'[u] = recvOv[u]
    BY <1>1 DEF TakeRecv, TypeInv, TypeOK, PortTypeOK
  <2> QED BY <1>1, <2>2, <2>3 DEF ReceiverOK
<1> QED BY <1>5, <1>6, <1>7, InvPartsPrime

LEMMA SessionTakeSend ==
    ASSUME SessionInv, TypeInv', NEW w \in Workers, NEW s \in Slots, TakeSend(w, s)
    PROVE  SessionInv'
<1>1. TypeInv /\ SlotInv /\ SenderOK /\ ReceiverOK /\ w \in Threads
  BY InvParts, ThreadKinds
<1>2. Reached(s) /\ Held(s)
  BY <1>1, HeldIsReached
     DEF TakeSend, SlotInv, ReachOK, HoldOK, InFlight, Busy, TypeInv, TypeOK,
         PortTypeOK
<1>3. /\ OnlyThread(w) /\ slot'[w] = s /\ pc[w] = "Gqcs"
      /\ pc'[w] \in {"SendFree", "Dec"}
  BY <1>1 DEF OnlyThread, TakeSend, Dispatch, TypeInv, TypeOK, ThreadTypeOK
<1>4. Weight(w) = 0 /\ Weight(w)' = 1
  BY <1>3 DEF Weight, One
<1>5. SlotInv'
  <2>1. /\ UNCHANGED <<sessionID, socket, releaseFlag, relSocket, ioCount, tableVars>>
        /\ \A u \in Slots : relJobs'[u] > 0 => relJobs[u] > 0
        /\ \A u \in Slots \ {s} : InFlight(u)' = InFlight(u)
        /\ InFlight(s) = InFlight(s)' + 1
    BY <1>1 DEF TakeSend, Dispatch, InFlight, Busy, TypeInv, TypeOK, PortTypeOK
  <2>2. pc[w] \notin OwnerPcs /\ pc'[w] \notin OwnerPcs \cup {"AcPop"}
    BY <1>3 DEF OwnerPcs
  <2>3. Guarded(w)' => Held(s)
    BY <1>2, <1>3 DEF Guarded
  <2> QED BY <1>1, <1>2, <1>3, <1>4, <2>1, <2>2, <2>3, ArriveStep
<1>6. SenderOK'
  <2>1. Senders(s) = {} /\ sendFlag[s] = 1
    BY <1>1 DEF SenderOK, TakeSend
  <2>2. /\ Senders(s)' \subseteq {w}
        /\ \A u \in Slots \ {s} : Senders(u)' \subseteq Senders(u)
    BY <1>1, <1>3, <2>1, ThreadKinds DEF Senders, OnlyThread
  <2>3. /\ sendFlag' = sendFlag /\ sendOv'[s] = "idle"
        /\ \A u \in Slots \ {s} : sendOv'[u] = "idle" <=> sendOv[u] = "idle"
    BY <1>1 DEF TakeSend, Dispatch, TypeInv, TypeOK, PortTypeOK
  <2> QED BY <1>1, <2>1, <2>2, <2>3, SenderEnters
<1>7. ReceiverOK'
  <2>1. \A u \in Slots : Receivers(u)' \subseteq Receivers(u)
    BY <1>1, <1>3, ThreadKinds DEF Receivers, OnlyThread
  <2> QED BY <1>1, <2>1, SameReceiver DEF TakeSend
<1> QED BY <1>5, <1>6, <1>7, InvPartsPrime

LEMMA SessionTakeSendPost ==
    ASSUME SessionInv, TypeInv', NEW w \in Workers, NEW s \in Slots, TakeSendPost(w, s)
    PROVE  SessionInv'
<1>1. TypeInv /\ SlotInv /\ SenderOK /\ ReceiverOK /\ w \in Threads
  BY InvParts, ThreadKinds
<1>2. Reached(s) /\ Held(s)
  BY <1>1, HeldIsReached
     DEF TakeSendPost, SlotInv, ReachOK, HoldOK, InFlight, Busy, TypeInv,
         TypeOK, PortTypeOK
<1>3. /\ OnlyThread(w) /\ slot'[w] = s /\ pc[w] = "Gqcs"
      /\ pc'[w] \in {"SpSize", "Dec"}
  BY <1>1 DEF OnlyThread, TakeSendPost, Dispatch, TypeInv, TypeOK, ThreadTypeOK
<1>4. Weight(w) = 0 /\ Weight(w)' = 1
  BY <1>3 DEF Weight, One
<1>5. SlotInv'
  <2>1. /\ UNCHANGED <<sessionID, socket, releaseFlag, relSocket, ioCount, tableVars>>
        /\ \A u \in Slots : relJobs'[u] > 0 => relJobs[u] > 0
        /\ \A u \in Slots \ {s} : InFlight(u)' = InFlight(u)
        /\ InFlight(s) = InFlight(s)' + 1
    BY <1>1
       DEF TakeSendPost, Dispatch, InFlight, Busy, TypeInv, TypeOK, PortTypeOK
  <2>2. pc[w] \notin OwnerPcs /\ pc'[w] \notin OwnerPcs \cup {"AcPop"}
    BY <1>3 DEF OwnerPcs
  <2>3. Guarded(w)' => Held(s)
    BY <1>2, <1>3 DEF Guarded
  <2> QED BY <1>1, <1>2, <1>3, <1>4, <2>1, <2>2, <2>3, ArriveStep
<1>6. SenderOK'
  <2>1. \A u \in Slots : Senders(u)' \subseteq Senders(u)
    BY <1>1, <1>3, ThreadKinds DEF Senders, OnlyThread
  <2> QED BY <1>1, <2>1, SameSender DEF TakeSendPost, Dispatch
<1>7. ReceiverOK'
  <2>1. \A u \in Slots : Receivers(u)' \subseteq Receivers(u)
    BY <1>1, <1>3, ThreadKinds DEF Receivers, OnlyThread
  <2> QED BY <1>1, <2>1, SameReceiver DEF TakeSendPost
<1> QED BY <1>5, <1>6, <1>7, InvPartsPrime

LEMMA SessionTakeRelease ==
    ASSUME SessionInv, TypeInv', NEW w \in Workers, NEW s \in Slots, TakeRelease(w, s)
    PROVE  SessionInv'
<1>1. TypeInv /\ SlotInv /\ SenderOK /\ ReceiverOK /\ w \in Threads
  BY InvParts, ThreadKinds
<1>2. Reached(s)
  BY <1>1, HeldIsReached
     DEF TakeRelease, SlotInv, ReachOK, HoldOK, InFlight, Busy, TypeInv,
         TypeOK, PortTypeOK
<1>3. /\ OnlyThread(w) /\ slot'[w] = s /\ pc[w] = "Gqcs"
      /\ pc'[w] \in {"RelCas"}
  <2>1. socket[s] # INVALID_SOCKET
    BY <1>1, <1>2 DEF SlotInv, IdentityOK, Reached, INVALID_SOCKET
  <2> QED
    BY <1>1, <2>1
       DEF OnlyThread, TakeRelease, Dispatch, TypeInv, TypeOK, ThreadTypeOK
<1>4. Weight(w) = 0 /\ Weight(w)' = 0
  BY <1>3 DEF Weight, One
<1>5. SlotInv'
  <2>1. /\ UNCHANGED <<sessionID, socket, releaseFlag, relSocket, ioCount, tableVars>>
        /\ \A u \in Slots : relJobs'[u] > 0 => relJobs[u] > 0
        /\ \A u \in Slots \ {s} : InFlight(u)' = InFlight(u)
        /\ InFlight(s) = InFlight(s)' + 0
    BY <1>1
       DEF TakeRelease, Dispatch, InFlight, Busy, TypeInv, TypeOK, PortTypeOK
  <2>2. pc[w] \notin OwnerPcs /\ pc'[w] \notin OwnerPcs \cup {"AcPop"}
    BY <1>3 DEF OwnerPcs
  <2>3. Guarded(w)' => Held(s)
    BY <1>2, <1>3 DEF Guarded
  <2> QED BY <1>1, <1>2, <1>3, <1>4, <2>1, <2>2, <2>3, ArriveStep
<1>6. SenderOK'
  <2>1. \A u \in Slots : Senders(u)' \subseteq Senders(u)
    BY <1>1, <1>3, ThreadKinds DEF Senders, OnlyThread
  <2> QED BY <1>1, <2>1, SameSender DEF TakeRelease, Dispatch
<1>7. ReceiverOK'
  <2>1. \A u \in Slots : Receivers(u)' \subseteq Receivers(u)
    BY <1>1, <1>3, ThreadKinds DEF Receivers, OnlyThread
  <2> QED BY <1>1, <2>1, SameReceiver DEF TakeRelease
<1> QED BY <1>5, <1>6, <1>7, InvPartsPrime

LEMMA SessionDec ==
    ASSUME SessionInv, TypeInv', NEW w \in Workers, Dec(w)
    PROVE  SessionInv'
<1>1. TypeInv /\ SlotInv /\ SenderOK /\ ReceiverOK /\ w \in Threads /\ slot[w] \in Slots
  BY InvParts, ThreadKinds DEF TypeInv, PlaceOK, Dec
<1>s. PICK s \in Slots : slot[w] = s
  BY <1>1
<1>2. /\ OnlyThread(w) /\ pc[w] = "Dec"
      /\ \/ slot'[w] = s /\ pc'[w] = "RelCas"
         \/ slot'[w] = NoSlot /\ pc'[w] = "Gqcs"
  BY <1>1, <1>s, IdleKinds
     DEF OnlyThread, Dec, Finish, TypeInv, TypeOK, ThreadTypeOK
<1>3. Weight(w) = 1 /\ Weight(w)' = 0
  BY <1>2 DEF Weight, One
<1>4. SlotInv'
  <2>1. Held(s) /\ Reached(s)
    BY <1>s, <1>1, <1>2, WorkerHolds DEF SlotInv
  <2>2. pc[w] \notin OwnerPcs /\ pc'[w] \notin OwnerPcs \cup {"AcPop"}
    BY <1>2 DEF OwnerPcs
  <2>3. /\ UNCHANGED <<sessionID, socket, releaseFlag, relSocket, tableVars>>
        /\ OnlySlot(s)
        /\ ioCount'[s] = ioCount[s] - 1 + 0 - InFlight(s) + InFlight(s)'
    BY <1>s, <1>1
       DEF Dec, DropRef, InFlight, Busy, TypeInv, TypeOK, SessionTypeOK,
           PortTypeOK
  <2> QED BY <1>s, <1>1, <1>2, <1>3, <2>1, <2>2, <2>3, StayStep
<1>5. SenderOK'
  <2>1. \A u \in Slots : Senders(u)' \subseteq Senders(u)
    BY <1>1, <1>2, ThreadKinds DEF Senders, OnlyThread
  <2> QED BY <1>1, <2>1, SameSender DEF Dec
<1>6. ReceiverOK'
  <2>1. \A u \in Slots : Receivers(u)' \subseteq Receivers(u)
    BY <1>1, <1>2, ThreadKinds DEF Receivers, OnlyThread
  <2> QED BY <1>1, <2>1, SameReceiver DEF Dec
<1> QED BY <1>4, <1>5, <1>6, InvPartsPrime

LEMMA SessionApiCall ==
    ASSUME SessionInv, TypeInv', NEW t \in ApiThreads, ApiCall(t)
    PROVE  SessionInv'
<1>1. /\ TypeInv
      /\ SlotInv /\ SenderOK /\ ReceiverOK
      /\ t \in Threads /\ t # Acceptor /\ t \notin Workers
  BY InvParts, ThreadKinds
<1>s. PICK i \in characterMap : slot' = [slot EXCEPT ![t] = i.idx]
  BY DEF ApiCall
<1>2. i.idx \in Slots /\ Reached(i.idx)
  BY <1>1 DEF TypeInv, TypeOK, TableTypeOK, SessionIDs, SlotInv, ReachOK
<1>3. /\ OnlyThread(t) /\ slot'[t] = i.idx /\ pc[t] = "ApiIdle" /\ pc'[t] = "Enter"
  BY <1>1, <1>s DEF OnlyThread, ApiCall, Call, TypeInv, TypeOK, ThreadTypeOK
<1>4. Weight(t) = 0 /\ Weight(t)' = 0
  BY <1>1, <1>3 DEF Weight, One
<1>5. SlotInv'
  <2>1. /\ UNCHANGED <<sessionID, socket, releaseFlag, relSocket, ioCount,
                       tableVars, relJobs>>
        /\ \A u \in Slots : InFlight(u)' = InFlight(u) /\ InFlight(u) \in Nat
    BY <1>1 DEF ApiCall, InFlight, Busy, TypeInv, TypeOK, PortTypeOK
  <2>2. pc[t] \notin OwnerPcs /\ pc'[t] \notin OwnerPcs \cup {"AcPop"}
    BY <1>3 DEF OwnerPcs
  <2>3. ~Guarded(t)'
    BY <1>1, <1>3 DEF Guarded
  <2> QED BY <1>1, <1>2, <1>3, <1>4, <2>1, <2>2, <2>3, ArriveStep
<1>6. SenderOK'
  <2>1. \A u \in Slots : Senders(u)' \subseteq Senders(u)
    BY <1>1, <1>3, ThreadKinds DEF Senders, OnlyThread
  <2> QED BY <1>1, <2>1, SameSender DEF ApiCall
<1>7. ReceiverOK'
  <2>1. \A u \in Slots : Receivers(u)' \subseteq Receivers(u)
    BY <1>1, <1>3, ThreadKinds DEF Receivers, OnlyThread
  <2> QED BY <1>1, <2>1, SameReceiver DEF ApiCall
<1> QED BY <1>5, <1>6, <1>7, InvPartsPrime

(* An exact count of 0 means that no thread and no posted entry relies on   *)
(* the slot: whoever releases it is alone with it.                          *)
LEMMA NobodyInside ==
    ASSUME TypeInv, RefCountExact, NEW s \in Slots, ioCount[s] = 0
    PROVE  /\ InFlight(s) = 0
           /\ \A u \in Threads : slot[u] = s => ~Guarded(u)
<1>1. InFlight(s) \in Nat
  BY InFlightType DEF TypeInv, TypeOK
<1>2. /\ Cardinality(BaseRefs(s)) \in Nat
      /\ Cardinality(CallRefs(s)) \in Nat
      /\ Cardinality(IoRefs(s)) \in Nat
  BY RefsFinite, FS_CardinalityType
<1>3. ioCount[s] = Cardinality(BaseRefs(s)) + Cardinality(CallRefs(s))
                   + Cardinality(IoRefs(s)) + InFlight(s)
  BY DEF RefCountExact
<1>4. InFlight(s) = 0 /\ Cardinality(BaseRefs(s)) = 0 /\ Cardinality(CallRefs(s)) = 0
  BY <1>1, <1>2, <1>3
<1>5. BaseRefs(s) = {} /\ CallRefs(s) = {}
  BY <1>4, RefsFinite, FS_EmptySet
<1>6. ASSUME NEW u \in Threads, slot[u] = s, Guarded(u) PROVE FALSE
  <2>1. pc[u] \in CallPcs => u \in CallRefs(s)
    BY <1>6 DEF CallRefs
  <2>2. pc[u] \in {"AcJoin", "AcRecv", "Stranded"} => u = Acceptor
    BY <1>6 DEF TypeInv, PlaceOK
  <2>3. u \in Workers /\ pc[u] \in BasePcs => u \in BaseRefs(s)
    BY <1>6 DEF BaseRefs
  <2>4. u = Acceptor /\ pc[u] \in AcceptRefPcs => u \in BaseRefs(s)
    BY <1>6 DEF BaseRefs
  <2> QED BY <1>5, <1>6, <2>1, <2>2, <2>3, <2>4 DEF Guarded
<1> QED BY <1>4, <1>6

(* ReleaseSession: from the compare-and-exchange to the push, the releasing *)
(* thread owns the slot                                                     *)
LEMMA SessionRelCas ==
    ASSUME SessionInv, TypeInv', NEW t \in Workers \cup {Acceptor}, RelCas(t)
    PROVE  SessionInv'
<1>1. /\ TypeInv /\ SlotInv /\ SenderOK /\ ReceiverOK
      /\ t \in Threads /\ t \notin ApiThreads /\ slot[t] \in Slots
  BY InvParts, ThreadKinds, ThreadAssumption DEF TypeInv, PlaceOK, RelCas
<1>s. PICK s \in Slots : slot[t] = s
  BY <1>1
<1>2. /\ OnlyThread(t) /\ pc[t] = "RelCas"
      /\ \/ MayRelease(s) /\ slot'[t] = s /\ pc'[t] = "RelDrain"
         \/ ~MayRelease(s) /\ slot'[t] = NoSlot /\ pc'[t] \in {"Gqcs", "AcAccept"}
  BY <1>1, <1>s, IdleKinds
     DEF OnlyThread, RelCas, Finish, TypeInv, TypeOK, ThreadTypeOK
<1>3. Weight(t) = 0 /\ Weight(t)' = 0
  BY <1>2 DEF Weight, One
<1>4. /\ UNCHANGED <<sessionID, socket, relSocket, ioCount, relJobs, tableVars>>
      /\ \A u \in Slots : /\ InFlight(u)' = InFlight(u)
                         /\ InFlight(u) \in Nat /\ ioCount[u] \in Int
  BY <1>1
     DEF RelCas, InFlight, Busy, TypeInv, TypeOK, PortTypeOK, SessionTypeOK
<1>5. Reached(s)
  <2>1. ~(t = Acceptor /\ Preparing(s))
    BY <1>2 DEF Preparing
  <2> QED BY <1>1, <1>s, <2>1 DEF SlotInv, ReachOK
<1>6. ASSUME ~MayRelease(s) PROVE SlotInv'
  <2>1. UNCHANGED releaseFlag
    BY <1>s, <1>6 DEF RelCas
  <2>2. pc[t] \notin OwnerPcs /\ pc'[t] \notin OwnerPcs \cup {"AcPop"}
    BY <1>2, <1>6 DEF OwnerPcs
  <2>3. slot'[t] # s /\ slot'[t] = NoSlot
    BY <1>2, <1>6, SlotAssumption
  <2>4. InFlight(s)' > 0 => Held(s)
    BY <1>1, <1>4 DEF SlotInv, HoldOK
  <2> QED
    BY <1>1, <1>s, <1>2, <1>3, <1>4, <1>5, <2>1, <2>2, <2>3, <2>4, StayStep
<1>7. ASSUME MayRelease(s) PROVE SlotInv'
  <2>1. /\ releaseFlag' = [releaseFlag EXCEPT ![s] = 1]
        /\ releaseFlag[s] = 0 /\ ioCount[s] = 0
        /\ slot'[t] = s /\ pc'[t] = "RelDrain"
    BY <1>s, <1>2, <1>7 DEF RelCas, MayRelease
  <2>2. InFlight(s) = 0 /\ \A u \in Threads : slot[u] = s => ~Guarded(u)
    BY <1>1, <2>1, NobodyInside DEF SlotInv
  <2>3. Held(s) /\ Live(s)
    BY <1>1, <1>5, <2>1 DEF Reached, Held, SlotInv, OwnerOK
  <2>4. RefCountExact'
    <3>1. \A u \in Slots : Share(t, u) = 0 /\ Share(t, u)' = 0
      BY <1>3 DEF Share
    <3> QED BY <1>1, <1>2, <1>4, <3>1, CountStep DEF SlotInv
  <2>5. \A u \in Slots : Preparing(u)' <=> Preparing(u)
    BY <1>1, <1>2, <2>1, ThreadKinds DEF Preparing, OnlyThread
  <2>6. \A u \in Slots : releaseFlag'[u] = IF u = s THEN 1 ELSE releaseFlag[u]
    BY <1>1, <2>1 DEF TypeInv, TypeOK, SessionTypeOK
  <2>7. \A u \in Slots : Reached(u) => Reached(u)'
    BY <1>4, <2>5, <2>6 DEF Reached
  <2>8. \A u \in Slots \ {s} : Held(u)' <=> Held(u)
    BY <1>4, <2>5, <2>6 DEF Held
  <2>9. IdentityOK'
    BY <1>1, <1>2, <1>4, <2>1, ThreadKinds DEF SlotInv, IdentityOK, OnlyThread
  <2>10. ReachOK'
    <3>1. \A i \in characterMap : i.idx \in Slots
      BY <1>1 DEF TypeInv, TypeOK, TableTypeOK, SessionIDs
    <3> QED
      BY <1>1, <1>2, <1>4, <1>5, <2>1, <2>5, <2>7, <3>1
         DEF SlotInv, ReachOK, OnlyThread
  <2>11. HoldOK'
    <3>1. \A u \in Threads \ {t} : Guarded(u)' <=> Guarded(u)
      BY <1>2 DEF Guarded, OnlyThread
    <3>2. ~Guarded(t)'
      BY <2>1 DEF Guarded
    <3> QED
      BY <1>1, <1>2, <1>4, <2>2, <2>8, <3>1, <3>2
         DEF SlotInv, HoldOK, OnlyThread
  <2>12. OwnerOK'
    <3>1. Releasing(s) = {} /\ ~Preparing(s)
      BY <1>1, <2>1, <2>3 DEF SlotInv, OwnerOK, Held
    <3>2. Releasing(s)' = {t}
      BY <1>1, <1>2, <2>1, <3>1 DEF Releasing, OnlyThread
    <3>3. \A u \in Slots \ {s} : Releasing(u)' = Releasing(u)
      BY <1>1, <1>s, <1>2, <2>1 DEF Releasing, OnlyThread
    <3>4. \A u \in Slots : Preparing(u) => pc'[Acceptor] = pc[Acceptor]
      BY <1>1, <1>2, ThreadKinds DEF Preparing, OnlyThread
    <3>5. \A u \in Slots \ {s} : Live(u)' <=> Live(u)
      BY <1>4, <2>6 DEF Live
    <3>6. freeStack' = freeStack /\ freeStack[s] = 0
      BY <1>4, <2>3 DEF Live
    <3> QED
      BY <1>1, <1>4, <2>5, <2>6, <3>1, <3>2, <3>3, <3>4, <3>5, <3>6
         DEF SlotInv, OwnerOK
  <2> QED BY <2>4, <2>9, <2>10, <2>11, <2>12 DEF SlotInv
<1>8. SenderOK'
  <2>1. \A u \in Slots : Senders(u)' \subseteq Senders(u)
    BY <1>1, <1>2, ThreadKinds DEF Senders, OnlyThread
  <2> QED BY <1>1, <2>1, SameSender DEF RelCas
<1>9. ReceiverOK'
  <2>1. \A u \in Slots : Receivers(u)' \subseteq Receivers(u)
    BY <1>1, <1>2, ThreadKinds DEF Receivers, OnlyThread
  <2> QED BY <1>1, <2>1, SameReceiver DEF RelCas
<1> QED BY <1>6, <1>7, <1>8, <1>9, InvPartsPrime

LEMMA SessionRelDrain ==
    ASSUME SessionInv, TypeInv', NEW t \in Workers \cup {Acceptor}, RelDrain(t)
    PROVE  SessionInv'
<1>1. /\ TypeInv /\ SlotInv /\ SenderOK /\ ReceiverOK
      /\ t \in Threads /\ t \notin ApiThreads /\ slot[t] \in Slots
  BY InvParts, ThreadKinds, ThreadAssumption DEF TypeInv, PlaceOK, RelDrain
<1>s. PICK s \in Slots : slot[t] = s
  BY <1>1
<1>2. /\ OnlyThread(t) /\ pc[t] = "RelDrain" /\ slot'[t] = s /\ pc'[t] = "RelLeave"
  BY <1>1, <1>s DEF OnlyThread, RelDrain, TypeInv, TypeOK, ThreadTypeOK
<1>3. Weight(t) = 0 /\ Weight(t)' = 0
  BY <1>2 DEF Weight, One
<1>4. /\ t \in Releasing(s)
      /\ releaseFlag[s] = 1 /\ freeStack[s] = 0 /\ ~Preparing(s)
      /\ \A u \in Releasing(s) : u = t
  <2>1. t \in Releasing(s)
    BY <1>1, <1>s, <1>2 DEF Releasing
  <2> QED BY <1>1, <2>1 DEF SlotInv, OwnerOK
<1>5. /\ UNCHANGED <<sessionID, socket, ioCount, releaseFlag, relJobs,
                     freeStack, sessionCnt, characterMap>>
      /\ \A u \in Slots \ {s} : relSocket'[u] = relSocket[u]
      /\ \A u \in Slots : /\ InFlight(u)' = InFlight(u)
                         /\ InFlight(u) \in Nat /\ ioCount[u] \in Int
  BY <1>1, <1>s
     DEF RelDrain, InFlight, Busy, TypeInv, TypeOK, PortTypeOK, SessionTypeOK,
         TableTypeOK
<1>6. SlotInv'
  <2>1. RefCountExact'
    <3>1. \A u \in Slots : Share(t, u) = 0 /\ Share(t, u)' = 0
      BY <1>3 DEF Share
    <3> QED BY <1>1, <1>2, <1>5, <3>1, CountStep DEF SlotInv
  <2>2. \A u \in Slots : Preparing(u)' <=> Preparing(u)
    BY <1>1, <1>2, ThreadKinds DEF Preparing, OnlyThread
  <2>3. \A u \in Slots : (Reached(u)' <=> Reached(u)) /\ (Held(u)' <=> Held(u))
    BY <1>5, <2>2 DEF Reached, Held
  <2>4. IdentityOK'
    BY <1>1, <1>2, <1>5, ThreadKinds DEF SlotInv, IdentityOK, OnlyThread
  <2>5. ReachOK'
    <3>1. \A i \in characterMap : i.idx \in Slots
      BY <1>1 DEF TypeInv, TypeOK, TableTypeOK, SessionIDs
    <3>2. slot'[t] \in Slots => slot'[t] = s /\ Reached(s)
      BY <1>1, <1>s, <1>2, <1>4, SlotAssumption DEF SlotInv, ReachOK
    <3> QED
      BY <1>1, <1>2, <1>5, <2>2, <2>3, <3>1, <3>2
         DEF SlotInv, ReachOK, OnlyThread
  <2>6. HoldOK'
    <3>1. \A u \in Threads \ {t} : Guarded(u)' <=> Guarded(u)
      BY <1>2 DEF Guarded, OnlyThread
    <3>2. ~Guarded(t)'
      BY <1>2 DEF Guarded
    <3> QED
      BY <1>1, <1>2, <1>5, <2>3, <3>1, <3>2
         DEF SlotInv, HoldOK, OnlyThread
  <2>7. OwnerOK'
    <3>1. \A u \in Slots : Releasing(u)' = Releasing(u)
      BY <1>1, <1>s, <1>2 DEF Releasing, OnlyThread
    <3>2. \A u \in Slots : Preparing(u) => pc'[Acceptor] = pc[Acceptor]
      BY <1>1, <1>2, ThreadKinds DEF Preparing, OnlyThread
    <3>3. \A u \in Slots \ {s} : Live(u)' <=> Live(u)
      BY <1>5 DEF Live
    <3> QED BY <1>1, <1>4, <1>5, <2>2, <3>1, <3>2, <3>3 DEF SlotInv, OwnerOK
  <2> QED BY <2>1, <2>4, <2>5, <2>6, <2>7 DEF SlotInv
<1>8. SenderOK'
  <2>1. \A u \in Slots : Senders(u)' \subseteq Senders(u)
    BY <1>1, <1>2, ThreadKinds DEF Senders, OnlyThread
  <2> QED BY <1>1, <2>1, SameSender DEF RelDrain
<1>9. ReceiverOK'
  <2>1. \A u \in Slots : Receivers(u)' \subseteq Receivers(u)
    BY <1>1, <1>2, ThreadKinds DEF Receivers, OnlyThread
  <2> QED BY <1>1, <2>1, SameReceiver DEF RelDrain
<1> QED BY <1>6, <1>8, <1>9, InvPartsPrime

LEMMA SessionRelLeave ==
    ASSUME SessionInv, TypeInv', NEW t \in Workers \cup {Acceptor}, RelLeave(t)
    PROVE  SessionInv'
<1>1. /\ TypeInv /\ SlotInv /\ SenderOK /\ ReceiverOK
      /\ t \in Threads /\ t \notin ApiThreads /\ slot[t] \in Slots
  BY InvParts, ThreadKinds, ThreadAssumption DEF TypeInv, PlaceOK, RelLeave
<1>s. PICK s \in Slots : slot[t] = s
  BY <1>1
<1>2. /\ OnlyThread(t) /\ pc[t] = "RelLeave" /\ slot'[t] = s /\ pc'[t] = "RelPush"
  BY <1>1, <1>s DEF OnlyThread, RelLeave, TypeInv, TypeOK, ThreadTypeOK
<1>3. Weight(t) = 0 /\ Weight(t)' = 0
  BY <1>2 DEF Weight, One
<1>4. /\ t \in Releasing(s)
      /\ releaseFlag[s] = 1 /\ freeStack[s] = 0 /\ ~Preparing(s)
      /\ \A u \in Releasing(s) : u = t
  <2>1. t \in Releasing(s)
    BY <1>1, <1>s, <1>2 DEF Releasing
  <2> QED BY <1>1, <2>1 DEF SlotInv, OwnerOK
<1>5. /\ UNCHANGED <<sessionID, socket, ioCount, releaseFlag, relSocket,
                     relJobs, freeStack, sessionCnt>>
      /\ characterMap' \subseteq characterMap
      /\ \A u \in Slots : /\ InFlight(u)' = InFlight(u)
                         /\ InFlight(u) \in Nat /\ ioCount[u] \in Int
  BY <1>1, <1>s
     DEF RelLeave, InFlight, Busy, TypeInv, TypeOK, PortTypeOK, SessionTypeOK,
         TableTypeOK
<1>6. SlotInv'
  <2>1. RefCountExact'
    <3>1. \A u \in Slots : Share(t, u) = 0 /\ Share(t, u)' = 0
      BY <1>3 DEF Share
    <3> QED BY <1>1, <1>2, <1>5, <3>1, CountStep DEF SlotInv
  <2>2. \A u \in Slots : Preparing(u)' <=> Preparing(u)
    BY <1>1, <1>2, ThreadKinds DEF Preparing, OnlyThread
  <2>3. \A u \in Slots : (Reached(u)' <=> Reached(u)) /\ (Held(u)' <=> Held(u))
    BY <1>5, <2>2 DEF Reached, Held
  <2>4. IdentityOK'
    BY <1>1, <1>2, <1>5, ThreadKinds DEF SlotInv, IdentityOK, OnlyThread
  <2>5. ReachOK'
    <3>1. \A i \in characterMap : i.idx \in Slots
      BY <1>1 DEF TypeInv, TypeOK, TableTypeOK, SessionIDs
    <3>2. slot'[t] \in Slots => slot'[t] = s /\ Reached(s)
      BY <1>1, <1>s, <1>2, <1>4, SlotAssumption DEF SlotInv, ReachOK
    <3> QED
      BY <1>1, <1>2, <1>5, <2>2, <2>3, <3>1, <3>2
         DEF SlotInv, ReachOK, OnlyThread
  <2>6. HoldOK'
    <3>1. \A u \in Threads \ {t} : Guarded(u)' <=> Guarded(u)
      BY <1>2 DEF Guarded, OnlyThread
    <3>2. ~Guarded(t)'
      BY <1>2 DEF Guarded
    <3> QED
      BY <1>1, <1>2, <1>5, <2>3, <3>1, <3>2
         DEF SlotInv, HoldOK, OnlyThread
  <2>7. OwnerOK'
    <3>1. \A u \in Slots : Releasing(u)' = Releasing(u)
      BY <1>1, <1>s, <1>2 DEF Releasing, OnlyThread
    <3>2. \A u \in Slots : Preparing(u) => pc'[Acceptor] = pc[Acceptor]
      BY <1>1, <1>2, ThreadKinds DEF Preparing, OnlyThread
    <3>3. \A u \in Slots : Live(u)' <=> Live(u)
      BY <1>5 DEF Live
    <3> QED BY <1>1, <1>5, <2>2, <3>1, <3>2, <3>3 DEF SlotInv, OwnerOK
  <2> QED BY <2>1, <2>4, <2>5, <2>6, <2>7 DEF SlotInv
<1>8. SenderOK'
  <2>1. \A u \in Slots : Senders(u)' \subseteq Senders(u)
    BY <1>1, <1>2, ThreadKinds DEF Senders, OnlyThread
  <2> QED BY <1>1, <2>1, SameSender DEF RelLeave
<1>9. ReceiverOK'
  <2>1. \A u \in Slots : Receivers(u)' \subseteq Receivers(u)
    BY <1>1, <1>2, ThreadKinds DEF Receivers, OnlyThread
  <2> QED BY <1>1, <2>1, SameReceiver DEF RelLeave
<1> QED BY <1>6, <1>8, <1>9, InvPartsPrime

LEMMA SessionRelPush ==
    ASSUME SessionInv, TypeInv', NEW t \in Workers \cup {Acceptor}, RelPush(t)
    PROVE  SessionInv'
<1>1. /\ TypeInv /\ SlotInv /\ SenderOK /\ ReceiverOK
      /\ t \in Threads /\ t \notin ApiThreads /\ slot[t] \in Slots
  BY InvParts, ThreadKinds, ThreadAssumption DEF TypeInv, PlaceOK, RelPush
<1>s. PICK s \in Slots : slot[t] = s
  BY <1>1
<1>2. /\ OnlyThread(t) /\ pc[t] = "RelPush" /\ slot'[t] = NoSlot /\ pc'[t] = "RelCount"
  BY <1>1, <1>s DEF OnlyThread, RelPush, TypeInv, TypeOK, ThreadTypeOK
<1>3. Weight(t) = 0 /\ Weight(t)' = 0
  BY <1>2 DEF Weight, One
<1>4. /\ t \in Releasing(s)
      /\ releaseFlag[s] = 1 /\ freeStack[s] = 0 /\ ~Preparing(s)
      /\ \A u \in Releasing(s) : u = t
  <2>1. t \in Releasing(s)
    BY <1>1, <1>s, <1>2 DEF Releasing
  <2> QED BY <1>1, <2>1 DEF SlotInv, OwnerOK
<1>5. /\ UNCHANGED <<sessionID, socket, ioCount, releaseFlag, relSocket,
                     relJobs, sessionCnt, characterMap>>
      /\ \A u \in Slots : /\ InFlight(u)' = InFlight(u)
                         /\ InFlight(u) \in Nat /\ ioCount[u] \in Int
  BY <1>1, <1>s
     DEF RelPush, InFlight, Busy, TypeInv, TypeOK, PortTypeOK, SessionTypeOK,
         TableTypeOK
<1>6. SlotInv'
  <2>1. RefCountExact'
    <3>1. \A u \in Slots : Share(t, u) = 0 /\ Share(t, u)' = 0
      BY <1>3 DEF Share
    <3> QED BY <1>1, <1>2, <1>5, <3>1, CountStep DEF SlotInv
  <2>2. \A u \in Slots : Preparing(u)' <=> Preparing(u)
    BY <1>1, <1>2, ThreadKinds DEF Preparing, OnlyThread
  <2>3. \A u \in Slots : (Reached(u)' <=> Reached(u)) /\ (Held(u)' <=> Held(u))
    BY <1>5, <2>2 DEF Reached, Held
  <2>4. IdentityOK'
    BY <1>1, <1>2, <1>5, ThreadKinds DEF SlotInv, IdentityOK, OnlyThread
  <2>5. ReachOK'
    <3>1. \A i \in characterMap : i.idx \in Slots
      BY <1>1 DEF TypeInv, TypeOK, TableTypeOK, SessionIDs
    <3>2. slot'[t] \in Slots => slot'[t] = s /\ Reached(s)
      BY <1>1, <1>s, <1>2, <1>4, SlotAssumption DEF SlotInv, ReachOK
    <3> QED
      BY <1>1, <1>2, <1>5, <2>2, <2>3, <3>1, <3>2
         DEF SlotInv, ReachOK, OnlyThread
  <2>6. HoldOK'
    <3>1. \A u \in Threads \ {t} : Guarded(u)' <=> Guarded(u)
      BY <1>2 DEF Guarded, OnlyThread
    <3>2. ~Guarded(t)'
      BY <1>2 DEF Guarded
    <3> QED
      BY <1>1, <1>2, <1>5, <2>3, <3>1, <3>2
         DEF SlotInv, HoldOK, OnlyThread
  <2>7. OwnerOK'
    <3>1. \A u \in Slots : Releasing(u)' = Releasing(u) \ {t}
      BY <1>1, <1>s, <1>2 DEF Releasing, OnlyThread
    <3>2. \A u \in Slots : Preparing(u) => pc'[Acceptor] = pc[Acceptor]
      BY <1>1, <1>2, ThreadKinds DEF Preparing, OnlyThread
    <3>3. freeStack'[s] = 1 /\ \A u \in Slots \ {s} : freeStack'[u] = freeStack[u]
      <4>1. sessionID[s].idx = s
        BY <1>1 DEF SlotInv, IdentityOK
      <4> QED
        BY <1>1, <1>s, <1>4, <4>1
           DEF RelPush, TypeInv, TypeOK, TableTypeOK
    <3>4. \A u \in Slots \ {s} : Live(u)' <=> Live(u)
      BY <1>5, <3>3 DEF Live
    <3>5. Releasing(s)' = {}
      BY <1>4, <3>1
    <3> QED
      BY <1>1, <1>4, <1>5, <2>2, <3>1, <3>2, <3>3, <3>4, <3>5
         DEF SlotInv, OwnerOK
  <2> QED BY <2>1, <2>4, <2>5, <2>6, <2>7 DEF SlotInv
<1>8. SenderOK'
  <2>1. \A u \in Slots : Senders(u)' \subseteq Senders(u)
    BY <1>1, <1>2, ThreadKinds DEF Senders, OnlyThread
  <2> QED BY <1>1, <2>1, SameSender DEF RelPush
<1>9. ReceiverOK'
  <2>1. \A u \in Slots : Receivers(u)' \subseteq Receivers(u)
    BY <1>1, <1>2, ThreadKinds DEF Receivers, OnlyThread
  <2> QED BY <1>1, <2>1, SameReceiver DEF RelPush
<1> QED BY <1>6, <1>8, <1>9, InvPartsPrime

LEMMA SessionRelCount ==
    ASSUME SessionInv, TypeInv', NEW t \in Workers \cup {Acceptor}, RelCount(t)
    PROVE  SessionInv'
<1>1. TypeInv /\ SlotInv /\ SenderOK /\ ReceiverOK /\ t \in Threads
  BY InvParts, ThreadKinds
<1>2. /\ OnlyThread(t)
      /\ slot'[t] = slot[t] /\ pc[t] = "RelCount" /\ pc'[t] \in {"Gqcs", "AcAccept"}
  BY <1>1, IdleKinds DEF OnlyThread, RelCount, TypeInv, TypeOK, ThreadTypeOK
<1>3. Weight(t) = 0 /\ Weight(t)' = 0
  BY <1>2 DEF Weight, One
<1>4. /\ UNCHANGED <<sessionID, socket, releaseFlag, relSocket, ioCount,
                     freeStack, sessionCnt, characterMap, relJobs>>
      /\ \A u \in Slots : /\ InFlight(u)' = InFlight(u)
                         /\ InFlight(u) \in Nat /\ ioCount[u] \in Int
  BY <1>1
     DEF RelCount, InFlight, Busy, TypeInv, TypeOK, PortTypeOK, SessionTypeOK
<1>5. RefCountExact'
  <2>1. \A u \in Slots : Share(t, u) = 0 /\ Share(t, u)' = 0
    BY <1>3 DEF Share
  <2> QED BY <1>1, <1>2, <1>4, <2>1, CountStep DEF SlotInv
<1>6. IdentityOK'
  BY <1>1, <1>2, <1>4, ThreadKinds DEF SlotInv, IdentityOK, OnlyThread
<1>7. ReachOK' /\ HoldOK' /\ OwnerOK'
  <2>1. pc[t] \notin OwnerPcs /\ pc'[t] \notin OwnerPcs
    BY <1>2 DEF OwnerPcs
  <2>2. slot'[t] \in Slots => Reached(slot'[t])
    BY <1>1, <1>2 DEF SlotInv, ReachOK, Preparing
  <2>3. ~Guarded(t)'
    BY <1>2 DEF Guarded
  <2>4. \A u \in Slots : (relJobs'[u] > 0 => Reached(u)) /\ (InFlight(u)' > 0 => Held(u))
    BY <1>1, <1>4 DEF SlotInv, ReachOK, HoldOK
  <2>5. \A i \in characterMap' : Reached(i.idx)
    BY <1>1, <1>4 DEF SlotInv, ReachOK
  <2> QED
    BY <1>1, <1>2, <1>4, <2>1, <2>2, <2>3, <2>4, <2>5, OwnershipStep
       DEF SlotInv
<1>8. SenderOK'
  <2>1. \A u \in Slots : Senders(u)' \subseteq Senders(u)
    BY <1>1, <1>2, ThreadKinds DEF Senders, OnlyThread
  <2> QED BY <1>1, <2>1, SameSender DEF RelCount
<1>9. ReceiverOK'
  <2>1. \A u \in Slots : Receivers(u)' \subseteq Receivers(u)
    BY <1>1, <1>2, ThreadKinds DEF Receivers, OnlyThread
  <2> QED BY <1>1, <2>1, SameReceiver DEF RelCount
<1> QED BY <1>5, <1>6, <1>7, <1>8, <1>9, InvPartsPrime DEF SlotInv

(* AcceptThread: from the pop until releaseFlag is cleared, the accept      *)
(* thread owns the slot                                                     *)
LEMMA SessionAcAccept ==
    ASSUME SessionInv, TypeInv', AcAccept
    PROVE  SessionInv'
<1>1. /\ TypeInv /\ SlotInv /\ SenderOK /\ ReceiverOK
      /\ Acceptor \in Threads /\ Acceptor \notin Workers
  BY InvParts, ThreadKinds DEF TypeInv, PlaceOK, AcAccept
<1>2. /\ OnlyThread(Acceptor) /\ pc[Acceptor] = "AcAccept"
      /\ slot'[Acceptor] = slot[Acceptor] /\ pc'[Acceptor] \in {"AcPop"}
  BY <1>1 DEF OnlyThread, AcAccept, TypeInv, TypeOK, ThreadTypeOK
<1>3. Weight(Acceptor) = 0 /\ Weight(Acceptor)' = 0
  BY <1>1, <1>2 DEF Weight, One
<1>4. /\ UNCHANGED <<sessionID, socket, releaseFlag, relSocket, ioCount,
                     freeStack, characterMap, relJobs>>
      /\ \A u \in Slots : /\ InFlight(u)' = InFlight(u)
                         /\ InFlight(u) \in Nat /\ ioCount[u] \in Int
  BY <1>1
     DEF AcAccept, AddRef, InFlight, Busy, TypeInv, TypeOK, PortTypeOK,
         SessionTypeOK, TableTypeOK
<1>5. RefCountExact'
  <2>1. \A u \in Slots : Share(Acceptor, u) = 0 /\ Share(Acceptor, u)' = 0
    BY <1>3 DEF Share
  <2> QED BY <1>1, <1>2, <1>4, <2>1, CountStep DEF SlotInv
<1>6. IdentityOK'
  <2>1. sessionCnt' > 0
    BY <1>1, BoundAssumption
       DEF AcAccept, NextSessionCnt, TypeInv, TypeOK, TableTypeOK
  <2> QED BY <1>1, <1>4, <2>1 DEF SlotInv, IdentityOK
<1>7. ReachOK' /\ HoldOK' /\ OwnerOK'
  <2>1. pc[Acceptor] \notin OwnerPcs /\ pc'[Acceptor] \notin OwnerPcs
    BY <1>2 DEF OwnerPcs
  <2>2. slot'[Acceptor] \in Slots => Reached(slot'[Acceptor])
    BY <1>1, <1>2 DEF SlotInv, ReachOK, Preparing
  <2>3. ~Guarded(Acceptor)'
    BY <1>1, <1>2 DEF Guarded
  <2>4. \A u \in Slots : (relJobs'[u] > 0 => Reached(u)) /\ (InFlight(u)' > 0 => Held(u))
    BY <1>1, <1>4 DEF SlotInv, ReachOK, HoldOK
  <2>5. \A i \in characterMap' : Reached(i.idx)
    BY <1>1, <1>4 DEF SlotInv, ReachOK
  <2> QED
    BY <1>1, <1>2, <1>4, <2>1, <2>2, <2>3, <2>4, <2>5, OwnershipStep
       DEF SlotInv
<1>8. SenderOK'
  <2>1. \A u \in Slots : Senders(u)' \subseteq Senders(u)
    BY <1>1, <1>2, ThreadKinds DEF Senders, OnlyThread
  <2> QED BY <1>1, <2>1, SameSender DEF AcAccept
<1>9. ReceiverOK'
  <2>1. \A u \in Slots : Receivers(u)' \subseteq Receivers(u)
    BY <1>1, <1>2, ThreadKinds DEF Receivers, OnlyThread
  <2> QED BY <1>1, <2>1, SameReceiver DEF AcAccept
<1> QED BY <1>5, <1>6, <1>7, <1>8, <1>9, InvPartsPrime DEF SlotInv

LEMMA SessionAcEnd ==
    ASSUME SessionInv, TypeInv', AcEnd
    PROVE  SessionInv'
<1>1. /\ TypeInv /\ SlotInv /\ SenderOK /\ ReceiverOK
      /\ Acceptor \in Threads /\ Acceptor \notin Workers
  BY InvParts, ThreadKinds DEF TypeInv, PlaceOK, AcEnd
<1>2. /\ OnlyThread(Acceptor) /\ pc[Acceptor] = "AcAccept"
      /\ slot'[Acceptor] = slot[Acceptor] /\ pc'[Acceptor] \in {"Ended"}
  BY <1>1 DEF OnlyThread, AcEnd, TypeInv, TypeOK, ThreadTypeOK
<1>3. Weight(Acceptor) = 0 /\ Weight(Acceptor)' = 0
  BY <1>1, <1>2 DEF Weight, One
<1>4. /\ UNCHANGED <<sessionID, socket, releaseFlag, relSocket, ioCount,
                     freeStack, sessionCnt, characterMap, relJobs>>
      /\ \A u \in Slots : /\ InFlight(u)' = InFlight(u)
                         /\ InFlight(u) \in Nat /\ ioCount[u] \in Int
  BY <1>1
     DEF AcEnd, AddRef, InFlight, Busy, TypeInv, TypeOK, PortTypeOK,
         SessionTypeOK, TableTypeOK
<1>5. RefCountExact'
  <2>1. \A u \in Slots : Share(Acceptor, u) = 0 /\ Share(Acceptor, u)' = 0
    BY <1>3 DEF Share
  <2> QED BY <1>1, <1>2, <1>4, <2>1, CountStep DEF SlotInv
<1>6. IdentityOK'
  BY <1>1, <1>2, <1>4 DEF SlotInv, IdentityOK
<1>7. ReachOK' /\ HoldOK' /\ OwnerOK'
  <2>1. pc[Acceptor] \notin OwnerPcs /\ pc'[Acceptor] \notin OwnerPcs
    BY <1>2 DEF OwnerPcs
  <2>2. slot'[Acceptor] \in Slots => Reached(slot'[Acceptor])
    BY <1>1, <1>2 DEF SlotInv, ReachOK, Preparing
  <2>3. ~Guarded(Acceptor)'
    BY <1>1, <1>2 DEF Guarded
  <2>4. \A u \in Slots : (relJobs'[u] > 0 => Reached(u)) /\ (InFlight(u)' > 0 => Held(u))
    BY <1>1, <1>4 DEF SlotInv, ReachOK, HoldOK
  <2>5. \A i \in characterMap' : Reached(i.idx)
    BY <1>1, <1>4 DEF SlotInv, ReachOK
  <2> QED
    BY <1>1, <1>2, <1>4, <2>1, <2>2, <2>3, <2>4, <2>5, OwnershipStep
       DEF SlotInv
<1>8. SenderOK'
  <2>1. \A u \in Slots : Senders(u)' \subseteq Senders(u)
    BY <1>1, <1>2, ThreadKinds DEF Senders, OnlyThread
  <2> QED BY <1>1, <2>1, SameSender DEF AcEnd
<1>9. ReceiverOK'
  <2>1. \A u \in Slots : Receivers(u)' \subseteq Receivers(u)
    BY <1>1, <1>2, ThreadKinds DEF Receivers, OnlyThread
  <2> QED BY <1>1, <2>1, SameReceiver DEF AcEnd
<1> QED BY <1>5, <1>6, <1>7, <1>8, <1>9, InvPartsPrime DEF SlotInv

LEMMA SessionAcJoin ==
    ASSUME SessionInv, TypeInv', AcJoin
    PROVE  SessionInv'
<1>1. /\ TypeInv /\ SlotInv /\ SenderOK /\ ReceiverOK
      /\ Acceptor \in Threads /\ Acceptor \notin Workers /\ slot[Acceptor] \in Slots
  BY InvParts, ThreadKinds DEF TypeInv, PlaceOK, AcJoin
<1>s. PICK s \in Slots : slot[Acceptor] = s
  BY <1>1
<1>2. /\ OnlyThread(Acceptor) /\ pc[Acceptor] = "AcJoin"
      /\ slot'[Acceptor] = s /\ pc'[Acceptor] \in {"AcRecv"}
  BY <1>1, <1>s DEF OnlyThread, AcJoin, TypeInv, TypeOK, ThreadTypeOK
<1>3. Weight(Acceptor) = 1 /\ Weight(Acceptor)' = 1
  BY <1>1, <1>2 DEF Weight, One
<1>4. /\ UNCHANGED <<sessionID, socket, releaseFlag, relSocket, ioCount,
                     freeStack, sessionCnt, relJobs>>
      /\ \A u \in Slots : /\ InFlight(u)' = InFlight(u)
                         /\ InFlight(u) \in Nat /\ ioCount[u] \in Int
  BY <1>1
     DEF AcJoin, AddRef, InFlight, Busy, TypeInv, TypeOK, PortTypeOK,
         SessionTypeOK, TableTypeOK
<1>5. RefCountExact'
  <2>1. \A u \in Slots : /\ Share(Acceptor, u)' = Share(Acceptor, u)
                         /\ Share(Acceptor, u) \in Nat
    BY <1>s, <1>2, <1>3 DEF Share
  <2> QED BY <1>1, <1>2, <1>4, <2>1, CountStep DEF SlotInv
<1>6. IdentityOK'
  BY <1>1, <1>2, <1>4 DEF SlotInv, IdentityOK
<1>held. Held(s) /\ Reached(s)
  BY <1>1, <1>s, <1>2, HeldIsReached DEF SlotInv, HoldOK, Guarded
<1>7. ReachOK' /\ HoldOK' /\ OwnerOK'
  <2>1. pc[Acceptor] \notin OwnerPcs /\ pc'[Acceptor] \notin OwnerPcs
    BY <1>2 DEF OwnerPcs
  <2>2. slot'[Acceptor] \in Slots => Reached(slot'[Acceptor])
    BY <1>2, <1>held
  <2>3. Held(slot'[Acceptor])
    BY <1>2, <1>held
  <2>4. \A u \in Slots : (relJobs'[u] > 0 => Reached(u)) /\ (InFlight(u)' > 0 => Held(u))
    BY <1>1, <1>4 DEF SlotInv, ReachOK, HoldOK
  <2>5. \A i \in characterMap' : Reached(i.idx)
    BY <1>1, <1>s, <1>held DEF AcJoin, SlotInv, ReachOK, IdentityOK
  <2> QED
    BY <1>1, <1>2, <1>4, <2>1, <2>2, <2>3, <2>4, <2>5, OwnershipStep
       DEF SlotInv
<1>8. SenderOK'
  <2>1. \A u \in Slots : Senders(u)' \subseteq Senders(u)
    BY <1>1, <1>s, <1>2, ThreadKinds DEF Senders, OnlyThread
  <2> QED BY <1>1, <2>1, SameSender DEF AcJoin
<1>9. ReceiverOK'
  <2>1. \A u \in Slots : Receivers(u)' \subseteq Receivers(u)
    BY <1>1, <1>s, <1>2, ThreadKinds DEF Receivers, OnlyThread
  <2> QED BY <1>1, <2>1, SameReceiver DEF AcJoin
<1> QED BY <1>5, <1>6, <1>7, <1>8, <1>9, InvPartsPrime DEF SlotInv

LEMMA SessionAcRecv ==
    ASSUME SessionInv, TypeInv', AcRecv
    PROVE  SessionInv'
<1>1. /\ TypeInv /\ SlotInv /\ SenderOK /\ ReceiverOK
      /\ Acceptor \in Threads /\ Acceptor \notin Workers /\ slot[Acceptor] \in Slots
  BY InvParts, ThreadKinds DEF TypeInv, PlaceOK, AcRecv
<1>s. PICK s \in Slots : slot[Acceptor] = s
  BY <1>1
<1>2. /\ OnlyThread(Acceptor) /\ pc[Acceptor] = "AcRecv"
      /\ \/ slot'[Acceptor] = s /\ pc'[Acceptor] \in {"AcPending", "RelCas"}
         \/ slot'[Acceptor] = NoSlot /\ pc'[Acceptor] = "AcAccept"
  BY <1>1, <1>s, IdleKinds
     DEF OnlyThread, AcRecv, Finish, TypeInv, TypeOK, ThreadTypeOK
<1>3. Weight(Acceptor) = 1 /\ Weight(Acceptor)' = 0
  BY <1>1, <1>2 DEF Weight, One
<1>4. recvOv[s] = "idle" /\ Receivers(s) = {Acceptor}
  <2>1. Acceptor \in Receivers(s)
    BY <1>s, <1>1, <1>2 DEF Receivers
  <2> QED BY <1>1, <2>1 DEF ReceiverOK
<1>5. Held(s) /\ Reached(s)
  BY <1>1, <1>s, <1>2, HeldIsReached DEF SlotInv, HoldOK, Guarded
<1>6. SlotInv'
  <2>1. /\ UNCHANGED <<sessionID, socket, releaseFlag, relSocket, tableVars>>
        /\ OnlySlot(s)
        /\ ioCount'[s] = ioCount[s] - 1 + 0 - InFlight(s) + InFlight(s)'
    <3>1. UNCHANGED <<sessionID, socket, releaseFlag, relSocket, tableVars,
                      sendOv, jobs, relJobs>>
      BY DEF AcRecv
    <3>2. \/ /\ ioCount' = ioCount
             /\ \E r \in {"posted", "ok", "fail"} : recvOv' = [recvOv EXCEPT ![s] = r]
          \/ ioCount' = [ioCount EXCEPT ![s] = @ - 1] /\ recvOv' = recvOv
      BY <1>s DEF AcRecv, DropRef
    <3>3. recvOv \in [Slots -> OverlappedStates] /\ ioCount \in [Slots -> Int]
          /\ \A u \in Slots : Busy(sendOv[u]) \in Nat /\ jobs[u] \in Nat
      BY <1>1 DEF TypeInv, TypeOK, PortTypeOK, SessionTypeOK, Busy
    <3>4. CASE /\ ioCount' = ioCount
              /\ \E r \in {"posted", "ok", "fail"} : recvOv' = [recvOv EXCEPT ![s] = r]
      <4>1. /\ Busy(recvOv'[s]) = 1 /\ Busy(recvOv[s]) = 0
            /\ \A u \in Slots \ {s} : recvOv'[u] = recvOv[u]
        BY <1>4, <3>3, <3>4 DEF Busy
      <4> QED BY <3>1, <3>3, <3>4, <4>1 DEF InFlight
    <3>5. CASE ioCount' = [ioCount EXCEPT ![s] = @ - 1] /\ recvOv' = recvOv
      <4>1. \A u \in Slots : InFlight(u)' = InFlight(u) /\ InFlight(u) \in Nat
        BY <1>1, <3>1, <3>5, InFlightType DEF InFlight, TypeInv, TypeOK
      <4> QED BY <3>1, <3>3, <3>5, <4>1
    <3> QED BY <3>2, <3>4, <3>5
  <2>2. pc[Acceptor] \notin OwnerPcs /\ pc'[Acceptor] \notin OwnerPcs \cup {"AcPop"}
    BY <1>2 DEF OwnerPcs
  <2> QED BY <1>1, <1>s, <1>2, <1>3, <1>5, <2>1, <2>2, StayStep
<1>7. ReceiverOK'
  <2>1. /\ Receivers(s)' = {}
        /\ \A u \in Slots \ {s} : Receivers(u)' \subseteq Receivers(u)
    BY <1>1, <1>s, <1>2, <1>4, SlotAssumption, ThreadKinds
       DEF Receivers, OnlyThread
  <2>2. \A u \in Slots \ {s} : recvOv'[u] = recvOv[u]
    BY <1>1, <1>s DEF AcRecv, TypeInv, TypeOK, PortTypeOK
  <2> QED BY <1>1, <2>1, <2>2 DEF ReceiverOK
<1>8. SenderOK'
  <2>1. \A u \in Slots : Senders(u)' \subseteq Senders(u)
    BY <1>1, <1>2, ThreadKinds DEF Senders, OnlyThread
  <2> QED BY <1>1, <2>1, SameSender DEF AcRecv
<1> QED BY <1>6, <1>7, <1>8, InvPartsPrime

LEMMA SessionAcPending ==
    ASSUME SessionInv, TypeInv', AcPending
    PROVE  SessionInv'
<1>1. /\ TypeInv /\ SlotInv /\ SenderOK /\ ReceiverOK
      /\ Acceptor \in Threads /\ Acceptor \notin Workers /\ slot[Acceptor] \in Slots
  BY InvParts, ThreadKinds DEF TypeInv, PlaceOK, AcPending
<1>s. PICK s \in Slots : slot[Acceptor] = s
  BY <1>1
<1>2. /\ OnlyThread(Acceptor) /\ pc[Acceptor] = "AcPending"
      /\ slot'[Acceptor] = NoSlot /\ pc'[Acceptor] = "AcAccept"
  BY <1>1, IdleKinds
     DEF OnlyThread, AcPending, Finish, TypeInv, TypeOK, ThreadTypeOK
<1>3. Weight(Acceptor) = 0
  BY <1>1, <1>2 DEF Weight, One
<1>4. \A u \in Slots : /\ recvOv'[u] = "idle" <=> recvOv[u] = "idle"
                       /\ sendOv'[u] = "idle" <=> sendOv[u] = "idle"
                       /\ Busy(recvOv'[u]) = Busy(recvOv[u])
                       /\ Busy(sendOv'[u]) = Busy(sendOv[u])
  BY <1>1, CancelKeepsBusy DEF AcPending, TypeInv, TypeOK
<1>5. \A u \in Slots : /\ InFlight(u)' = InFlight(u)
                      /\ InFlight(u) \in Nat /\ ioCount[u] \in Int
  BY <1>1, <1>4, InFlightType
     DEF AcPending, InFlight, TypeInv, TypeOK, SessionTypeOK
<1>6. SlotInv'
  <2>1. Reached(s)
    BY <1>1, <1>s, <1>2 DEF SlotInv, ReachOK, Preparing
  <2>2. UNCHANGED <<sessionID, socket, releaseFlag, relSocket, ioCount,
                    relJobs, tableVars>>
    BY DEF AcPending
  <2>3. pc[Acceptor] \notin OwnerPcs /\ pc'[Acceptor] \notin OwnerPcs \cup {"AcPop"}
    BY <1>2 DEF OwnerPcs
  <2>4. InFlight(s)' > 0 => Held(s)
    BY <1>1, <1>5 DEF SlotInv, HoldOK
  <2>5. slot'[Acceptor] # s
    BY <1>2, SlotAssumption
  <2> QED
    BY <1>1, <1>s, <1>2, <1>3, <1>5, <2>1, <2>2, <2>3, <2>4, <2>5, StayStep
<1>7. SenderOK'
  <2>1. \A u \in Slots : Senders(u)' \subseteq Senders(u)
    BY <1>1, <1>2, ThreadKinds DEF Senders, OnlyThread
  <2> QED BY <1>1, <1>4, <2>1, SameSender DEF AcPending
<1>8. ReceiverOK'
  <2>1. \A u \in Slots : Receivers(u)' \subseteq Receivers(u)
    BY <1>1, <1>2, ThreadKinds DEF Receivers, OnlyThread
  <2> QED BY <1>1, <1>4, <2>1, SameReceiver
<1> QED BY <1>6, <1>7, <1>8, InvPartsPrime

LEMMA SessionAcPop ==
    ASSUME SessionInv, TypeInv', NEW s \in Slots, AcPop(s)
    PROVE  SessionInv'
<1>1. /\ TypeInv /\ SlotInv /\ SenderOK /\ ReceiverOK
      /\ Acceptor \in Threads /\ Acceptor \notin Workers
  BY InvParts, ThreadKinds
<1>2. /\ OnlyThread(Acceptor) /\ pc[Acceptor] = "AcPop"
      /\ slot'[Acceptor] = s /\ pc'[Acceptor] = "AcInc"
  BY <1>1 DEF OnlyThread, AcPop, TypeInv, TypeOK, ThreadTypeOK
<1>3. Weight(Acceptor) = 0 /\ Weight(Acceptor)' = 0
  BY <1>1, <1>2 DEF Weight, One
<1>4. /\ UNCHANGED <<sessionID, socket, releaseFlag, relSocket, ioCount,
                     sessionCnt, characterMap, relJobs>>
      /\ freeStack[s] = 1 /\ freeStack'[s] = 0
      /\ \A u \in Slots \ {s} : freeStack'[u] = freeStack[u]
      /\ \A u \in Slots : /\ InFlight(u)' = InFlight(u)
                         /\ InFlight(u) \in Nat /\ ioCount[u] \in Int
  <2>1. freeStack[s] \in {0, 1}
    BY <1>1 DEF SlotInv, OwnerOK
  <2> QED
    BY <1>1, <2>1
       DEF AcPop, InFlight, Busy, TypeInv, TypeOK, PortTypeOK, SessionTypeOK,
           TableTypeOK
<1>5. RefCountExact'
  <2>1. \A u \in Slots : Share(Acceptor, u) = 0 /\ Share(Acceptor, u)' = 0
    BY <1>3 DEF Share
  <2> QED BY <1>1, <1>2, <1>4, <2>1, CountStep DEF SlotInv
<1>6. IdentityOK'
  BY <1>1, <1>2, <1>4 DEF SlotInv, IdentityOK
<1>7. ReachOK' /\ HoldOK' /\ OwnerOK'
  <2>1. releaseFlag[s] = 1 \/ sessionID[s].cnt = 0
    BY <1>1, <1>4 DEF SlotInv, OwnerOK
  <2>2. \A u \in Slots : ~Preparing(u) /\ (Preparing(u)' <=> u = s)
    BY <1>2 DEF Preparing
  <2>3. \A u \in Slots : (Reached(u)' <=> Reached(u)) /\ (Held(u)' <=> Held(u))
    BY <1>1, <1>4, <2>1, <2>2 DEF Reached, Held, TypeInv, TypeOK, SessionTypeOK
  <2>guard. \A u \in Threads \ {Acceptor} : Guarded(u)' <=> Guarded(u)
    BY <1>2 DEF Guarded, OnlyThread
  <2>chars. \A i \in characterMap : i.idx \in Slots
    BY <1>1 DEF TypeInv, TypeOK, TableTypeOK, SessionIDs
  <2>4. ReachOK'
    BY <1>1, <1>2, <1>4, <2>2, <2>3, <2>chars DEF SlotInv, ReachOK, OnlyThread
  <2>5. HoldOK'
    <3>1. ~Guarded(Acceptor)'
      BY <1>1, <1>2 DEF Guarded
    <3> QED
      BY <1>1, <1>2, <1>4, <2>3, <2>guard, <3>1
         DEF SlotInv, HoldOK, OnlyThread
  <2>6. OwnerOK'
    <3>1. \A u \in Slots : Releasing(u)' = Releasing(u)
      BY <1>2 DEF Releasing, OnlyThread
    <3>2. \A u \in Slots \ {s} : Live(u)' <=> Live(u)
      BY <1>4 DEF Live
    <3> QED
      BY <1>1, <1>2, <1>4, <2>1, <2>2, <3>1, <3>2
         DEF SlotInv, OwnerOK, TypeInv, TypeOK, SessionTypeOK
  <2> QED BY <2>4, <2>5, <2>6
<1>8. SenderOK'
  <2>1. \A u \in Slots : Senders(u)' \subseteq Senders(u)
    BY <1>1, <1>2, ThreadKinds DEF Senders, OnlyThread
  <2> QED BY <1>1, <2>1, SameSender DEF AcPop
<1>9. ReceiverOK'
  <2>1. \A u \in Slots : Receivers(u)' \subseteq Receivers(u)
    BY <1>1, <1>2, ThreadKinds DEF Receivers, OnlyThread
  <2> QED BY <1>1, <2>1, SameReceiver DEF AcPop
<1> QED BY <1>5, <1>6, <1>7, <1>8, <1>9, InvPartsPrime DEF SlotInv

LEMMA SessionAcInc ==
    ASSUME SessionInv, TypeInv', AcInc
    PROVE  SessionInv'
<1>1. /\ TypeInv /\ SlotInv /\ SenderOK /\ ReceiverOK
      /\ Acceptor \in Threads /\ Acceptor \notin Workers /\ slot[Acceptor] \in Slots
  BY InvParts, ThreadKinds DEF TypeInv, PlaceOK, AcInc
<1>s. PICK s \in Slots : slot[Acceptor] = s
  BY <1>1
<1>2. /\ OnlyThread(Acceptor) /\ pc[Acceptor] = "AcInc"
      /\ slot'[Acceptor] = s /\ pc'[Acceptor] \in {"AcId"}
  BY <1>1, <1>s DEF OnlyThread, AcInc, TypeInv, TypeOK, ThreadTypeOK
<1>3. Weight(Acceptor) = 0 /\ Weight(Acceptor)' = 1
  BY <1>1, <1>2 DEF Weight, One
<1>4. /\ UNCHANGED <<sessionID, socket, releaseFlag, relSocket, freeStack,
                     sessionCnt, characterMap, relJobs>>
      /\ \A u \in Slots : ioCount'[u] = IF u = s THEN ioCount[u] + 1 ELSE ioCount[u]
      /\ \A u \in Slots : /\ InFlight(u)' = InFlight(u)
                         /\ InFlight(u) \in Nat /\ ioCount[u] \in Int
  BY <1>1, <1>s
     DEF AcInc, AddRef, InFlight, Busy, TypeInv, TypeOK, PortTypeOK,
         SessionTypeOK, TableTypeOK
<1>5. RefCountExact'
  <2>1. \A u \in Slots : /\ Share(Acceptor, u)' = (IF u = s THEN 1 ELSE 0)
                         /\ Share(Acceptor, u) = 0
    BY <1>s, <1>2, <1>3 DEF Share
  <2> QED BY <1>1, <1>2, <1>4, <2>1, CountStep DEF SlotInv
<1>6. IdentityOK'
  BY <1>1, <1>2, <1>4 DEF SlotInv, IdentityOK
<1>7. ReachOK' /\ HoldOK' /\ OwnerOK'
  <2>1. \A u \in Slots : (Preparing(u) <=> u = s) /\ (Preparing(u)' <=> u = s)
    BY <1>s, <1>2 DEF Preparing
  <2>2. \A u \in Slots : (Reached(u) => Reached(u)') /\ (Held(u) => Held(u)')
    BY <1>4, <2>1 DEF Reached, Held
  <2>guard. \A u \in Threads \ {Acceptor} : Guarded(u)' <=> Guarded(u)
    BY <1>2 DEF Guarded, OnlyThread
  <2>chars. \A i \in characterMap : i.idx \in Slots
    BY <1>1 DEF TypeInv, TypeOK, TableTypeOK, SessionIDs
  <2>3. ReachOK'
    BY <1>1, <1>s, <1>2, <1>4, <2>1, <2>2, <2>chars
       DEF SlotInv, ReachOK, OnlyThread
  <2>4. HoldOK'
    <3>1. ~Guarded(Acceptor)'
      BY <1>1, <1>2 DEF Guarded
    <3> QED
      BY <1>1, <1>2, <1>4, <2>2, <2>guard, <3>1
         DEF SlotInv, HoldOK, OnlyThread
  <2>5. OwnerOK'
    <3>1. \A u \in Slots : Releasing(u)' = Releasing(u)
      BY <1>s, <1>2 DEF Releasing, OnlyThread
    <3>2. \A u \in Slots : Live(u)' <=> Live(u)
      BY <1>4 DEF Live
    <3> QED BY <1>1, <1>2, <1>4, <2>1, <3>1, <3>2 DEF SlotInv, OwnerOK
  <2> QED BY <2>3, <2>4, <2>5
<1>8. SenderOK'
  <2>1. \A u \in Slots : Senders(u)' \subseteq Senders(u)
    BY <1>1, <1>s, <1>2, ThreadKinds DEF Senders, OnlyThread
  <2> QED BY <1>1, <2>1, SameSender DEF AcInc
<1>9. ReceiverOK'
  <2>1. \A u \in Slots : Receivers(u)' \subseteq Receivers(u)
    BY <1>1, <1>s, <1>2, ThreadKinds DEF Receivers, OnlyThread
  <2> QED BY <1>1, <2>1, SameReceiver DEF AcInc
<1> QED BY <1>5, <1>6, <1>7, <1>8, <1>9, InvPartsPrime DEF SlotInv

LEMMA SessionAcId ==
    ASSUME SessionInv, TypeInv', AcId
    PROVE  SessionInv'
<1>1. /\ TypeInv /\ SlotInv /\ SenderOK /\ ReceiverOK
      /\ Acceptor \in Threads /\ Acceptor \notin Workers /\ slot[Acceptor] \in Slots
  BY InvParts, ThreadKinds DEF TypeInv, PlaceOK, AcId
<1>s. PICK s \in Slots : slot[Acceptor] = s
  BY <1>1
<1>2. /\ OnlyThread(Acceptor) /\ pc[Acceptor] = "AcId"
      /\ slot'[Acceptor] = s /\ pc'[Acceptor] \in {"AcArm"}
  BY <1>1, <1>s DEF OnlyThread, AcId, TypeInv, TypeOK, ThreadTypeOK
<1>3. Weight(Acceptor) = 1 /\ Weight(Acceptor)' = 1
  BY <1>1, <1>2 DEF Weight, One
<1>4. /\ UNCHANGED <<releaseFlag, ioCount, freeStack, sessionCnt, characterMap,
                     relJobs>>
      /\ sessionID'[s] = [cnt |-> sessionCnt, idx |-> s]
      /\ socket'[s] = ClientSock /\ relSocket'[s] = "open"
      /\ \A u \in Slots \ {s} : /\ sessionID'[u] = sessionID[u] /\ socket'[u] = socket[u]
                                /\ relSocket'[u] = relSocket[u]
      /\ \A u \in Slots : /\ InFlight(u)' = InFlight(u)
                         /\ InFlight(u) \in Nat /\ ioCount[u] \in Int
  BY <1>1, <1>s
     DEF AcId, AddRef, InFlight, Busy, TypeInv, TypeOK, PortTypeOK,
         SessionTypeOK, TableTypeOK
<1>5. RefCountExact'
  <2>1. \A u \in Slots : /\ Share(Acceptor, u)' = (IF u = s THEN 1 ELSE 0)
                         /\ Share(Acceptor, u) = (IF u = s THEN 1 ELSE 0)
    BY <1>s, <1>2, <1>3 DEF Share
  <2> QED BY <1>1, <1>2, <1>4, <2>1, CountStep DEF SlotInv
<1>6. IdentityOK'
  BY <1>1, <1>2, <1>4 DEF SlotInv, IdentityOK, ClientSock
<1>7. ReachOK' /\ HoldOK' /\ OwnerOK'
  <2>cnt. sessionCnt # 0
    BY <1>1, <1>2 DEF SlotInv, IdentityOK
  <2>1. \A u \in Slots : (Preparing(u) <=> u = s) /\ (Preparing(u)' <=> u = s)
    BY <1>s, <1>2 DEF Preparing
  <2>2. \A u \in Slots : (Reached(u) => Reached(u)') /\ (Held(u) => Held(u)')
    BY <2>cnt, <1>4, <2>1 DEF Reached, Held
  <2>guard. \A u \in Threads \ {Acceptor} : Guarded(u)' <=> Guarded(u)
    BY <1>2 DEF Guarded, OnlyThread
  <2>chars. \A i \in characterMap : i.idx \in Slots
    BY <1>1 DEF TypeInv, TypeOK, TableTypeOK, SessionIDs
  <2>3. ReachOK'
    BY <1>1, <1>s, <1>2, <1>4, <2>1, <2>2, <2>chars
       DEF SlotInv, ReachOK, OnlyThread
  <2>4. HoldOK'
    <3>1. ~Guarded(Acceptor)'
      BY <1>1, <1>2 DEF Guarded
    <3> QED
      BY <1>1, <1>2, <1>4, <2>2, <2>guard, <3>1
         DEF SlotInv, HoldOK, OnlyThread
  <2>5. OwnerOK'
    <3>1. \A u \in Slots : Releasing(u)' = Releasing(u)
      BY <1>s, <1>2 DEF Releasing, OnlyThread
    <3>2. /\ \A u \in Slots \ {s} : Live(u)' <=> Live(u)
          /\ freeStack[s] = 0 => (Live(s)' <=> releaseFlag[s] = 0)
      BY <1>4 DEF Live
    <3> QED BY <2>cnt, <1>1, <1>2, <1>4, <2>1, <3>1, <3>2 DEF SlotInv, OwnerOK
  <2> QED BY <2>3, <2>4, <2>5
<1>8. SenderOK'
  <2>1. \A u \in Slots : Senders(u)' \subseteq Senders(u)
    BY <1>1, <1>s, <1>2, ThreadKinds DEF Senders, OnlyThread
  <2> QED BY <1>1, <2>1, SameSender DEF AcId
<1>9. ReceiverOK'
  <2>1. \A u \in Slots : Receivers(u)' \subseteq Receivers(u)
    BY <1>1, <1>s, <1>2, ThreadKinds DEF Receivers, OnlyThread
  <2> QED BY <1>1, <2>1, SameReceiver DEF AcId
<1> QED BY <1>5, <1>6, <1>7, <1>8, <1>9, InvPartsPrime DEF SlotInv

LEMMA SessionAcArm ==
    ASSUME SessionInv, TypeInv', AcArm
    PROVE  SessionInv'
<1>1. /\ TypeInv /\ SlotInv /\ SenderOK /\ ReceiverOK
      /\ Acceptor \in Threads /\ Acceptor \notin Workers /\ slot[Acceptor] \in Slots
  BY InvParts, ThreadKinds DEF TypeInv, PlaceOK, AcArm
<1>s. PICK s \in Slots : slot[Acceptor] = s
  BY <1>1
<1>2. /\ OnlyThread(Acceptor) /\ pc[Acceptor] = "AcArm"
      /\ slot'[Acceptor] = s /\ pc'[Acceptor] \in {"AcJoin", "Stranded"}
  BY <1>1, <1>s DEF OnlyThread, AcArm, TypeInv, TypeOK, ThreadTypeOK
<1>3. Weight(Acceptor) = 1 /\ Weight(Acceptor)' = 1
  BY <1>1, <1>2 DEF Weight, One
<1>4. /\ UNCHANGED <<sessionID, socket, relSocket, ioCount, freeStack,
                     sessionCnt, characterMap, relJobs>>
      /\ releaseFlag'[s] = 0 /\ \A u \in Slots \ {s} : releaseFlag'[u] = releaseFlag[u]
      /\ \A u \in Slots : /\ InFlight(u)' = InFlight(u)
                         /\ InFlight(u) \in Nat /\ ioCount[u] \in Int
  BY <1>1, <1>s
     DEF AcArm, AddRef, InFlight, Busy, TypeInv, TypeOK, PortTypeOK,
         SessionTypeOK, TableTypeOK
<1>5. RefCountExact'
  <2>1. \A u \in Slots : /\ Share(Acceptor, u)' = (IF u = s THEN 1 ELSE 0)
                         /\ Share(Acceptor, u) = (IF u = s THEN 1 ELSE 0)
    BY <1>s, <1>2, <1>3 DEF Share
  <2> QED BY <1>1, <1>2, <1>4, <2>1, CountStep DEF SlotInv
<1>6. IdentityOK'
  BY <1>1, <1>2, <1>4 DEF SlotInv, IdentityOK
<1>7. ReachOK' /\ HoldOK' /\ OwnerOK'
  <2>1. \A u \in Slots : (Preparing(u) <=> u = s) /\ ~Preparing(u)'
    BY <1>s, <1>2 DEF Preparing
  <2>2. sessionID[s].cnt # 0 /\ relSocket[s] = "open" /\ freeStack[s] = 0
    BY <1>1, <1>2, <2>1 DEF SlotInv, OwnerOK
  <2>3. /\ Held(s)' /\ Reached(s)'
        /\ \A u \in Slots \ {s} : (Reached(u)' <=> Reached(u)) /\ (Held(u)' <=> Held(u))
    BY <1>4, <2>1, <2>2 DEF Reached, Held
  <2>guard. \A u \in Threads \ {Acceptor} : Guarded(u)' <=> Guarded(u)
    BY <1>2 DEF Guarded, OnlyThread
  <2>chars. \A i \in characterMap : i.idx \in Slots
    BY <1>1 DEF TypeInv, TypeOK, TableTypeOK, SessionIDs
  <2>4. ReachOK'
    BY <1>1, <1>s, <1>2, <1>4, <2>1, <2>3, <2>chars
       DEF SlotInv, ReachOK, OnlyThread
  <2>5. HoldOK'
    BY <1>1, <1>2, <1>4, <2>3, <2>guard DEF SlotInv, HoldOK, OnlyThread
  <2>6. OwnerOK'
    <3>1. \A u \in Slots : Releasing(u)' = Releasing(u)
      BY <1>s, <1>2 DEF Releasing, OnlyThread
    <3>2. Live(s)' /\ \A u \in Slots \ {s} : Live(u)' <=> Live(u)
      BY <1>4, <2>2 DEF Live
    <3>3. Releasing(s) = {}
      BY <1>1, <2>1 DEF SlotInv, OwnerOK
    <3> QED
      BY <1>1, <1>2, <1>4, <2>1, <2>2, <3>1, <3>2, <3>3
         DEF SlotInv, OwnerOK
  <2> QED BY <2>4, <2>5, <2>6
<1>free. ~Held(s) /\ InFlight(s) = 0 /\ Senders(s) = {} /\ Receivers(s) = {}
  <2>1. ~Held(s)
    BY <1>s, <1>2 DEF Held, Preparing
  <2>2. InFlight(s) = 0
    BY <1>1, <1>4, <2>1 DEF SlotInv, HoldOK
  <2>3. \A u \in Workers : slot[u] = s => pc[u] \notin BasePcs
    BY <1>1, <2>1, ThreadKinds DEF SlotInv, HoldOK, Guarded
  <2>4. Senders(s) = {}
    BY <2>3 DEF Senders
  <2>5. Receivers(s) = {}
    <3>1. RecvPcs \cup {"RpLoad", "RpCall"} \subseteq BasePcs
      OBVIOUS
    <3>2. Acceptor \notin Receivers(s)
      BY <1>2 DEF Receivers
    <3>3. \A u \in Workers : slot[u] = s => pc[u] \notin {"AcJoin", "AcRecv"}
      BY <1>1, ThreadKinds DEF TypeInv, PlaceOK, 
         RecvPostPcs, ReleasePcs
    <3> QED BY <2>3, <3>1, <3>2, <3>3 DEF Receivers
  <2> QED BY <2>1, <2>2, <2>4, <2>5
<1>8. SenderOK'
  <2>1. \A u \in Slots : Senders(u)' = Senders(u)
    BY <1>1, <1>2, ThreadKinds DEF Senders, OnlyThread
  <2>2. sendOv' = sendOv /\ \A u \in Slots \ {s} : sendFlag'[u] = sendFlag[u]
    BY <1>1, <1>s DEF AcArm, TypeInv, TypeOK, SendTypeOK
  <2>3. sendOv[s] = "idle"
    BY <1>1, <1>free DEF InFlight, Busy, TypeInv, TypeOK, PortTypeOK
  <2> QED BY <1>1, <1>free, <2>1, <2>2, <2>3 DEF SenderOK
<1>9. ReceiverOK'
  <2>1. /\ Receivers(s)' \subseteq {Acceptor}
        /\ \A u \in Slots \ {s} : Receivers(u)' = Receivers(u)
    BY <1>1, <1>s, <1>2, <1>free, ThreadKinds DEF Receivers, OnlyThread
  <2>2. recvOv' = recvOv /\ recvOv[s] = "idle"
    BY <1>1, <1>free DEF AcArm, InFlight, Busy, TypeInv, TypeOK, PortTypeOK
  <2> QED BY <1>1, <2>1, <2>2 DEF ReceiverOK
<1> QED BY <1>5, <1>6, <1>7, <1>8, <1>9, InvPartsPrime DEF SlotInv

(* The invariant holds when the server has started ... *)
LEMMA SessionInit == Init => SessionInv
<1> SUFFICES ASSUME Init PROVE SessionInv
  OBVIOUS
<1>1. TypeInv
  BY TypeInit
<1>2. /\ \A t \in Threads : pc[t] \in {"Gqcs", "AcAccept", "ApiIdle"} /\ slot[t] = NoSlot
      /\ \A s \in Slots : slot[Acceptor] # s
  BY SlotAssumption, ThreadKinds DEF Init, Idle
<1>3. RefCountExact
  <2>1. \A s \in Slots : BaseRefs(s) = {} /\ CallRefs(s) = {} /\ IoRefs(s) = {}
    BY <1>2, SlotAssumption, ThreadsFinite DEF BaseRefs, CallRefs, IoRefs
  <2>2. \A s \in Slots : ioCount[s] = 0 /\ InFlight(s) = 0
    BY DEF Init, InFlight, Busy
  <2> QED BY <2>1, <2>2, FS_EmptySet DEF RefCountExact
<1>4. IdentityOK
  BY <1>2, ThreadKinds DEF IdentityOK, Init
<1>5. ReachOK /\ HoldOK
  BY <1>2, SlotAssumption DEF ReachOK, HoldOK, Init, InFlight, Busy
<1>6. OwnerOK
  <2>1. \A s \in Slots : Releasing(s) = {} /\ ~Preparing(s)
    BY <1>2, SlotAssumption DEF Releasing, Preparing
  <2> QED BY <2>1 DEF OwnerOK, Init
<1>7. SenderOK /\ ReceiverOK
  <2>1. \A s \in Slots : Senders(s) = {} /\ Receivers(s) = {}
    BY <1>2, SlotAssumption, ThreadKinds DEF Senders, Receivers
  <2> QED BY <2>1 DEF SenderOK, ReceiverOK, Init
<1> QED BY <1>1, <1>3, <1>4, <1>5, <1>6, <1>7, InvParts DEF SlotInv

(* ... and every step of every thread preserves it. *)
LEMMA SessionStep == SessionInv /\ [Next]_vars => SessionInv'
<1> SUFFICES ASSUME SessionInv, [Next]_vars PROVE SessionInv'
  OBVIOUS
<1>type. TypeInv'
  BY InvParts, TypeStep
<1>1. CASE Kernel
  BY <1>type, <1>1, SessionRecvComplete, SessionSendComplete DEF Kernel
<1>2. ASSUME NEW w \in Workers, Take(w) PROVE SessionInv'
  BY <1>type, <1>2, SessionTakeRecv, SessionTakeSend, SessionTakeSendPost,
     SessionTakeRelease
     DEF Take
<1>3. ASSUME NEW w \in Workers, SendStep(w) PROVE SessionInv'
  BY <1>type, <1>3, SessionSendFree, SessionSendUnflag, SessionSpSize,
     SessionSpFlag, SessionSpUse, SessionSpClear, SessionSpLoad, SessionSpCall,
     SessionSpPending
     DEF SendStep
<1>4. ASSUME NEW w \in Workers, RecvStep(w) PROVE SessionInv'
  BY <1>type, <1>4, SessionParseEnd, SessionParseBad, SessionOnRecv,
     SessionRpLoad, SessionRpCall, SessionRpPending
     DEF RecvStep
<1>5. ASSUME NEW t \in Workers \cup ApiThreads, CallStep(t) PROVE SessionInv'
  BY <1>type, <1>5, SessionEnter, SessionChkFlag, SessionChkId,
     SessionDcExchange, SessionDcCancel, SessionSqEnqueue, SessionSqPost,
     SessionSqPostFails, SessionLeave, SessionFreePkt
     DEF CallStep
<1>6. ASSUME NEW t \in Workers \cup {Acceptor}, ReleaseStep(t) PROVE SessionInv'
  BY <1>type, <1>6, SessionRelCas, SessionRelDrain, SessionRelLeave,
     SessionRelPush, SessionRelCount
     DEF ReleaseStep
<1>7. CASE AcceptStep
  BY <1>type, <1>7, SessionAcAccept, SessionAcEnd, SessionAcPop, SessionAcInc,
     SessionAcId, SessionAcArm, SessionAcJoin, SessionAcRecv, SessionAcPending
     DEF AcceptStep
<1>8. CASE UNCHANGED vars
  <2>1. UNCHANGED <<sessVars, sendVars, ioVars, tableVars, pc, localVars>>
    BY <1>8 DEF vars
  <2>2. \A s \in Slots :
           /\ BaseRefs(s)' = BaseRefs(s) /\ CallRefs(s)' = CallRefs(s)
           /\ IoRefs(s)' = IoRefs(s)
           /\ InFlight(s)' = InFlight(s) /\ Senders(s)' = Senders(s)
           /\ Receivers(s)' = Receivers(s)
           /\ Releasing(s)' = Releasing(s) /\ (Preparing(s)' <=> Preparing(s))
    BY <2>1
       DEF BaseRefs, CallRefs, IoRefs, InFlight, Senders, Receivers, Releasing,
           Preparing
  <2>3. SlotInv /\ SenderOK /\ ReceiverOK
    BY InvParts
  <2>4. RefCountExact' /\ SenderOK' /\ ReceiverOK'
    BY <2>1, <2>2, <2>3 DEF SlotInv, RefCountExact, SenderOK, ReceiverOK
  <2>5. IdentityOK' /\ OwnerOK'
    BY <2>1, <2>2, <2>3 DEF SlotInv, IdentityOK, OwnerOK, Live
  <2>6. ReachOK' /\ HoldOK'
    BY <2>1, <2>3
       DEF SlotInv, ReachOK, HoldOK, Reached, Held, Preparing, Guarded,
           InFlight
  <2> QED BY <1>type, <2>4, <2>5, <2>6, InvPartsPrime DEF SlotInv
<1> QED
  BY <1>type, <1>1, <1>2, <1>3, <1>4, <1>5, <1>6, <1>7, <1>8, SessionDec,
     SessionApiCall
     DEF Next

(* The inductive invariant holds in every reachable state, whatever the     *)
(* number of workers, contents threads, slots and packets.                  *)
THEOREM SessionInvariant == Spec => []SessionInv
BY SessionInit, SessionStep, PTL DEF Spec

(* ioCount is exact on every path of EnterSession, LeaveSession,            *)
(* SendPacket, SendPost, RecvPost, the accept thread and the worker loop,   *)
(* also when WSASend, WSARecv or a post to the port fails; so it never      *)
(* wraps below 0 and never keeps a session alive that nobody uses.          *)
THEOREM RefCountCorrect == Spec => []RefCountExact
<1>1. SessionInv => RefCountExact
  BY DEF SessionInv
<1> QED BY <1>1, SessionInvariant, PTL

(* No thread inside a validated call, no operation in flight and no         *)
(* SENDPOST job ever refers to a session that ReleaseSession has taken down *)
(* or that AcceptThread is setting up again.                                *)
THEOREM ReleaseIsSafe == Spec => []NoUseAfterRelease
<1>1. SessionInv => NoUseAfterRelease
  <2> SUFFICES ASSUME SessionInv, NEW s \in Slots,
                      InFlight(s) > 0 \/ \E t \in Threads : Uses(t, s)
               PROVE  Live(s)
    BY DEF NoUseAfterRelease
  <2>1. SlotInv
    BY InvParts
  <2>2. Held(s)
    BY <2>1 DEF SlotInv, HoldOK, Uses, Guarded
  <2> QED BY <2>1, <2>2 DEF SlotInv, OwnerOK, Held
<1> QED BY <1>1, SessionInvariant, PTL

(* The compare-and-exchange of ReleaseSession lets one thread through per   *)
(* life of a session: the slot is never pushed twice and never released     *)
(* with an operation in flight.                                             *)
THEOREM ReleasedOnce == Spec => []SingleReleaser
<1>1. SessionInv => SingleReleaser
  <2> SUFFICES ASSUME SessionInv, NEW s \in Slots
               PROVE  /\ freeStack[s] + Cardinality(Releasing(s)) =< 1
                      /\ Releasing(s) # {} => releaseFlag[s] = 1 /\ InFlight(s) = 0
    BY DEF SingleReleaser
  <2>1. SlotInv /\ PortTypeOK
    BY InvParts DEF TypeInv, TypeOK
  <2>2. CASE Releasing(s) = {}
    BY <2>1, <2>2, FS_EmptySet DEF SlotInv, OwnerOK
  <2>3. CASE Releasing(s) # {}
    <3>1. PICK t : Releasing(s) = {t}
      BY <2>1, <2>3 DEF SlotInv, OwnerOK
    <3>2. Cardinality(Releasing(s)) = 1
      BY <3>1, FS_Singleton
    <3>3. releaseFlag[s] = 1 /\ freeStack[s] = 0
      BY <2>1, <2>3 DEF SlotInv, OwnerOK
    <3>4. InFlight(s) \in Nat /\ ~(InFlight(s) > 0)
      BY <2>1, <3>3, InFlightType DEF SlotInv, HoldOK, Held
    <3> QED BY <3>2, <3>3, <3>4
  <2> QED BY <2>2, <2>3
<1> QED BY <1>1, SessionInvariant, PTL

(* a set whose elements are all equal has at most one *)
LEMMA AtMostOne ==
    ASSUME NEW S, \A x, y \in S : x = y
    PROVE  Cardinality(S) \in {0, 1} /\ (Cardinality(S) = 1 => S # {})
<1>1. CASE S = {}
  BY <1>1, FS_EmptySet
<1>2. CASE S # {}
  <2>1. PICK x : S = {x}
    BY <1>2
  <2> QED BY <2>1, FS_Singleton
<1> QED BY <1>1, <1>2

(* sendFlag keeps SendPost of two workers, and a completion that frees      *)
(* sendPacketArr, apart on every live session.                              *)
THEOREM OneSender == Spec => []SingleSender
<1>1. SessionInv => SingleSender
  <2> SUFFICES ASSUME SessionInv, NEW s \in Slots
               PROVE  /\ Cardinality(Senders(s)) + Busy(sendOv[s]) =< 1
                      /\ Senders(s) # {} \/ sendOv[s] # "idle" => sendFlag[s] = 1
    BY DEF SingleSender
  <2>1. SenderOK
    BY InvParts
  <2>2. /\ Cardinality(Senders(s)) \in {0, 1}
        /\ (Cardinality(Senders(s)) = 1 => Senders(s) # {})
    BY <2>1, AtMostOne DEF SenderOK
  <2> QED BY <2>1, <2>2 DEF SenderOK, Busy
<1> QED BY <1>1, SessionInvariant, PTL

(* recvQ, recvOverlapped and the OnRecv callbacks of a session belong to    *)
(* one thread or to the kernel at a time, although no lock protects them.   *)
THEOREM OneReceiver == Spec => []SingleReceiver
<1>1. SessionInv => SingleReceiver
  <2> SUFFICES ASSUME SessionInv, NEW s \in Slots
               PROVE  Cardinality(Receivers(s)) + Busy(recvOv[s]) =< 1
    BY DEF SingleReceiver
  <2>1. ReceiverOK
    BY InvParts
  <2>2. /\ Cardinality(Receivers(s)) \in {0, 1}
        /\ (Cardinality(Receivers(s)) = 1 => Receivers(s) # {})
    BY <2>1, AtMostOne DEF ReceiverOK
  <2> QED BY <2>1, <2>2 DEF ReceiverOK, Busy
<1> QED BY <1>1, SessionInvariant, PTL

-----------------------------------------------------------------------------
(* The contents and the packets *)

(* a step of t that is no part of a release and leaves the tables alone *)
Quiet(t) ==
    /\ OnlyThread(t)
    /\ UNCHANGED <<sessionID, releaseFlag, tableVars>>
    /\ pc[t] \notin ReleasePcs \cup {"RelCount"}
    /\ pc'[t] \notin ReleasePcs \cup {"RelCount"}

(* The call of t goes on, or t starts one for a session that the contents    *)
(* know or that it is receiving for; ChkId alone makes a call valid.         *)
CallGoesOn(t) ==
    /\ \A u \in Threads \ {t} : id'[u] = id[u]
    /\ Calling(t)' => \/ Calling(t) /\ id'[t] = id[t] /\ slot'[t] = slot[t]
                      \/ id'[t] \in characterMap /\ slot'[t] = id'[t].idx
                      \/ /\ t \in Workers /\ pc[t] = "Parse"
                         /\ id'[t] = sessionID[slot[t]] /\ slot'[t] = slot[t]
    /\ pc'[t] \in ValidPcs => /\ id'[t] = id[t] /\ slot'[t] = slot[t]
                              /\ pc[t] \in ValidPcs \/ sessionID[slot[t]] = id[t]
                              /\ pc[t] \in CallPcs

(* t receives for a session only if it did or takes its completion over *)
ReceiveGoesOn(t) ==
    /\ \A s \in Slots : recvOv'[s] # "idle" => recvOv[s] # "idle" \/ t \in Receivers(s)
    /\ \A s \in Slots : t \in Receivers(s)' => t \in Receivers(s) \/ recvOv[s] # "idle"
    /\ t \in Workers /\ pc[t] \in RecvPcs /\ pc'[t] \in RecvPcs => slot'[t] = slot[t]
    /\ t \in Workers /\ pc[t] \notin RecvPcs /\ pc'[t] \in RecvPcs
          => slot'[t] \in Slots /\ recvOv[slot'[t]] # "idle"

(* what a worker takes from the port *)
LEMMA QuietTake ==
    ASSUME SessionInv, NEW w \in Workers, Take(w)
    PROVE  Quiet(w) /\ CallGoesOn(w) /\ ReceiveGoesOn(w)
<1> USE DEF TypeInv, TypeOK, ThreadTypeOK, PortTypeOK, Quiet, CallGoesOn, ReceiveGoesOn,
            OnlyThread, Calling, Receivers
<1>1. w \in Threads /\ TypeInv
  BY InvParts, ThreadKinds
<1>2. ASSUME NEW s \in Slots, TakeRecv(w, s)
      PROVE  Quiet(w) /\ CallGoesOn(w) /\ ReceiveGoesOn(w)
  BY <1>1, <1>2 DEF TakeRecv, Dispatch
<1>3. ASSUME NEW s \in Slots, TakeSend(w, s)
      PROVE  Quiet(w) /\ CallGoesOn(w) /\ ReceiveGoesOn(w)
  BY <1>1, <1>3 DEF TakeSend, Dispatch
<1>4. ASSUME NEW s \in Slots, TakeSendPost(w, s)
      PROVE  Quiet(w) /\ CallGoesOn(w) /\ ReceiveGoesOn(w)
  BY <1>1, <1>4 DEF TakeSendPost, Dispatch
<1>5. ASSUME NEW s \in Slots, TakeRelease(w, s)
      PROVE  Quiet(w) /\ CallGoesOn(w) /\ ReceiveGoesOn(w)
  BY <1>1, <1>5 DEF TakeRelease, Dispatch
<1> QED BY <1>2, <1>3, <1>4, <1>5 DEF Take

(* the send logic *)
LEMMA QuietSend ==
    ASSUME SessionInv, NEW w \in Workers, SendStep(w)
    PROVE  Quiet(w) /\ CallGoesOn(w) /\ ReceiveGoesOn(w)
<1> USE DEF TypeInv, TypeOK, ThreadTypeOK, PortTypeOK, Quiet, CallGoesOn, ReceiveGoesOn,
            OnlyThread, Calling, Receivers
<1>1. w \in Threads /\ TypeInv
  BY InvParts, ThreadKinds
<1>2. CASE SendFree(w)
  BY <1>1, <1>2 DEF SendFree
<1>3. CASE SendUnflag(w)
  BY <1>1, <1>3 DEF SendUnflag
<1>4. CASE SpSize(w)
  BY <1>1, <1>4 DEF SpSize
<1>5. CASE SpFlag(w)
  BY <1>1, <1>5 DEF SpFlag
<1>6. CASE SpUse(w)
  BY <1>1, <1>6 DEF SpUse
<1>7. CASE SpClear(w)
  BY <1>1, <1>7 DEF SpClear
<1>8. CASE SpLoad(w)
  BY <1>1, <1>8 DEF SpLoad
<1>9. CASE SpCall(w)
  BY <1>1, <1>9 DEF SpCall
<1>10. CASE SpPending(w)
  BY <1>1, <1>10 DEF SpPending, CancelIfInvalid, Cancelled
<1> QED BY <1>2, <1>3, <1>4, <1>5, <1>6, <1>7, <1>8, <1>9, <1>10 DEF SendStep

(* the receive logic *)
LEMMA QuietRecv ==
    ASSUME SessionInv, NEW w \in Workers, RecvStep(w)
    PROVE  Quiet(w) /\ CallGoesOn(w) /\ ReceiveGoesOn(w)
<1> USE DEF TypeInv, TypeOK, ThreadTypeOK, PortTypeOK, Quiet, CallGoesOn, ReceiveGoesOn,
            OnlyThread, Calling, Receivers
<1>1. w \in Threads /\ TypeInv
  BY InvParts, ThreadKinds
<1>2. CASE ParseEnd(w)
  BY <1>1, <1>2 DEF ParseEnd
<1>3. CASE ParseBad(w)
  BY <1>1, <1>3 DEF ParseBad, Call
<1>4. CASE OnRecv(w)
  BY <1>1, <1>4 DEF OnRecv, Call
<1>5. CASE RpLoad(w)
  BY <1>1, <1>5 DEF RpLoad
<1>6. CASE RpCall(w)
  BY <1>1, <1>6 DEF RpCall
<1>7. CASE RpPending(w)
  BY <1>1, <1>7 DEF RpPending, CancelIfInvalid, Cancelled
<1> QED BY <1>2, <1>3, <1>4, <1>5, <1>6, <1>7 DEF RecvStep

(* a call of Disconnect or SendPacket *)
LEMMA QuietCall ==
    ASSUME SessionInv, NEW t \in Workers \cup ApiThreads, CallStep(t)
    PROVE  Quiet(t) /\ CallGoesOn(t) /\ ReceiveGoesOn(t)
<1> USE DEF TypeInv, TypeOK, ThreadTypeOK, PortTypeOK, Quiet, CallGoesOn, ReceiveGoesOn,
            OnlyThread, Calling, Receivers
<1>1. t \in Threads /\ TypeInv
  BY InvParts, ThreadKinds
<1>2. CASE Enter(t)
  BY <1>1, <1>2 DEF Enter
<1>3. CASE ChkFlag(t)
  BY <1>1, <1>3 DEF ChkFlag
<1>4. CASE ChkId(t)
  BY <1>1, <1>4 DEF ChkId
<1>5. CASE DcExchange(t)
  BY <1>1, <1>5 DEF DcExchange
<1>6. CASE DcCancel(t)
  BY <1>1, <1>6 DEF DcCancel, Cancelled
<1>7. CASE SqEnqueue(t)
  BY <1>1, <1>7 DEF SqEnqueue
<1>8. CASE SqPost(t)
  BY <1>1, <1>8 DEF SqPost, Return, EndCall, CallOK
<1>9. CASE SqPostFails(t)
  BY <1>1, <1>9 DEF SqPostFails
<1>10. CASE Leave(t)
  BY <1>1, <1>10 DEF Leave, Return, EndCall, CallOK
<1>11. CASE FreePkt(t)
  BY <1>1, <1>11 DEF FreePkt, Call, EndCall, CallOK
<1> QED BY <1>2, <1>3, <1>4, <1>5, <1>6, <1>7, <1>8, <1>9, <1>10, <1>11 DEF CallStep

(* the end of a worker's turn, and a call by a contents thread *)
LEMMA QuietDec ==
    ASSUME SessionInv, NEW w \in Workers, Dec(w)
    PROVE  Quiet(w) /\ CallGoesOn(w) /\ ReceiveGoesOn(w)
BY InvParts, ThreadKinds, IdleKinds
   DEF TypeInv, TypeOK, ThreadTypeOK, Quiet, CallGoesOn, ReceiveGoesOn, OnlyThread,
       Calling, Receivers, Dec, Finish

LEMMA QuietApiCall ==
    ASSUME SessionInv, NEW t \in ApiThreads, ApiCall(t)
    PROVE  Quiet(t) /\ CallGoesOn(t) /\ ReceiveGoesOn(t)
BY InvParts, ThreadKinds
   DEF TypeInv, TypeOK, ThreadTypeOK, Quiet, CallGoesOn, ReceiveGoesOn, OnlyThread,
       Calling, Receivers, ApiCall, Call

-----------------------------------------------------------------------------
(* an announced session is not being prepared and not arriving *)
LEMMA AnnouncedApart ==
    ASSUME SessionInv, NEW s \in Slots, Announced(s)
    PROVE  ~Arriving(s) /\ ~Preparing(s) /\ ~Numbered(s)
<1>1. TypeInv /\ SlotInv
  BY InvParts
<1>2. CASE Held(s) /\ ~Arriving(s)
  BY <1>2 DEF Held, Numbered, Arriving, Preparing
<1>3. CASE Releasing(s) # {}
  <2>1. releaseFlag[s] = 1 /\ ~Preparing(s)
    BY <1>1, <1>3 DEF SlotInv, OwnerOK
  <2>2. ~Held(s)
    BY <2>1 DEF Held
  <2>3. Arriving(s) => Held(s)
    BY <1>1, ThreadKinds DEF Arriving, SlotInv, HoldOK, Guarded
  <2> QED BY <2>1, <2>2, <2>3 DEF Numbered, Arriving, Preparing
<1> QED BY <1>2, <1>3 DEF Announced

(* a worker in the receive logic works for an announced session *)
LEMMA ReceiverAnnounced ==
    ASSUME SessionInv, StrandedOK, NEW w \in Workers, pc[w] \in RecvPcs
    PROVE  slot[w] \in Slots /\ Held(slot[w]) /\ Announced(slot[w])
<1>1. /\ TypeInv /\ SlotInv /\ ReceiverOK /\ w \in Threads /\ w # Acceptor
      /\ slot[w] \in Slots
  BY InvParts, ThreadKinds DEF TypeInv, PlaceOK
<1>2. Held(slot[w])
  BY <1>1, WorkerHolds DEF SlotInv
<1>3. w \in Receivers(slot[w])
  BY DEF Receivers
<1>4. ~(slot[Acceptor] = slot[w] /\ pc[Acceptor] = "AcJoin")
  <2>1. slot[Acceptor] = slot[w] /\ pc[Acceptor] = "AcJoin"
           => Acceptor \in Receivers(slot[w])
    BY DEF Receivers
  <2> QED BY <1>1, <1>3, <2>1 DEF ReceiverOK
<1>5. ~(slot[Acceptor] = slot[w] /\ pc[Acceptor] = "Stranded")
  BY <1>3 DEF StrandedOK
<1> QED BY <1>1, <1>2, <1>4, <1>5 DEF Announced, Arriving

(* An ordinary step of a worker or of a contents thread preserves what the   *)
(* contents know.                                                            *)
LEMMA ContentsQuiet ==
    ASSUME SessionInv, ContentsOK, NEW t \in Workers \cup ApiThreads,
           Quiet(t), CallGoesOn(t), ReceiveGoesOn(t)
    PROVE  ContentsOK'
<1>1. /\ TypeInv /\ SlotInv /\ ReceiverOK
      /\ t \in Threads /\ t # Acceptor /\ Acceptor \in Threads
      /\ pc'[Acceptor] = pc[Acceptor] /\ slot'[Acceptor] = slot[Acceptor]
  BY InvParts, ThreadKinds DEF Quiet, OnlyThread
<1>2. \A s \in Slots : /\ Preparing(s)' <=> Preparing(s)
                       /\ Arriving(s)' <=> Arriving(s)
                       /\ Numbered(s)' <=> Numbered(s)
  BY <1>1 DEF Preparing, Arriving, Numbered
<1>3. MapOK'
  <2>1. \A s \in Slots : Held(s)' <=> Held(s)
    BY <1>2 DEF Held, Quiet
  <2>2. \A s \in Slots : Announced(s)' <=> Announced(s)
    BY <1>2, <2>1 DEF Announced, Releasing, Quiet, OnlyThread
  <2>3. {u \in Slots : Announced(u)}' = {u \in Slots : Announced(u)}
    BY <2>2
  <2> QED BY <2>3 DEF ContentsOK, MapOK, Quiet
<1>4. StrandedOK'
  <2> SUFFICES ASSUME pc[Acceptor] = "Stranded", NEW s \in Slots, s = slot[Acceptor]
               PROVE  recvOv'[s] = "idle" /\ Receivers(s)' = {}
    BY <1>1 DEF StrandedOK, TypeInv, PlaceOK
  <2>1. recvOv[s] = "idle" /\ Receivers(s) = {}
    BY <1>1 DEF ContentsOK, StrandedOK
  <2>2. Receivers(s)' \ {t} \subseteq Receivers(s)
    BY <1>1, ThreadsFinite DEF Receivers, Quiet, OnlyThread
  <2> QED BY <2>1, <2>2 DEF ReceiveGoesOn
<1>5. IdOK'
  <2>1. \A u \in Threads \ {t} : (Calling(u)' <=> Calling(u)) /\ pc'[u] = pc[u]
    BY DEF Quiet, OnlyThread, Calling
  <2>2. \A u \in Threads \ {t} : slot'[u] = slot[u] /\ id'[u] = id[u]
    BY DEF Quiet, OnlyThread, CallGoesOn
  <2>3. t \in Workers /\ pc[t] = "Parse" => sessionID[slot[t]].idx = slot[t]
    BY <1>1 DEF SlotInv, IdentityOK, TypeInv, PlaceOK
  <2>4. Calling(t)' => id'[t].idx = slot'[t]
    BY <1>1, <2>3 DEF ContentsOK, IdOK, CallGoesOn
  <2>5. pc'[t] \in ValidPcs => sessionID'[slot'[t]] = id'[t]
    BY <1>1 DEF ContentsOK, IdOK, CallGoesOn, Quiet
  <2> QED BY <2>1, <2>2, <2>4, <2>5 DEF ContentsOK, IdOK, Quiet
<1>6. CountOK'
  <2>1. Uncounting' = Uncounting
    BY DEF Uncounting, Quiet, OnlyThread
  <2>2. InUse' = InUse /\ nowSession' = nowSession
    BY DEF InUse, Quiet
  <2> QED BY <1>1, <2>1, <2>2 DEF ContentsOK, CountOK
<1>7. ASSUME NoWrap PROVE CntOK'
  <2>1. CntOK
    BY <1>7 DEF ContentsOK
  <2>2. CntLimit' = CntLimit /\ UNCHANGED <<sessionCnt, sessionID>>
    BY <1>1 DEF CntLimit, Accepting, Quiet
  <2>3. \A i \in characterMap : i.cnt < CntLimit
    <3>1. \A s \in Slots : Announced(s) => sessionID[s].cnt < CntLimit
      BY <2>1, AnnouncedApart DEF CntOK
    <3> QED BY <3>1 DEF ContentsOK, MapOK
  <2>4. t \in Workers /\ pc[t] = "Parse" => sessionID[slot[t]].cnt < CntLimit
    <3>1. StrandedOK
      BY DEF ContentsOK
    <3> QED BY <2>1, <3>1, ReceiverAnnounced, AnnouncedApart DEF CntOK
  <2>5. Calling(t)' => id'[t].cnt < CntLimit
    BY <1>1, <2>1, <2>3, <2>4 DEF CntOK, CallGoesOn
  <2>6. \A u \in Threads \ {t} : (Calling(u)' <=> Calling(u)) /\ id'[u] = id[u]
    BY DEF Quiet, OnlyThread, Calling, CallGoesOn
  <2> QED BY <1>2, <2>1, <2>2, <2>5, <2>6 DEF CntOK
<1> QED BY <1>3, <1>4, <1>5, <1>6, <1>7 DEF ContentsOK, NoWrap

(* nor does a completion that the kernel reports *)
LEMMA ContentsKernel ==
    ASSUME SessionInv, ContentsOK, Kernel
    PROVE  ContentsOK'
<1>1. PICK s \in Slots : RecvComplete(s) \/ SendComplete(s)
  BY DEF Kernel
<1>2. /\ UNCHANGED <<sessVars, tableVars, pc, localVars>>
      /\ \A u \in Slots : recvOv[u] = "idle" => recvOv'[u] = "idle"
  BY <1>1, InvParts DEF RecvComplete, SendComplete, TypeInv, TypeOK, PortTypeOK
<1>3. MapOK'
  <2>1. \A u \in Slots : Announced(u)' <=> Announced(u)
    BY <1>2 DEF Announced, Held, Arriving, Preparing, Releasing
  <2>2. {u \in Slots : Announced(u)}' = {u \in Slots : Announced(u)}
    BY <2>1
  <2> QED BY <1>2, <2>2 DEF ContentsOK, MapOK
<1>4. StrandedOK'
  <2>1. pc[Acceptor] = "Stranded" => slot[Acceptor] \in Slots
    BY InvParts, ThreadKinds DEF TypeInv, PlaceOK
  <2> QED BY <1>2, <2>1 DEF ContentsOK, StrandedOK, Receivers
<1>5. IdOK'
  BY <1>2 DEF ContentsOK, IdOK, Calling
<1>6. CountOK'
  <2>1. InUse' = InUse /\ Uncounting' = Uncounting
    BY <1>2 DEF InUse, Uncounting
  <2> QED BY <1>2, <2>1 DEF ContentsOK, CountOK
<1>7. NoWrap => CntOK'
  <2>1. CntLimit' = CntLimit /\ \A u \in Slots : Numbered(u)' <=> Numbered(u)
    BY <1>2 DEF CntLimit, Accepting, Numbered
  <2> QED BY <1>2, <2>1 DEF ContentsOK, CntOK, Calling
<1> QED BY <1>3, <1>4, <1>5, <1>6, <1>7 DEF ContentsOK, NoWrap

-----------------------------------------------------------------------------
(* A release changes what the contents know only in RelLeave, and the count   *)
(* only in RelPush and RelCount.                                              *)
RelStepPcs == ReleasePcs \cup {"RelCas", "RelCount"}

LEMMA ContentsRelease ==
    ASSUME SessionInv, ContentsOK, NEW t \in Workers \cup {Acceptor}, OnlyThread(t),
           UNCHANGED <<sessionID, sessionCnt, id, recvOv>>,
           pc[t] \in RelStepPcs, pc'[t] \in RelStepPcs \cup {"Gqcs", "AcAccept"}
    PROVE  StrandedOK' /\ IdOK' /\ (NoWrap => CntOK')
<1>1. TypeInv /\ SlotInv /\ t \in Threads /\ Acceptor \in Threads
  BY InvParts, ThreadKinds
<1>2. /\ \A u \in Threads : Calling(u)' <=> Calling(u)
      /\ \A u \in Threads : Calling(u) => slot'[u] = slot[u]
      /\ \A u \in Threads : pc'[u] \in ValidPcs <=> pc[u] \in ValidPcs
      /\ \A u \in Threads : pc[u] \in ValidPcs => slot'[u] = slot[u]
  BY DEF Calling, OnlyThread, RelStepPcs
<1>3. StrandedOK'
  <2>1. pc'[Acceptor] = "Stranded" =>
           pc[Acceptor] = "Stranded" /\ slot'[Acceptor] = slot[Acceptor]
    BY <1>1 DEF OnlyThread, RelStepPcs
  <2>2. pc[Acceptor] = "Stranded" => slot[Acceptor] \in Slots
    BY <1>1 DEF TypeInv, PlaceOK
  <2>3. \A s \in Slots : Receivers(s)' \subseteq Receivers(s)
    BY <1>1, ThreadsFinite DEF Receivers, OnlyThread, RelStepPcs
  <2>4. ASSUME NEW s \in Slots, pc'[Acceptor] = "Stranded", s = slot'[Acceptor]
        PROVE  recvOv'[s] = "idle" /\ Receivers(s)' = {}
    BY <2>1, <2>3, <2>4 DEF ContentsOK, StrandedOK
  <2> QED BY <2>1, <2>2, <2>4 DEF StrandedOK
<1>4. IdOK'
  BY <1>2 DEF ContentsOK, IdOK
<1>5. ASSUME NoWrap PROVE CntOK'
  <2>1. Accepting' <=> Accepting
    BY <1>1 DEF Accepting, OnlyThread, RelStepPcs
  <2>2. \A s \in Slots : Numbered(s)' <=> Numbered(s)
    BY <1>1 DEF Numbered, OnlyThread, RelStepPcs
  <2>3. CntLimit' = CntLimit
    BY <2>1 DEF CntLimit
  <2> QED BY <1>2, <1>5, <2>2, <2>3 DEF ContentsOK, CntOK
<1> QED BY <1>3, <1>4, <1>5

(* the map is right if the same sessions are announced *)
LEMMA MapFrame ==
    ASSUME MapOK, UNCHANGED <<sessionID, characterMap>>,
           \A s \in Slots : Announced(s)' <=> Announced(s)
    PROVE  MapOK'
<1>1. {u \in Slots : Announced(u)}' = {u \in Slots : Announced(u)}
  OBVIOUS
<1> QED BY <1>1 DEF MapOK

LEMMA ContentsRelCas ==
    ASSUME SessionInv, ContentsOK, NEW t \in Workers \cup {Acceptor}, RelCas(t)
    PROVE  ContentsOK'
<1>1. /\ TypeInv /\ SlotInv /\ t \in Threads /\ slot[t] \in Slots
  BY InvParts, ThreadKinds DEF TypeInv, PlaceOK, RelCas
<1>s. PICK s \in Slots : slot[t] = s
  BY <1>1
<1>2. /\ OnlyThread(t) /\ pc[t] = "RelCas"
      /\ \/ MayRelease(s) /\ slot'[t] = s /\ pc'[t] = "RelDrain"
         \/ ~MayRelease(s) /\ slot'[t] = NoSlot /\ pc'[t] \in {"Gqcs", "AcAccept"}
  BY <1>1, <1>s, IdleKinds
     DEF OnlyThread, RelCas, Finish, TypeInv, TypeOK, ThreadTypeOK
<1>3. UNCHANGED <<sessionID, id, recvOv, tableVars>>
  BY DEF RelCas
<1>4. StrandedOK' /\ IdOK' /\ (NoWrap => CntOK')
  BY <1>2, <1>3, ContentsRelease DEF RelStepPcs
<1>5. CountOK'
  <2>1. Uncounting' = Uncounting /\ InUse' = InUse
    BY <1>1, <1>2, <1>3 DEF Uncounting, InUse, OnlyThread
  <2>2. (pc'[Acceptor] = "AcPop") <=> (pc[Acceptor] = "AcPop")
    BY <1>2, ThreadKinds DEF OnlyThread
  <2> QED BY <1>3, <2>1, <2>2 DEF ContentsOK, CountOK
<1>6. \A u \in Slots : (Preparing(u)' <=> Preparing(u)) /\ (Arriving(u)' <=> Arriving(u))
  BY <1>1, <1>2, ThreadKinds DEF Preparing, Arriving, OnlyThread
<1>7. \A u \in Slots \ {s} : Announced(u)' <=> Announced(u)
  <2>1. \A u \in Slots \ {s} : releaseFlag'[u] = releaseFlag[u]
    BY <1>1, <1>s DEF RelCas, TypeInv, TypeOK, SessionTypeOK
  <2>2. \A u \in Slots \ {s} : Held(u)' <=> Held(u)
    BY <1>3, <1>6, <2>1 DEF Held
  <2>3. \A u \in Slots \ {s} : t \notin Releasing(u) /\ t \notin Releasing(u)'
    BY <1>s, <1>2, SlotAssumption DEF Releasing
  <2> QED BY <1>2, <1>6, <2>2, <2>3 DEF Announced, Releasing, OnlyThread
<1>8. Announced(s)' <=> Announced(s)
  <2>1. CASE MayRelease(s)
    <3>1. Held(s)
      <4>1. ~(t = Acceptor /\ Preparing(s))
        BY <1>2 DEF Preparing
      <4>2. Reached(s)
        BY <1>1, <1>s, <4>1 DEF SlotInv, ReachOK
      <4> QED BY <2>1, <4>2 DEF Reached, Held, MayRelease
    <3>2. ~Arriving(s)
      <4>1. \A u \in Threads : slot[u] = s => ~Guarded(u)
        BY <1>1, <2>1, NobodyInside DEF SlotInv, MayRelease
      <4> QED BY <4>1, ThreadKinds DEF Guarded, Arriving
    <3>3. t \in Releasing(s)' /\ pc'[t] = "RelDrain"
      BY <1>1, <1>2, <2>1 DEF Releasing
    <3> QED BY <3>1, <3>2, <3>3 DEF Announced
  <2>2. CASE ~MayRelease(s)
    <3>1. releaseFlag' = releaseFlag
      BY <1>s, <2>2 DEF RelCas
    <3>2. Held(s)' <=> Held(s)
      BY <1>3, <1>6, <3>1 DEF Held
    <3>3. t \notin Releasing(s) /\ t \notin Releasing(s)'
      BY <1>2, <2>2 DEF Releasing
    <3> QED BY <1>2, <1>6, <3>2, <3>3 DEF Announced, Releasing, OnlyThread
  <2> QED BY <2>1, <2>2
<1>9. MapOK'
  BY <1>3, <1>7, <1>8, MapFrame DEF ContentsOK
<1> QED BY <1>4, <1>5, <1>9 DEF ContentsOK, NoWrap

LEMMA ContentsRelDrain ==
    ASSUME SessionInv, ContentsOK, NEW t \in Workers \cup {Acceptor}, RelDrain(t)
    PROVE  ContentsOK'
<1>1. TypeInv /\ SlotInv /\ t \in Threads
  BY InvParts, ThreadKinds
<1>2. OnlyThread(t) /\ pc[t] = "RelDrain" /\ pc'[t] = "RelLeave" /\ slot' = slot
  BY <1>1 DEF OnlyThread, RelDrain, TypeInv, TypeOK, ThreadTypeOK
<1>3. UNCHANGED <<sessionID, releaseFlag, id, recvOv, tableVars>>
  BY DEF RelDrain
<1>4. StrandedOK' /\ IdOK' /\ (NoWrap => CntOK')
  BY <1>2, <1>3, ContentsRelease DEF RelStepPcs
<1>5. CountOK'
  <2>1. Uncounting' = Uncounting /\ InUse' = InUse
    BY <1>1, <1>2, <1>3 DEF Uncounting, InUse, OnlyThread
  <2>2. (pc'[Acceptor] = "AcPop") <=> (pc[Acceptor] = "AcPop")
    BY <1>2, ThreadKinds DEF OnlyThread
  <2> QED BY <1>3, <2>1, <2>2 DEF ContentsOK, CountOK
<1>6. \A u \in Slots : Announced(u)' <=> Announced(u)
  <2>1. \A u \in Slots : (Preparing(u)' <=> Preparing(u)) /\ (Arriving(u)' <=> Arriving(u))
    BY <1>1, <1>2, ThreadKinds DEF Preparing, Arriving, OnlyThread
  <2>2. \A u \in Slots : Held(u)' <=> Held(u)
    BY <1>3, <2>1 DEF Held
  <2> QED BY <1>2, <2>1, <2>2 DEF Announced, Releasing, OnlyThread
<1>7. MapOK'
  BY <1>3, <1>6, MapFrame DEF ContentsOK
<1> QED BY <1>4, <1>5, <1>7 DEF ContentsOK, NoWrap

(* OnClientLeave: the releasing thread removes its own session, and no other *)
LEMMA ContentsRelLeave ==
    ASSUME SessionInv, ContentsOK, NEW t \in Workers \cup {Acceptor}, RelLeave(t)
    PROVE  ContentsOK'
<1>1. TypeInv /\ SlotInv /\ t \in Threads /\ slot[t] \in Slots
  BY InvParts, ThreadKinds DEF RelLeave, TypeInv, PlaceOK
<1>s. PICK s \in Slots : slot[t] = s
  BY <1>1
<1>2. OnlyThread(t) /\ pc[t] = "RelLeave" /\ pc'[t] = "RelPush" /\ slot' = slot
  BY <1>1 DEF OnlyThread, RelLeave, TypeInv, TypeOK, ThreadTypeOK
<1>3. /\ UNCHANGED <<sessionID, releaseFlag, id, recvOv, freeStack, nowSession, sessionCnt>>
      /\ characterMap' = characterMap \ {sessionID[s]}
  BY <1>s DEF RelLeave
<1>4. StrandedOK' /\ IdOK' /\ (NoWrap => CntOK')
  BY <1>2, <1>3, ContentsRelease DEF RelStepPcs
<1>5. CountOK'
  <2>1. Uncounting' = Uncounting /\ InUse' = InUse
    BY <1>1, <1>2, <1>3 DEF Uncounting, InUse, OnlyThread
  <2>2. (pc'[Acceptor] = "AcPop") <=> (pc[Acceptor] = "AcPop")
    BY <1>2, ThreadKinds DEF OnlyThread
  <2> QED BY <1>3, <2>1, <2>2 DEF ContentsOK, CountOK
<1>6. \A u \in Slots \ {s} : Announced(u)' <=> Announced(u)
  <2>1. \A u \in Slots : (Preparing(u)' <=> Preparing(u)) /\ (Arriving(u)' <=> Arriving(u))
    BY <1>1, <1>2, ThreadKinds DEF Preparing, Arriving, OnlyThread
  <2>2. \A u \in Slots : Held(u)' <=> Held(u)
    BY <1>3, <2>1 DEF Held
  <2> QED BY <1>s, <1>2, <2>1, <2>2 DEF Announced, Releasing, OnlyThread
<1>7. ~Announced(s)'
  <2>1. t \in Releasing(s)
    BY <1>1, <1>s, <1>2 DEF Releasing
  <2>2. releaseFlag[s] = 1 /\ Releasing(s) = {t}
    BY <1>1, <2>1 DEF SlotInv, OwnerOK
  <2>3. ~Held(s)'
    BY <1>3, <2>2 DEF Held
  <2>4. Releasing(s)' = {t}
    BY <1>1, <1>s, <1>2, <2>2 DEF Releasing, OnlyThread
  <2> QED BY <1>2, <2>3, <2>4 DEF Announced
<1>8. MapOK'
  <2>1. \A u \in Slots : sessionID[u].idx = u
    BY <1>1 DEF SlotInv, IdentityOK
  <2>2. \A u \in Slots \ {s} : sessionID[u] # sessionID[s]
    BY <2>1
  <2>3. characterMap = {sessionID[u] : u \in {v \in Slots : Announced(v)}}
    BY DEF ContentsOK, MapOK
  <2>4. {v \in Slots : Announced(v)}' = {v \in Slots : Announced(v)} \ {s}
    BY <1>6, <1>7
  <2>5. characterMap' = {sessionID[u] : u \in {v \in Slots : Announced(v)}'}
    BY <1>3, <2>2, <2>3, <2>4
  <2> QED BY <1>3, <2>5 DEF MapOK
<1> QED BY <1>4, <1>5, <1>8 DEF ContentsOK, NoWrap

(* the slot is free again, and its releaser has not uncounted it yet *)
LEMMA ContentsRelPush ==
    ASSUME SessionInv, ContentsOK, NEW t \in Workers \cup {Acceptor}, RelPush(t)
    PROVE  ContentsOK'
<1>1. TypeInv /\ SlotInv /\ t \in Threads /\ slot[t] \in Slots
  BY InvParts, ThreadKinds DEF RelPush, TypeInv, PlaceOK
<1>s. PICK s \in Slots : slot[t] = s
  BY <1>1
<1>2. OnlyThread(t) /\ pc[t] = "RelPush" /\ pc'[t] = "RelCount" /\ slot'[t] = NoSlot
  BY <1>1 DEF OnlyThread, RelPush, TypeInv, TypeOK, ThreadTypeOK
<1>3. /\ UNCHANGED <<sessionID, releaseFlag, id, recvOv, characterMap, nowSession, sessionCnt>>
      /\ freeStack' = [freeStack EXCEPT ![s] = @ + 1]
  BY <1>1, <1>s DEF RelPush, SlotInv, IdentityOK
<1>4. StrandedOK' /\ IdOK' /\ (NoWrap => CntOK')
  BY <1>2, <1>3, ContentsRelease DEF RelStepPcs
<1>5. CountOK'
  <2>1. freeStack[s] = 0
    BY <1>1, <1>s, <1>2 DEF SlotInv, OwnerOK, Releasing
  <2>2. s \in InUse /\ InUse' = InUse \ {s}
    BY <1>1, <1>3, <2>1 DEF InUse, TypeInv, TypeOK, TableTypeOK
  <2>3. t \notin Uncounting /\ Uncounting' = Uncounting \cup {t}
    BY <1>1, <1>2 DEF Uncounting, OnlyThread
  <2>4. IsFiniteSet(InUse) /\ IsFiniteSet(Uncounting)
    BY SlotAssumption, ThreadsFinite, FS_Subset DEF InUse, Uncounting
  <2>5. /\ Cardinality(InUse') = Cardinality(InUse) - 1
        /\ Cardinality(Uncounting') = Cardinality(Uncounting) + 1
    BY <2>2, <2>3, <2>4, FS_RemoveElement, FS_AddElement
  <2>6. Cardinality(InUse) \in Nat /\ Cardinality(Uncounting) \in Nat
    BY <2>4, FS_CardinalityType
  <2>7. (pc'[Acceptor] = "AcPop") <=> (pc[Acceptor] = "AcPop")
    BY <1>2, ThreadKinds DEF OnlyThread
  <2> QED BY <1>3, <2>5, <2>6, <2>7 DEF ContentsOK, CountOK
<1>6. \A u \in Slots : Announced(u)' <=> Announced(u)
  <2>1. \A u \in Slots : (Preparing(u)' <=> Preparing(u)) /\ (Arriving(u)' <=> Arriving(u))
    BY <1>1, <1>2, ThreadKinds DEF Preparing, Arriving, OnlyThread
  <2>2. \A u \in Slots : Held(u)' <=> Held(u)
    BY <1>3, <2>1 DEF Held
  <2> QED BY <1>2, <2>1, <2>2 DEF Announced, Releasing, OnlyThread
<1>7. MapOK'
  BY <1>3, <1>6, MapFrame DEF ContentsOK
<1> QED BY <1>4, <1>5, <1>7 DEF ContentsOK, NoWrap

LEMMA ContentsRelCount ==
    ASSUME SessionInv, ContentsOK, NEW t \in Workers \cup {Acceptor}, RelCount(t)
    PROVE  ContentsOK'
<1>1. TypeInv /\ SlotInv /\ t \in Threads
  BY InvParts, ThreadKinds
<1>2. /\ OnlyThread(t) /\ pc[t] = "RelCount" /\ slot' = slot
      /\ pc'[t] \in {"Gqcs", "AcAccept"}
  BY <1>1, IdleKinds DEF OnlyThread, RelCount, TypeInv, TypeOK, ThreadTypeOK
<1>3. /\ UNCHANGED <<sessionID, releaseFlag, id, recvOv, freeStack, characterMap, sessionCnt>>
      /\ nowSession' = nowSession - 1
  BY DEF RelCount
<1>4. StrandedOK' /\ IdOK' /\ (NoWrap => CntOK')
  BY <1>2, <1>3, ContentsRelease DEF RelStepPcs
<1>5. CountOK'
  <2>1. t \in Uncounting /\ Uncounting' = Uncounting \ {t} /\ InUse' = InUse
    BY <1>1, <1>2, <1>3 DEF Uncounting, InUse, OnlyThread
  <2>2. IsFiniteSet(InUse) /\ IsFiniteSet(Uncounting)
    BY SlotAssumption, ThreadsFinite, FS_Subset DEF InUse, Uncounting
  <2>3. Cardinality(Uncounting') = Cardinality(Uncounting) - 1
    BY <2>1, <2>2, FS_RemoveElement
  <2>4. /\ Cardinality(InUse) \in Nat /\ Cardinality(Uncounting) \in Nat
        /\ nowSession \in Int /\ MaxUser \in Nat
    BY <1>1, <2>2, SlotAssumption, FS_CardinalityType
       DEF TypeInv, TypeOK, TableTypeOK, MaxUser
  <2>5. (pc'[Acceptor] = "AcPop") <=> (pc[Acceptor] = "AcPop")
    BY <1>2, ThreadKinds DEF OnlyThread
  <2> QED BY <1>3, <2>1, <2>3, <2>4, <2>5 DEF ContentsOK, CountOK
<1>6. \A u \in Slots : Announced(u)' <=> Announced(u)
  <2>1. \A u \in Slots : (Preparing(u)' <=> Preparing(u)) /\ (Arriving(u)' <=> Arriving(u))
    BY <1>1, <1>2, ThreadKinds DEF Preparing, Arriving, OnlyThread
  <2>2. \A u \in Slots : Held(u)' <=> Held(u)
    BY <1>3, <2>1 DEF Held
  <2> QED BY <1>2, <2>1, <2>2 DEF Announced, Releasing, OnlyThread
<1>7. MapOK'
  BY <1>3, <1>6, MapFrame DEF ContentsOK
<1> QED BY <1>4, <1>5, <1>7 DEF ContentsOK, NoWrap

-----------------------------------------------------------------------------
(* The accept thread makes no calls; it changes an identifier only of a slot *)
(* that no valid call is in.                                                 *)
LEMMA AcceptCalls ==
    ASSUME SessionInv, TypeInv', ContentsOK, OnlyThread(Acceptor), id' = id,
           \A s \in Slots : Held(s) => sessionID'[s] = sessionID[s]
    PROVE  /\ IdOK'
           /\ \A t \in Threads : Calling(t)' => Calling(t) /\ id'[t] = id[t]
<1>1. TypeInv /\ SlotInv /\ Acceptor \in Threads /\ Acceptor \notin Workers
  BY InvParts, ThreadKinds
<1>2. ~Calling(Acceptor)' /\ pc'[Acceptor] \notin ValidPcs
  BY <1>1 DEF TypeInv, PlaceOK, Calling
<1>3. \A t \in Threads \ {Acceptor} :
         (Calling(t)' <=> Calling(t)) /\ pc'[t] = pc[t] /\ slot'[t] = slot[t]
  BY DEF Calling, OnlyThread
<1>4. \A t \in Threads : pc[t] \in ValidPcs => slot[t] \in Slots /\ Held(slot[t])
  BY <1>1 DEF TypeInv, PlaceOK, SlotInv, HoldOK, Guarded
<1> QED BY <1>2, <1>3, <1>4 DEF ContentsOK, IdOK

(* a step of the accept thread that neither begins nor announces a session *)
LEMMA AcceptFrame ==
    ASSUME SessionInv, TypeInv', ContentsOK, OnlyThread(Acceptor), id' = id,
           UNCHANGED <<sessionID, releaseFlag, characterMap>>,
           pc[Acceptor] \notin {"AcArm", "AcJoin", "Stranded"} \cup ReleasePcs,
           pc'[Acceptor] \notin {"AcArm", "AcJoin", "Stranded"} \cup ReleasePcs,
           \A s \in Slots : /\ Preparing(s) => Preparing(s)'
                            /\ Preparing(s)' => Preparing(s) \/ ~Announced(s),
           NoWrap /\ CntOK => CntLimit' = CntLimit
    PROVE  StrandedOK' /\ IdOK' /\ MapOK' /\ (NoWrap => CntOK')
<1>1. TypeInv /\ SlotInv /\ Acceptor \in Threads /\ Acceptor \notin Workers
  BY InvParts, ThreadKinds
<1>2. IdOK' /\ \A t \in Threads : Calling(t)' => Calling(t) /\ id'[t] = id[t]
  BY AcceptCalls
<1>3. \A s \in Slots : ~Arriving(s) /\ ~Arriving(s)' /\ ~Numbered(s) /\ ~Numbered(s)'
  BY DEF Arriving, Numbered
<1>4. \A s \in Slots : Releasing(s)' = Releasing(s)
  BY DEF Releasing, OnlyThread
<1>5. \A s \in Slots : Announced(s)' <=> Announced(s)
  <2> TAKE s \in Slots
  <2>1. \A t \in Releasing(s) : pc'[t] = pc[t]
    BY DEF Releasing, OnlyThread
  <2>2. CASE Preparing(s)' => Preparing(s)
    <3>1. Held(s)' <=> Held(s)
      BY <2>2 DEF Held
    <3> QED BY <1>3, <1>4, <2>1, <3>1 DEF Announced
  <2>3. CASE Preparing(s)' /\ ~Preparing(s)
    <3>1. ~Held(s)' /\ ~Announced(s)
      BY <2>3 DEF Held
    <3> QED BY <1>3, <1>4, <2>1, <2>3, <3>1 DEF Announced
  <2> QED BY <2>2, <2>3
<1>6. MapOK'
  BY <1>5, MapFrame DEF ContentsOK
<1>7. StrandedOK'
  BY DEF StrandedOK
<1>8. ASSUME NoWrap PROVE CntOK'
  <2>1. CntOK /\ CntLimit' = CntLimit
    BY <1>8 DEF ContentsOK
  <2> QED BY <1>2, <1>3, <2>1 DEF CntOK
<1> QED BY <1>2, <1>6, <1>7, <1>8

LEMMA ContentsAcAccept ==
    ASSUME SessionInv, TypeInv', ContentsOK, AcAccept
    PROVE  ContentsOK'
<1>1. TypeInv /\ SlotInv /\ Acceptor \in Threads
  BY InvParts, ThreadKinds
<1>2. /\ OnlyThread(Acceptor) /\ slot' = slot
      /\ pc[Acceptor] = "AcAccept" /\ pc'[Acceptor] = "AcPop"
  BY <1>1 DEF OnlyThread, AcAccept, TypeInv, TypeOK, ThreadTypeOK
<1>3. /\ UNCHANGED <<sessionID, releaseFlag, id, characterMap, freeStack>>
      /\ nowSession' = nowSession + 1 /\ nowSession # MaxUser
  BY DEF AcAccept
<1>4. ASSUME NoWrap PROVE CntLimit' = CntLimit
  <2>1. sessionCnt' = sessionCnt + 1
    BY <1>1, <1>4, BoundAssumption
       DEF AcAccept, NextSessionCnt, NoWrap, TypeInv, TypeOK, TableTypeOK
  <2> QED BY <1>2, <2>1 DEF CntLimit, Accepting
<1>5. \A s \in Slots : /\ Preparing(s) => Preparing(s)'
                       /\ Preparing(s)' => Preparing(s) \/ ~Announced(s)
  BY <1>2 DEF Preparing
<1>6. StrandedOK' /\ IdOK' /\ MapOK' /\ (NoWrap => CntOK')
  BY <1>2, <1>3, <1>4, <1>5, AcceptFrame
<1>7. CountOK'
  <2>1. Uncounting' = Uncounting /\ InUse' = InUse
    BY <1>1, <1>2, <1>3 DEF Uncounting, InUse, OnlyThread
  <2>2. IsFiniteSet(InUse) /\ IsFiniteSet(Uncounting)
    BY SlotAssumption, ThreadsFinite, FS_Subset DEF InUse, Uncounting
  <2>3. /\ Cardinality(InUse) \in Nat /\ Cardinality(Uncounting) \in Nat
        /\ nowSession \in Int /\ MaxUser \in Nat
    BY <1>1, <2>2, SlotAssumption, FS_CardinalityType
       DEF TypeInv, TypeOK, TableTypeOK, MaxUser
  <2> QED BY <1>2, <1>3, <2>1, <2>3 DEF ContentsOK, CountOK
<1> QED BY <1>6, <1>7 DEF ContentsOK, NoWrap

LEMMA ContentsAcEnd ==
    ASSUME SessionInv, TypeInv', ContentsOK, AcEnd
    PROVE  ContentsOK'
<1>1. TypeInv /\ SlotInv /\ Acceptor \in Threads
  BY InvParts, ThreadKinds
<1>2. /\ OnlyThread(Acceptor) /\ slot' = slot
      /\ pc[Acceptor] = "AcAccept" /\ pc'[Acceptor] = "Ended"
  BY <1>1 DEF OnlyThread, AcEnd, TypeInv, TypeOK, ThreadTypeOK
<1>3. UNCHANGED <<sessionID, releaseFlag, id, tableVars>>
  BY DEF AcEnd
<1>4. CntLimit' = CntLimit
  BY <1>2, <1>3 DEF CntLimit, Accepting
<1>5. \A s \in Slots : /\ Preparing(s) => Preparing(s)'
                       /\ Preparing(s)' => Preparing(s) \/ ~Announced(s)
  BY <1>2 DEF Preparing
<1>6. StrandedOK' /\ IdOK' /\ MapOK' /\ (NoWrap => CntOK')
  BY <1>2, <1>3, <1>4, <1>5, AcceptFrame
<1>7. CountOK'
  <2>1. Uncounting' = Uncounting /\ InUse' = InUse
    BY <1>1, <1>2, <1>3 DEF Uncounting, InUse, OnlyThread
  <2> QED BY <1>2, <1>3, <2>1 DEF ContentsOK, CountOK
<1> QED BY <1>6, <1>7 DEF ContentsOK, NoWrap

(* a slot on the free stack carries no announced session *)
LEMMA ContentsAcPop ==
    ASSUME SessionInv, TypeInv', ContentsOK, NEW s \in Slots, AcPop(s)
    PROVE  ContentsOK'
<1>1. TypeInv /\ SlotInv /\ Acceptor \in Threads
  BY InvParts, ThreadKinds
<1>2. /\ OnlyThread(Acceptor) /\ slot'[Acceptor] = s
      /\ pc[Acceptor] = "AcPop" /\ pc'[Acceptor] = "AcInc"
  BY <1>1 DEF OnlyThread, AcPop, TypeInv, TypeOK, ThreadTypeOK
<1>3. /\ UNCHANGED <<sessionID, releaseFlag, id, characterMap, nowSession, sessionCnt>>
      /\ freeStack' = [freeStack EXCEPT ![s] = @ - 1] /\ freeStack[s] = 1
  BY <1>1 DEF AcPop, SlotInv, OwnerOK
<1>4. CntLimit' = CntLimit
  BY <1>2, <1>3 DEF CntLimit, Accepting
<1>5. \A u \in Slots : /\ Preparing(u) => Preparing(u)'
                       /\ Preparing(u)' => Preparing(u) \/ ~Announced(u)
  <2>1. ~Announced(s)
    BY <1>1, <1>3 DEF SlotInv, OwnerOK, Live, Held, Announced
  <2>2. \A u \in Slots : ~Preparing(u) /\ (Preparing(u)' <=> u = s)
    BY <1>2 DEF Preparing
  <2> QED BY <2>1, <2>2
<1>6. StrandedOK' /\ IdOK' /\ MapOK' /\ (NoWrap => CntOK')
  BY <1>2, <1>3, <1>4, <1>5, AcceptFrame
<1>7. CountOK'
  <2>1. Uncounting' = Uncounting
    BY <1>1, <1>2 DEF Uncounting, OnlyThread
  <2>2. s \notin InUse /\ InUse' = InUse \cup {s}
    BY <1>1, <1>3 DEF InUse, TypeInv, TypeOK, TableTypeOK
  <2>3. IsFiniteSet(InUse) /\ IsFiniteSet(Uncounting)
    BY SlotAssumption, ThreadsFinite, FS_Subset DEF InUse, Uncounting
  <2>4. Cardinality(InUse') = Cardinality(InUse) + 1
    BY <2>2, <2>3, FS_AddElement
  <2>5. Cardinality(InUse) \in Nat /\ Cardinality(Uncounting) \in Nat
    BY <2>3, FS_CardinalityType
  <2> QED BY <1>2, <1>3, <2>1, <2>4, <2>5 DEF ContentsOK, CountOK
<1> QED BY <1>6, <1>7 DEF ContentsOK, NoWrap

LEMMA ContentsAcInc ==
    ASSUME SessionInv, TypeInv', ContentsOK, AcInc
    PROVE  ContentsOK'
<1>1. TypeInv /\ SlotInv /\ Acceptor \in Threads
  BY InvParts, ThreadKinds
<1>2. /\ OnlyThread(Acceptor) /\ slot' = slot
      /\ pc[Acceptor] = "AcInc" /\ pc'[Acceptor] = "AcId"
  BY <1>1 DEF OnlyThread, AcInc, TypeInv, TypeOK, ThreadTypeOK
<1>3. UNCHANGED <<sessionID, releaseFlag, id, tableVars>>
  BY DEF AcInc
<1>4. CntLimit' = CntLimit
  BY <1>2, <1>3 DEF CntLimit, Accepting
<1>5. \A s \in Slots : /\ Preparing(s) => Preparing(s)'
                       /\ Preparing(s)' => Preparing(s) \/ ~Announced(s)
  BY <1>2 DEF Preparing
<1>6. StrandedOK' /\ IdOK' /\ MapOK' /\ (NoWrap => CntOK')
  BY <1>2, <1>3, <1>4, <1>5, AcceptFrame
<1>7. CountOK'
  <2>1. Uncounting' = Uncounting /\ InUse' = InUse
    BY <1>1, <1>2, <1>3 DEF Uncounting, InUse, OnlyThread
  <2> QED BY <1>2, <1>3, <2>1 DEF ContentsOK, CountOK
<1> QED BY <1>6, <1>7 DEF ContentsOK, NoWrap

(* the slot being prepared gets an identifier greater than every other *)
LEMMA ContentsAcId ==
    ASSUME SessionInv, TypeInv', ContentsOK, AcId
    PROVE  ContentsOK'
<1>1. TypeInv /\ SlotInv /\ Acceptor \in Threads /\ slot[Acceptor] \in Slots
  BY InvParts, ThreadKinds DEF AcId, TypeInv, PlaceOK
<1>s. PICK s \in Slots : slot[Acceptor] = s
  BY <1>1
<1>2. /\ OnlyThread(Acceptor) /\ slot' = slot
      /\ pc[Acceptor] = "AcId" /\ pc'[Acceptor] = "AcArm"
  BY <1>1 DEF OnlyThread, AcId, TypeInv, TypeOK, ThreadTypeOK
<1>3. /\ UNCHANGED <<releaseFlag, id, tableVars>>
      /\ sessionID'[s] = [cnt |-> sessionCnt, idx |-> s]
      /\ \A u \in Slots \ {s} : sessionID'[u] = sessionID[u]
  BY <1>1, <1>s DEF AcId, TypeInv, TypeOK, SessionTypeOK
<1>4. \A u \in Slots : (Preparing(u)' <=> u = s) /\ (Preparing(u) <=> u = s)
  BY <1>s, <1>2 DEF Preparing
<1>5. ~Announced(s) /\ ~Announced(s)'
  <2>1. Releasing(s) = {}
    BY <1>1, <1>4 DEF SlotInv, OwnerOK
  <2>2. Releasing(s)' = {}
    BY <1>2, <2>1 DEF Releasing, OnlyThread
  <2> QED BY <1>4, <2>1, <2>2 DEF Announced, Held
<1>6. \A u \in Slots \ {s} : Announced(u)' <=> Announced(u)
  <2>1. \A u \in Slots \ {s} : (Held(u)' <=> Held(u)) /\ ~Arriving(u) /\ ~Arriving(u)'
    BY <1>2, <1>3, <1>4 DEF Held, Arriving
  <2>2. \A u \in Slots : Releasing(u)' = Releasing(u) /\ \A t \in Releasing(u) : pc'[t] = pc[t]
    BY <1>2 DEF Releasing, OnlyThread
  <2> QED BY <2>1, <2>2 DEF Announced
<1>7. MapOK'
  <2>1. {u \in Slots : Announced(u)}' = {u \in Slots : Announced(u)}
    BY <1>5, <1>6
  <2>2. s \notin {u \in Slots : Announced(u)}
    BY <1>5
  <2>3. characterMap = {sessionID[u] : u \in {v \in Slots : Announced(v)}}
    BY DEF ContentsOK, MapOK
  <2>4. characterMap' = {sessionID'[u] : u \in {v \in Slots : Announced(v)}}
    BY <1>3, <2>2, <2>3
  <2> QED BY <2>1, <2>4 DEF MapOK
<1>8. IdOK' /\ \A t \in Threads : Calling(t)' => Calling(t) /\ id'[t] = id[t]
  <2>1. ~Held(s)
    BY <1>4 DEF Held
  <2> QED BY <1>2, <1>3, <2>1, AcceptCalls
<1>9. StrandedOK'
  BY <1>2 DEF StrandedOK
<1>10. CountOK'
  <2>1. Uncounting' = Uncounting /\ InUse' = InUse
    BY <1>1, <1>2, <1>3 DEF Uncounting, InUse, OnlyThread
  <2> QED BY <1>2, <1>3, <2>1 DEF ContentsOK, CountOK
<1>11. ASSUME NoWrap PROVE CntOK'
  <2>1. CntOK
    BY <1>11 DEF ContentsOK
  <2>2. \A u \in Slots : (Numbered(u)' <=> u = s) /\ ~Numbered(u)
    BY <1>s, <1>2 DEF Numbered
  <2>3. CntLimit' = CntLimit
    BY <1>2, <1>3 DEF CntLimit, Accepting
  <2> QED BY <1>3, <1>8, <2>1, <2>2, <2>3 DEF CntOK
<1> QED BY <1>7, <1>8, <1>9, <1>10, <1>11 DEF ContentsOK, NoWrap

(* releaseFlag is cleared: the session is held, and still arriving *)
LEMMA ContentsAcArm ==
    ASSUME SessionInv, TypeInv', ContentsOK, AcArm
    PROVE  ContentsOK'
<1>1. /\ TypeInv /\ SlotInv /\ Acceptor \in Threads /\ Acceptor \notin Workers
      /\ slot[Acceptor] \in Slots
  BY InvParts, ThreadKinds DEF AcArm, TypeInv, PlaceOK
<1>s. PICK s \in Slots : slot[Acceptor] = s
  BY <1>1
<1>2. /\ OnlyThread(Acceptor) /\ slot' = slot
      /\ pc[Acceptor] = "AcArm" /\ pc'[Acceptor] \in {"AcJoin", "Stranded"}
  BY <1>1 DEF OnlyThread, AcArm, TypeInv, TypeOK, ThreadTypeOK
<1>3. /\ UNCHANGED <<sessionID, id, recvOv, tableVars>>
      /\ \A u \in Slots \ {s} : releaseFlag'[u] = releaseFlag[u]
  BY <1>1, <1>s DEF AcArm, TypeInv, TypeOK, SessionTypeOK
<1>4. /\ \A u \in Slots : (Preparing(u) <=> u = s) /\ ~Preparing(u)'
      /\ \A u \in Slots : ~Arriving(u) /\ (Arriving(u)' <=> u = s)
  BY <1>s, <1>2 DEF Preparing, Arriving
<1>5. Releasing(s) = {} /\ \A u \in Slots : Releasing(u)' = Releasing(u)
  <2>1. Releasing(s) = {}
    BY <1>1, <1>4 DEF SlotInv, OwnerOK
  <2> QED BY <1>2, <2>1 DEF Releasing, OnlyThread
<1>6. \A u \in Slots : Announced(u)' <=> Announced(u)
  <2>1. ~Announced(s) /\ ~Announced(s)'
    BY <1>4, <1>5 DEF Announced, Held
  <2>2. \A u \in Slots \ {s} : Held(u)' <=> Held(u)
    BY <1>3, <1>4 DEF Held
  <2>3. \A u \in Slots : \A t \in Releasing(u) : pc'[t] = pc[t]
    BY <1>2 DEF Releasing, OnlyThread
  <2>4. \A u \in Slots \ {s} : Announced(u)' <=> Announced(u)
    BY <1>4, <1>5, <2>2, <2>3 DEF Announced
  <2> QED BY <2>1, <2>4
<1>7. MapOK'
  BY <1>3, <1>6, MapFrame DEF ContentsOK
<1>8. IdOK' /\ \A t \in Threads : Calling(t)' => Calling(t) /\ id'[t] = id[t]
  BY <1>2, <1>3, AcceptCalls
<1>9. StrandedOK'
  <2>1. ~Held(s)
    BY <1>4 DEF Held
  <2>2. \A u \in Workers : slot[u] = s => pc[u] \notin BasePcs
    BY <1>1, <2>1, ThreadKinds DEF SlotInv, HoldOK, Guarded
  <2>3. recvOv[s] = "idle"
    <3>1. ~(InFlight(s) > 0)
      BY <1>1, <2>1 DEF SlotInv, HoldOK
    <3> QED BY <1>1, <3>1 DEF InFlight, Busy, TypeInv, TypeOK, PortTypeOK
  <2>4. pc'[Acceptor] = "Stranded" => Receivers(s)' = {}
    <3>1. \A u \in Workers : u # Acceptor /\ pc'[u] = pc[u] /\ slot'[u] = slot[u]
      BY <1>2, ThreadKinds DEF OnlyThread
    <3>2. \A u \in Workers : pc[u] \notin {"AcJoin", "AcRecv"}
      BY <1>1, ThreadKinds DEF TypeInv, PlaceOK
    <3> QED BY <2>2, <3>1, <3>2 DEF Receivers
  <2> QED BY <1>s, <1>2, <1>3, <2>3, <2>4 DEF StrandedOK
<1>10. CountOK'
  <2>1. Uncounting' = Uncounting /\ InUse' = InUse
    BY <1>1, <1>2, <1>3 DEF Uncounting, InUse, OnlyThread
  <2> QED BY <1>2, <1>3, <2>1 DEF ContentsOK, CountOK
<1>11. ASSUME NoWrap PROVE CntOK'
  <2>1. CntOK
    BY <1>11 DEF ContentsOK
  <2>2. \A u \in Slots : Numbered(u)' <=> Numbered(u)
    BY <1>2 DEF Numbered
  <2>3. CntLimit' = CntLimit
    BY <1>2, <1>3 DEF CntLimit, Accepting
  <2> QED BY <1>3, <1>8, <2>1, <2>2, <2>3 DEF CntOK
<1> QED BY <1>7, <1>8, <1>9, <1>10, <1>11 DEF ContentsOK, NoWrap

(* OnClientJoin *)
LEMMA ContentsAcJoin ==
    ASSUME SessionInv, TypeInv', ContentsOK, AcJoin
    PROVE  ContentsOK'
<1>1. /\ TypeInv /\ SlotInv /\ Acceptor \in Threads /\ Acceptor \notin Workers
      /\ slot[Acceptor] \in Slots
  BY InvParts, ThreadKinds DEF AcJoin, TypeInv, PlaceOK
<1>s. PICK s \in Slots : slot[Acceptor] = s
  BY <1>1
<1>2. /\ OnlyThread(Acceptor) /\ slot' = slot
      /\ pc[Acceptor] = "AcJoin" /\ pc'[Acceptor] = "AcRecv"
  BY <1>1 DEF OnlyThread, AcJoin, TypeInv, TypeOK, ThreadTypeOK
<1>3. /\ UNCHANGED <<sessionID, releaseFlag, id, freeStack, nowSession, sessionCnt>>
      /\ characterMap' = characterMap \cup {sessionID[s]}
  BY <1>s DEF AcJoin
<1>4. /\ \A u \in Slots : ~Preparing(u) /\ ~Preparing(u)'
      /\ \A u \in Slots : (Arriving(u) <=> u = s) /\ ~Arriving(u)'
  BY <1>s, <1>2 DEF Preparing, Arriving
<1>5. \A u \in Slots : Held(u)' <=> Held(u)
  BY <1>3, <1>4 DEF Held
<1>6. Announced(s)'
  <2>1. Held(s)
    BY <1>1, <1>s, <1>2 DEF SlotInv, HoldOK, Guarded
  <2> QED BY <1>4, <1>5, <2>1 DEF Announced
<1>7. \A u \in Slots \ {s} : Announced(u)' <=> Announced(u)
  <2>1. \A u \in Slots : Releasing(u)' = Releasing(u) /\ \A t \in Releasing(u) : pc'[t] = pc[t]
    BY <1>2 DEF Releasing, OnlyThread
  <2> QED BY <1>4, <1>5, <2>1 DEF Announced
<1>8. MapOK'
  <2>1. {u \in Slots : Announced(u)}' = {u \in Slots : Announced(u)} \cup {s}
    BY <1>6, <1>7
  <2>2. characterMap = {sessionID[u] : u \in {v \in Slots : Announced(v)}}
    BY DEF ContentsOK, MapOK
  <2> QED BY <1>3, <2>1, <2>2 DEF MapOK
<1>9. IdOK' /\ \A t \in Threads : Calling(t)' => Calling(t) /\ id'[t] = id[t]
  BY <1>2, <1>3, AcceptCalls
<1>10. StrandedOK'
  BY <1>2 DEF StrandedOK
<1>11. CountOK'
  <2>1. Uncounting' = Uncounting /\ InUse' = InUse
    BY <1>1, <1>2, <1>3 DEF Uncounting, InUse, OnlyThread
  <2> QED BY <1>2, <1>3, <2>1 DEF ContentsOK, CountOK
<1>12. ASSUME NoWrap PROVE CntOK'
  <2>1. CntOK
    BY <1>12 DEF ContentsOK
  <2>2. \A u \in Slots : (Numbered(u) <=> u = s) /\ ~Numbered(u)'
    BY <1>s, <1>2 DEF Numbered
  <2>3. CntLimit = sessionCnt /\ CntLimit' = sessionCnt + 1
    BY <1>2, <1>3 DEF CntLimit, Accepting
  <2>4. /\ sessionCnt \in Nat /\ \A u \in Slots : sessionID[u].cnt \in Nat
        /\ \A t \in Threads : Calling(t) => id[t].cnt \in Nat
    BY <1>1, BoundAssumption
       DEF TypeInv, TypeOK, TableTypeOK, SessionTypeOK, ThreadTypeOK, SessionIDs, NoID
  <2>5. \A u \in Slots : sessionID'[u].cnt < CntLimit'
    BY <1>3, <2>1, <2>2, <2>3, <2>4 DEF CntOK
  <2>6. \A t \in Threads : Calling(t)' => id'[t].cnt < CntLimit'
    BY <1>9, <2>1, <2>3, <2>4 DEF CntOK
  <2> QED BY <2>2, <2>5, <2>6 DEF CntOK
<1> QED BY <1>8, <1>9, <1>10, <1>11, <1>12 DEF ContentsOK, NoWrap

LEMMA ContentsAcRecv ==
    ASSUME SessionInv, TypeInv', ContentsOK, AcRecv \/ AcPending
    PROVE  ContentsOK'
<1>1. TypeInv /\ SlotInv /\ Acceptor \in Threads
  BY InvParts, ThreadKinds
<1>2. /\ OnlyThread(Acceptor) /\ pc[Acceptor] \in {"AcRecv", "AcPending"}
      /\ pc'[Acceptor] \in {"AcPending", "AcAccept", "RelCas"}
  BY <1>1, IdleKinds
     DEF OnlyThread, AcRecv, AcPending, Finish, TypeInv, TypeOK, ThreadTypeOK
<1>3. UNCHANGED <<sessionID, releaseFlag, id, tableVars>>
  BY DEF AcRecv, AcPending
<1>4. CntLimit' = CntLimit
  BY <1>2, <1>3 DEF CntLimit, Accepting
<1>5. \A s \in Slots : /\ Preparing(s) => Preparing(s)'
                       /\ Preparing(s)' => Preparing(s) \/ ~Announced(s)
  BY <1>2 DEF Preparing
<1>6. StrandedOK' /\ IdOK' /\ MapOK' /\ (NoWrap => CntOK')
  BY <1>2, <1>3, <1>4, <1>5, AcceptFrame
<1>7. CountOK'
  <2>1. Uncounting' = Uncounting /\ InUse' = InUse
    BY <1>1, <1>2, <1>3 DEF Uncounting, InUse, OnlyThread
  <2> QED BY <1>2, <1>3, <2>1 DEF ContentsOK, CountOK
<1> QED BY <1>6, <1>7 DEF ContentsOK, NoWrap

-----------------------------------------------------------------------------
LEMMA ContentsInit == Init => ContentsOK
<1> SUFFICES ASSUME Init PROVE ContentsOK
  OBVIOUS
<1>1. /\ \A t \in Threads : pc[t] \in {"Gqcs", "AcAccept", "ApiIdle"} /\ slot[t] = NoSlot
      /\ \A s \in Slots : slot[Acceptor] # s
      /\ Acceptor \in Threads
  BY SlotAssumption, ThreadKinds DEF Init, Idle
<1>2. MapOK
  <2>1. \A s \in Slots : ~Announced(s)
    BY <1>1, SlotAssumption DEF Announced, Held, Releasing, Init
  <2> QED BY <2>1 DEF MapOK, Init
<1>3. StrandedOK /\ IdOK
  BY <1>1 DEF StrandedOK, IdOK, Calling
<1>4. CountOK
  <2>1. InUse = {} /\ Uncounting = {}
    BY <1>1, SMTT(30) DEF InUse, Uncounting, Init
  <2>2. Cardinality(InUse) = 0 /\ Cardinality(Uncounting) = 0 /\ MaxUser \in Nat
    BY <2>1, SlotAssumption, FS_EmptySet, FS_CardinalityType DEF MaxUser
  <2> QED BY <1>1, <2>2, SMTT(30) DEF CountOK, Init
<1>5. CntOK
  <2>1. pc[Acceptor] \notin {"AcPop", "AcInc", "AcId", "AcArm", "AcJoin", "Stranded"}
    BY ONLY <1>1
  <2>2. sessionCnt = 0 /\ \A s \in Slots : sessionID[s].cnt = 0
    BY DEF Init
  <2>3. CntLimit = 1
    BY <2>1, <2>2 DEF CntLimit, Accepting
  <2>4. \A s \in Slots : ~Numbered(s)
    BY <1>1 DEF Numbered
  <2>5. \A t \in Threads : ~Calling(t)
    BY <1>1 DEF Calling
  <2> QED BY <2>2, <2>3, <2>4, <2>5 DEF CntOK
<1> QED BY <1>2, <1>3, <1>4, <1>5 DEF ContentsOK

LEMMA ContentsStep == SessionInv /\ ContentsOK /\ [Next]_vars => ContentsOK'
<1> SUFFICES ASSUME SessionInv, ContentsOK, [Next]_vars PROVE ContentsOK'
  OBVIOUS
<1>type. TypeInv'
  BY InvParts, TypeStep
<1>1. ASSUME NEW w \in Workers, Take(w) \/ Dec(w) \/ SendStep(w) \/ RecvStep(w)
      PROVE  ContentsOK'
  BY <1>1, QuietTake, QuietDec, QuietSend, QuietRecv, ContentsQuiet
<1>2. ASSUME NEW t \in Workers \cup ApiThreads, CallStep(t) PROVE ContentsOK'
  BY <1>2, QuietCall, ContentsQuiet
<1>3. ASSUME NEW t \in ApiThreads, ApiCall(t) PROVE ContentsOK'
  BY <1>3, QuietApiCall, ContentsQuiet
<1>4. ASSUME NEW t \in Workers \cup {Acceptor}, ReleaseStep(t) PROVE ContentsOK'
  BY <1>4, ContentsRelCas, ContentsRelDrain, ContentsRelLeave, ContentsRelPush,
     ContentsRelCount
     DEF ReleaseStep
<1>5. CASE AcceptStep
  BY <1>type, <1>5, ContentsAcAccept, ContentsAcEnd, ContentsAcPop, ContentsAcInc,
     ContentsAcId, ContentsAcArm, ContentsAcJoin, ContentsAcRecv
     DEF AcceptStep
<1>6. CASE Kernel
  BY <1>6, ContentsKernel
<1>7. CASE UNCHANGED vars
  <2>1. UNCHANGED <<sessVars, ioVars, tableVars, pc, localVars>>
    BY <1>7 DEF vars
  <2>2. \A s \in Slots : Announced(s)' <=> Announced(s)
    BY <2>1 DEF Announced, Held, Preparing, Arriving, Releasing
  <2>3. MapOK'
    BY <2>1, <2>2, MapFrame DEF ContentsOK
  <2>4. StrandedOK' /\ IdOK' /\ CountOK'
    BY <2>1
       DEF ContentsOK, StrandedOK, Receivers, IdOK, Calling, CountOK, InUse, Uncounting
  <2>5. NoWrap => CntOK'
    BY <2>1 DEF ContentsOK, CntOK, CntLimit, Accepting, Numbered, Calling
  <2> QED BY <2>3, <2>4, <2>5 DEF ContentsOK, NoWrap
<1> QED BY <1>1, <1>2, <1>3, <1>4, <1>5, <1>6, <1>7 DEF Next

(* In every reachable state the contents know exactly the sessions that      *)
(* OnClientJoin announced and OnClientLeave has not taken back, and          *)
(* _nowSession is exact.                                                     *)
THEOREM ContentsInvariant == Spec => [](SessionInv /\ ContentsOK)
<1>1. Init => SessionInv /\ ContentsOK
  BY SessionInit, ContentsInit
<1>2. SessionInv /\ ContentsOK /\ [Next]_vars => (SessionInv /\ ContentsOK)'
  BY SessionStep, ContentsStep
<1> QED BY <1>1, <1>2, PTL DEF Spec

(* The character that OnRecv looks up exists, and its pointer stays valid    *)
(* after the lock on characterMap is dropped, also when _sessionCnt wraps.   *)
THEOREM CharacterExists == Spec => []CharacterOfReceiver
<1>1. SessionInv /\ ContentsOK => CharacterOfReceiver
  BY ReceiverAnnounced DEF ContentsOK, MapOK, CharacterOfReceiver
<1> QED BY <1>1, ContentsInvariant, PTL

(* A call with the identifier of a session that is gone never acts on the    *)
(* session that has its slot now, as long as _sessionCnt has not wrapped: a  *)
(* thread that keeps an identifier over 2^48 connections is beyond what the  *)
(* identifier can tell apart.                                                *)
THEOREM StaleIdIsRejected ==
    ASSUME MaxAccepts =< SessionCntMax
    PROVE  Spec => []StaleIdNeverActs
<1>1. SessionInv /\ ContentsOK => StaleIdNeverActs
  <2> SUFFICES ASSUME SessionInv, ContentsOK, NEW t \in Threads, pc[t] \in ValidPcs
               PROVE  sessionID[slot[t]] = id[t] /\ id[t] \in characterMap
    BY DEF StaleIdNeverActs
  <2>1. TypeInv /\ SlotInv /\ slot[t] \in Slots
    BY InvParts DEF TypeInv, PlaceOK
  <2>2. sessionID[slot[t]] = id[t]
    BY DEF ContentsOK, IdOK
  <2>3. Held(slot[t])
    BY <2>1 DEF SlotInv, HoldOK, Guarded
  <2>4. ~Arriving(slot[t])
    <3> SUFFICES ASSUME Arriving(slot[t]) PROVE FALSE
      OBVIOUS
    <3>1. CntOK
      BY DEF ContentsOK, NoWrap
    <3>2. sessionID[slot[t]].cnt = sessionCnt /\ CntLimit = sessionCnt
      BY <2>1, <3>1 DEF CntOK, Arriving, Numbered, CntLimit, Accepting
    <3>3. id[t].cnt < sessionCnt
      BY <3>1, <3>2 DEF CntOK, Calling
    <3>4. sessionCnt \in Nat
      BY <2>1, BoundAssumption DEF TypeInv, TypeOK, TableTypeOK
    <3> QED BY <2>2, <3>2, <3>3, <3>4
  <2> QED BY <2>1, <2>2, <2>3, <2>4 DEF ContentsOK, MapOK, Announced
<1> QED BY <1>1, ContentsInvariant, PTL

(* AcceptThread finds a free slot at once whenever it passed the check of    *)
(* _nowSession, however many workers are between the push of a slot and the  *)
(* decrement.                                                                *)
THEOREM PopFindsASlot == Spec => []PopNeverSpins
<1>1. SessionInv /\ ContentsOK => PopNeverSpins
  <2> SUFFICES ASSUME SessionInv, ContentsOK, pc[Acceptor] = "AcPop",
                      ~ \E s \in Slots : freeStack[s] > 0
               PROVE  FALSE
    BY DEF PopNeverSpins
  <2>1. InUse = Slots
    BY InvParts DEF InUse, TypeInv, TypeOK, TableTypeOK
  <2>2. IsFiniteSet(Uncounting)
    BY ThreadsFinite, FS_Subset DEF Uncounting
  <2>3. Cardinality(Slots) \in Nat /\ Cardinality(Uncounting) \in Nat
    BY <2>2, SlotAssumption, FS_CardinalityType
  <2> QED BY <2>1, <2>3 DEF ContentsOK, CountOK, MaxUser
<1> QED BY <1>1, ContentsInvariant, PTL

-----------------------------------------------------------------------------
(* The session that is being accepted carries the current counter: no step    *)
(* but AcAccept moves the counter, and the acceptor reads it right after.     *)
LEMMA NumberStep == SessionInv /\ NumberOK /\ [Next]_vars => NumberOK'
<1> SUFFICES ASSUME SessionInv, NumberOK, [Next]_vars PROVE NumberOK'
  OBVIOUS
<1>0. TypeInv /\ TypeInv' /\ Acceptor \in Threads
  BY InvParts, TypeStep, ThreadKinds
<1>q. ASSUME NEW t \in Workers \cup ApiThreads, Quiet(t) PROVE NumberOK'
  <2>1. Acceptor # t
    BY ThreadKinds
  <2> QED BY <1>0, <1>q, <2>1 DEF Quiet, OnlyThread, NumberOK, Numbered
<1>1. ASSUME NEW w \in Workers, Take(w) \/ Dec(w) \/ SendStep(w) \/ RecvStep(w)
      PROVE  NumberOK'
  BY <1>1, <1>q, QuietTake, QuietDec, QuietSend, QuietRecv
<1>2. ASSUME NEW t \in Workers \cup ApiThreads, CallStep(t) PROVE NumberOK'
  BY <1>2, <1>q, QuietCall
<1>3. ASSUME NEW t \in ApiThreads, ApiCall(t) PROVE NumberOK'
  BY <1>3, <1>q, QuietApiCall
<1>4. ASSUME NEW t \in Workers \cup {Acceptor}, ReleaseStep(t) PROVE NumberOK'
  <2>1. UNCHANGED <<sessionID, sessionCnt>>
    BY <1>4 DEF ReleaseStep, RelCas, RelDrain, RelLeave, RelPush, RelCount
  <2>2. /\ \A u \in Threads \ {t} : pc'[u] = pc[u] /\ slot'[u] = slot[u]
        /\ pc'[t] \notin {"AcArm", "AcJoin", "Stranded"}
    BY <1>0, <1>4, ThreadKinds, IdleKinds
       DEF ReleaseStep, RelCas, RelDrain, RelLeave, RelPush, RelCount, Finish,
           TypeInv, TypeOK, ThreadTypeOK
  <2> QED BY <1>0, <2>1, <2>2 DEF NumberOK, Numbered
<1>5. CASE AcceptStep
  BY <1>0, <1>5, IdleKinds
     DEF AcceptStep, AcAccept, AcEnd, AcPop, AcInc, AcId, AcArm, AcJoin, AcRecv, AcPending,
         Finish, NumberOK, Numbered, TypeInv, TypeOK, ThreadTypeOK, SessionTypeOK
<1>6. CASE Kernel \/ UNCHANGED vars
  BY <1>6 DEF Kernel, RecvComplete, SendComplete, vars, NumberOK, Numbered
<1> QED BY <1>1, <1>2, <1>3, <1>4, <1>5, <1>6 DEF Next

(* the identifier of a slot that somebody handles is no NoID and names it *)
LEMMA HandlingIds ==
    ASSUME SessionInv, NEW s \in Slots
    PROVE  sessionID[s].idx = s /\ sessionID[s] # NoID
BY InvParts, SlotAssumption DEF SlotInv, IdentityOK, NoID

(* An ordinary step of a worker enters or leaves the receive logic, or is     *)
(* invisible to the contents.                                                 *)
LEMMA RefineQuiet ==
    ASSUME SessionInv, ContentsOK, NEW t \in Workers \cup ApiThreads,
           Quiet(t), ReceiveGoesOn(t)
    PROVE  Contents!Next \/ UNCHANGED Contents!vars
<1>1. /\ TypeInv /\ SlotInv /\ ReceiverOK /\ StrandedOK
      /\ t \in Threads /\ t # Acceptor /\ Acceptor \in Threads /\ Workers \subseteq Threads
  BY InvParts, ThreadKinds DEF ContentsOK
<1>2. /\ (Accepting' <=> Accepting)
      /\ UNCHANGED <<sessionCnt, characterMap, sessionID>>
  BY <1>1 DEF Quiet, OnlyThread, Accepting
<1>3. \A w \in Workers \ {t} : Handling'[w] = Handling[w]
  BY <1>1, <1>2 DEF Quiet, OnlyThread, Handling
<1>4. /\ Handling = [w \in Workers |-> Handling[w]]
      /\ Handling' = [w \in Workers |-> Handling'[w]]
  BY DEF Handling
<1>5. ASSUME Handling'[t] = Handling[t] \/ t \notin Workers
      PROVE  UNCHANGED Contents!vars
  <2>1. Handling' = Handling
    BY <1>3, <1>4, <1>5
  <2>2. Accepting' = Accepting
    BY <1>2 DEF Accepting
  <2> QED BY <1>2, <2>1, <2>2 DEF Contents!vars
<1>6. ASSUME t \in Workers, pc[t] \in RecvPcs, pc'[t] \notin RecvPcs
      PROVE  Contents!End(t)
  <2>1. slot[t] \in Slots
    BY <1>1, <1>6 DEF TypeInv, PlaceOK
  <2>2. Handling[t] # NoID /\ Handling'[t] = NoID
    BY <1>6, <2>1, HandlingIds DEF Handling
  <2>3. Handling' = [Handling EXCEPT ![t] = NoID]
    BY <1>3, <1>4, <1>6, <2>2
  <2>4. Accepting' = Accepting
    BY <1>2 DEF Accepting
  <2> QED BY <1>2, <2>2, <2>3, <2>4 DEF Contents!End
<1>7. ASSUME t \in Workers, pc[t] \notin RecvPcs, pc'[t] \in RecvPcs
      PROVE  \E j \in characterMap : Contents!Begin(t, j)
  <2>1. PICK s \in Slots : s = slot'[t] /\ recvOv[s] # "idle"
    BY <1>7 DEF ReceiveGoesOn
  <2>2. Receivers(s) = {}
    BY <1>1, <2>1 DEF ReceiverOK
  <2>3. Held(s)
    <3>1. Busy(recvOv[s]) = 1 /\ Busy(sendOv[s]) \in {0, 1} /\ jobs[s] \in Nat
      BY <1>1, <2>1 DEF Busy, TypeInv, TypeOK, PortTypeOK
    <3> QED BY <1>1, <3>1 DEF SlotInv, HoldOK, InFlight
  <2>4. ~Arriving(s)
    <3>1. slot[Acceptor] = s => pc[Acceptor] # "AcJoin"
      BY <2>2 DEF Receivers
    <3>2. slot[Acceptor] = s => pc[Acceptor] # "Stranded"
      BY <1>1, <2>1 DEF StrandedOK
    <3> QED BY <3>1, <3>2 DEF Arriving
  <2>5. sessionID[s] \in characterMap
    BY <2>3, <2>4 DEF Announced, ContentsOK, MapOK
  <2>6. Handling[t] = NoID /\ Handling'[t] = sessionID[s]
    BY <1>2, <1>7, <2>1 DEF Handling
  <2>7. ASSUME NEW g \in Workers PROVE Handling[g] # sessionID[s]
    <3>1. CASE pc[g] \notin RecvPcs
      BY <3>1, HandlingIds DEF Handling
    <3>2. CASE pc[g] \in RecvPcs
      <4>1. slot[g] \in Slots
        BY <1>1, <3>2 DEF TypeInv, PlaceOK
      <4>2. slot[g] # s
        BY <2>2, <3>2 DEF Receivers
      <4> QED BY <3>2, <4>1, <4>2, HandlingIds DEF Handling
    <3> QED BY <3>1, <3>2
  <2>8. Handling' = [Handling EXCEPT ![t] = sessionID[s]]
    BY <1>3, <1>4, <1>7, <2>6
  <2>9. Accepting' = Accepting
    BY <1>2 DEF Accepting
  <2>10. Contents!Begin(t, sessionID[s])
    BY <1>2, <2>5, <2>6, <2>7, <2>8, <2>9 DEF Contents!Begin
  <2> QED BY <2>5, <2>10
<1>8. ASSUME t \in Workers, (pc[t] \in RecvPcs) <=> (pc'[t] \in RecvPcs)
      PROVE  Handling'[t] = Handling[t]
  <2>1. CASE pc[t] \in RecvPcs
    BY <1>2, <1>8, <2>1 DEF Handling, ReceiveGoesOn
  <2>2. CASE pc[t] \notin RecvPcs
    BY <1>8, <2>2 DEF Handling
  <2> QED BY <2>1, <2>2
<1> QED BY <1>5, <1>6, <1>7, <1>8 DEF Contents!Next

(* A step that changes neither the receivers' places nor what they read keeps *)
(* the handlers.                                                              *)
LEMMA SameHandling ==
    ASSUME SessionInv,
           \A w \in Workers : pc[w] \in RecvPcs <=> pc'[w] \in RecvPcs,
           \A w \in Workers : pc[w] \in RecvPcs =>
               slot'[w] = slot[w] /\ sessionID'[slot[w]] = sessionID[slot[w]]
    PROVE  Handling' = Handling
BY DEF Handling

(* ReleaseSession is visible to the contents in RelLeave only. *)
LEMMA RefineRelease ==
    ASSUME SessionInv, ContentsOK, NEW t \in Workers \cup {Acceptor}, ReleaseStep(t)
    PROVE  Contents!Next \/ UNCHANGED Contents!vars
<1>1. /\ TypeInv /\ SlotInv /\ StrandedOK
      /\ t \in Threads /\ Acceptor \in Threads /\ Workers \subseteq Threads
  BY InvParts, ThreadKinds DEF ContentsOK
<1>2. /\ \A u \in Threads \ {t} : pc'[u] = pc[u] /\ slot'[u] = slot[u]
      /\ pc[t] \in RelStepPcs /\ pc'[t] \in RelStepPcs \cup {"Gqcs", "AcAccept"}
      /\ UNCHANGED <<sessionID, sessionCnt>>
  BY <1>1, ThreadKinds, IdleKinds
     DEF ReleaseStep, RelCas, RelDrain, RelLeave, RelPush, RelCount, Finish, RelStepPcs,
         TypeInv, TypeOK, ThreadTypeOK
<1>3. Handling' = Handling
  <2>1. \A w \in Workers : pc[w] \in RecvPcs <=> pc'[w] \in RecvPcs
    BY <1>1, <1>2 DEF RelStepPcs
  <2>2. \A w \in Workers : pc[w] \in RecvPcs => slot'[w] = slot[w]
    BY <1>1, <1>2 DEF RelStepPcs
  <2> QED BY <1>2, <2>1, <2>2, SameHandling
<1>4. Accepting' = Accepting
  BY <1>1, <1>2 DEF Accepting, RelStepPcs
<1>5. CASE RelLeave(t)
  <2>1. PICK s \in Slots : s = slot[t]
    BY <1>1, <1>5 DEF RelLeave, TypeInv, PlaceOK
  <2>2. pc[t] = "RelLeave" /\ characterMap' = characterMap \ {sessionID[s]}
    BY <1>5, <2>1 DEF RelLeave
  <2>3. t \in Releasing(s)
    BY <1>1, <2>1, <2>2 DEF Releasing
  <2>4. sessionID[s] \in characterMap
    BY <2>2, <2>3 DEF ContentsOK, MapOK, Announced
  <2>5. ~Held(s)
    BY <1>1, <2>3 DEF SlotInv, OwnerOK, Held
  <2>6. ASSUME NEW g \in Workers PROVE Handling[g] # sessionID[s]
    <3>1. CASE pc[g] \notin RecvPcs
      BY <3>1, HandlingIds DEF Handling
    <3>2. CASE pc[g] \in RecvPcs
      <4>1. slot[g] \in Slots /\ slot[g] # s
        BY <1>1, <2>5, <3>2, ReceiverAnnounced
      <4> QED BY <3>2, <4>1, HandlingIds DEF Handling
    <3> QED BY <3>1, <3>2
  <2>7. Contents!Leave(sessionID[s])
    BY <1>2, <1>3, <1>4, <2>2, <2>4, <2>6 DEF Contents!Leave
  <2> QED BY <2>4, <2>7 DEF Contents!Next
<1>6. CASE ~RelLeave(t)
  <2>1. characterMap' = characterMap
    BY <1>6 DEF ReleaseStep, RelCas, RelDrain, RelPush, RelCount
  <2> QED BY <1>2, <1>3, <1>4, <2>1 DEF Contents!vars
<1> QED BY <1>5, <1>6

(* an announced session has its slot *)
LEMMA AnnouncedInUse ==
    ASSUME SessionInv, ContentsOK, NEW i \in characterMap
    PROVE  i.idx \in InUse
<1>1. TypeInv /\ SlotInv
  BY InvParts
<1>2. PICK s \in Slots : Announced(s) /\ i = sessionID[s]
  BY DEF ContentsOK, MapOK
<1>3. freeStack[s] = 0
  <2>1. CASE Held(s)
    BY <1>1, <2>1 DEF Held, SlotInv, OwnerOK, Live
  <2>2. CASE Releasing(s) # {}
    BY <1>1, <2>2 DEF SlotInv, OwnerOK
  <2> QED BY <1>2, <2>1, <2>2 DEF Announced
<1> QED BY <1>2, <1>3, HandlingIds DEF InUse

(* AcceptThread is visible to the contents in AcAccept and AcJoin. *)
LEMMA RefineAccept ==
    ASSUME SessionInv, ContentsOK, NumberOK, AcceptStep
    PROVE  Contents!Next \/ UNCHANGED Contents!vars
<1>1. /\ TypeInv /\ SlotInv /\ StrandedOK
      /\ Acceptor \in Threads /\ Acceptor \notin Workers /\ Workers \subseteq Threads
  BY InvParts, ThreadKinds DEF ContentsOK
<1>2. /\ \A w \in Workers : pc'[w] = pc[w] /\ slot'[w] = slot[w]
  BY <1>1
     DEF AcceptStep, AcAccept, AcEnd, AcPop, AcInc, AcId, AcArm, AcJoin, AcRecv, AcPending,
         Finish, TypeInv, TypeOK, ThreadTypeOK
<1>3. \A s \in Slots : ~Preparing(s) => sessionID'[s] = sessionID[s]
  BY <1>1
     DEF AcceptStep, AcAccept, AcEnd, AcPop, AcInc, AcId, AcArm, AcJoin, AcRecv, AcPending,
         Preparing, TypeInv, TypeOK, SessionTypeOK, PlaceOK
<1>4. Handling' = Handling
  <2>1. \A w \in Workers : pc[w] \in RecvPcs => slot[w] \in Slots /\ ~Preparing(slot[w])
    BY <1>1, ReceiverAnnounced DEF Held
  <2> QED BY <1>2, <1>3, <2>1, SameHandling
<1>5. CASE AcAccept
  <2>1. /\ ~Accepting /\ Accepting' /\ characterMap' = characterMap
        /\ sessionCnt' = IF sessionCnt + 1 > SessionCntMax THEN 1 ELSE sessionCnt + 1
        /\ nowSession # MaxUser /\ pc[Acceptor] # "AcPop"
    BY <1>1, <1>5 DEF AcAccept, Accepting, NextSessionCnt, TypeInv, TypeOK, ThreadTypeOK
  <2>2. \E s \in Slots : \A j \in characterMap : j.idx # s
    <3>1. /\ nowSession =< MaxUser
          /\ nowSession = Cardinality(InUse) + Cardinality(Uncounting) + 0
      BY <2>1 DEF ContentsOK, CountOK
    <3>2. IsFiniteSet(Uncounting) /\ IsFiniteSet(InUse)
      BY ThreadsFinite, SlotAssumption, FS_Subset DEF Uncounting, InUse
    <3>3. /\ Cardinality(InUse) \in Nat /\ Cardinality(Uncounting) \in Nat
          /\ Cardinality(Slots) \in Nat
      BY <3>2, SlotAssumption, FS_CardinalityType
    <3>4. InUse # Slots
      BY <2>1, <3>1, <3>3 DEF MaxUser
    <3> QED BY <3>4, AnnouncedInUse DEF InUse
  <2>3. Contents!Accept
    <3>1. Accepting' = TRUE
      BY <2>1 DEF Accepting
    <3> QED BY <1>4, <2>1, <2>2, <3>1 DEF Contents!Accept
  <2> QED BY <2>3 DEF Contents!Next
<1>6. CASE AcJoin
  <2>1. PICK s \in Slots : s = slot[Acceptor]
    BY <1>1, <1>6 DEF AcJoin, TypeInv, PlaceOK
  <2>2. /\ Accepting /\ ~Accepting' /\ sessionCnt' = sessionCnt
        /\ characterMap' = characterMap \cup {sessionID[s]}
    BY <1>1, <1>6, <2>1 DEF AcJoin, Accepting, TypeInv, TypeOK, ThreadTypeOK
  <2>3. Numbered(s) /\ Arriving(s)
    BY <1>6, <2>1 DEF AcJoin, Numbered, Arriving
  <2>4. sessionID[s] = [cnt |-> sessionCnt, idx |-> s]
    <3>1. sessionID[s].cnt = sessionCnt
      BY <2>3 DEF NumberOK
    <3>2. sessionID[s] \in SessionIDs
      BY <1>1 DEF TypeInv, TypeOK, SessionTypeOK
    <3> QED BY <3>1, <3>2, HandlingIds DEF SessionIDs
  <2>5. \A j \in characterMap : j.idx # s
    BY <2>3, AnnouncedApart, HandlingIds DEF ContentsOK, MapOK
  <2>6. Contents!Join(s)
    BY <1>4, <2>2, <2>4, <2>5 DEF Contents!Join
  <2> QED BY <2>6 DEF Contents!Next
<1>7. CASE ~AcAccept /\ ~AcJoin
  <2>1. UNCHANGED <<sessionCnt, characterMap>>
    BY <1>7 DEF AcceptStep, AcEnd, AcPop, AcInc, AcId, AcArm, AcRecv, AcPending
  <2>2. Accepting' = Accepting
    BY <1>1, <1>7, IdleKinds
       DEF AcceptStep, AcEnd, AcPop, AcInc, AcId, AcArm, AcRecv, AcPending, Finish,
           Accepting, TypeInv, TypeOK, ThreadTypeOK
  <2> QED BY <1>4, <2>1, <2>2 DEF Contents!vars
<1> QED BY <1>5, <1>6, <1>7

(* CNetServer implements SessionTable, for every number of workers, slots and *)
(* contents threads: what the class promises to the contents about            *)
(* OnClientJoin, OnRecv and OnClientLeave.                                    *)
THEOREM ImplementsTable == Spec => ImplementsSessionTable
<1>1. Init => Contents!Init
  <2> SUFFICES ASSUME Init PROVE Contents!Init
    OBVIOUS
  <2>1. \A t \in Threads : pc[t] \in {"Gqcs", "AcAccept", "ApiIdle"}
    BY DEF Init, Idle
  <2>2. Accepting = FALSE /\ Handling = [w \in Workers |-> NoID]
    BY <2>1, ThreadKinds DEF Accepting, Handling
  <2> QED BY <2>2 DEF Init, Contents!Init
<1>2. Init => NumberOK
  BY SlotAssumption, ThreadKinds DEF Init, NumberOK, Numbered
<1>3. SessionInv /\ ContentsOK /\ NumberOK /\ [Next]_vars => [Contents!Next]_(Contents!vars)
  <2> SUFFICES ASSUME SessionInv, ContentsOK, NumberOK, [Next]_vars
               PROVE  Contents!Next \/ UNCHANGED Contents!vars
    OBVIOUS
  <2>1. ASSUME NEW w \in Workers, Take(w) \/ Dec(w) \/ SendStep(w) \/ RecvStep(w)
        PROVE  Contents!Next \/ UNCHANGED Contents!vars
    BY <2>1, QuietTake, QuietDec, QuietSend, QuietRecv, RefineQuiet
  <2>2. ASSUME NEW t \in Workers \cup ApiThreads, CallStep(t)
        PROVE  Contents!Next \/ UNCHANGED Contents!vars
    BY <2>2, QuietCall, RefineQuiet
  <2>3. ASSUME NEW t \in ApiThreads, ApiCall(t)
        PROVE  Contents!Next \/ UNCHANGED Contents!vars
    BY <2>3, QuietApiCall, RefineQuiet
  <2>4. CASE Kernel \/ UNCHANGED vars
    BY <2>4 DEF Kernel, RecvComplete, SendComplete, vars, Contents!vars, Accepting, Handling
  <2> QED BY <2>1, <2>2, <2>3, <2>4, RefineRelease, RefineAccept DEF Next
<1>4. SessionInv /\ NumberOK /\ [Next]_vars => NumberOK'
  BY NumberStep
<1> QED BY <1>1, <1>2, <1>3, <1>4, ContentsInvariant, PTL
        DEF Spec, ImplementsSessionTable, Contents!Spec

-----------------------------------------------------------------------------
(***************************************************************************)
(* _refCount of every packet is exact (PacketRefsExact), for any number of *)
(* threads, slots and packets and queues of any length.                    *)
(*                                                                         *)
(* A step touches the queue and the array of one slot. PlacesSplit takes   *)
(* that slot out of the count, so RefsStep reduces the invariant to an     *)
(* equation between the lengths that the step changes, and the lemmas on   *)
(* Occurrences say how Append, SubSeq and concatenation change those. Of   *)
(* the rest of PacketOK, ArrayOK is what makes the equation hold: SpUse    *)
(* and AcArm overwrite sendPacketArr without freeing anything, so it must  *)
(* be empty, or given up by ReleaseSession, at that moment.                *)
(***************************************************************************)

(* the positions of p in q, and where they are in slot s *)
Positions(p, q) == {i \in DOMAIN q : q[i] = p}
At(p, q, s) == {<<s, i>> : i \in Positions(p, q)}

LEMMA PositionsFinite ==
    ASSUME NEW q \in Seq(Packets), NEW p
    PROVE  /\ IsFiniteSet(Positions(p, q))
           /\ Occurrences(p, q) = Cardinality(Positions(p, q))
           /\ Occurrences(p, q) \in Nat
<1>1. Positions(p, q) \in SUBSET (1 .. Len(q)) /\ Len(q) \in Nat
  BY DEF Positions
<1>2. IsFiniteSet(1 .. Len(q))
  BY <1>1, FS_Interval
<1>3. IsFiniteSet(Positions(p, q))
  BY <1>1, <1>2, FS_Subset
<1> QED BY <1>3, FS_CardinalityType DEF Positions, Occurrences

LEMMA AtFinite ==
    ASSUME NEW q \in Seq(Packets), NEW p, NEW s
    PROVE  IsFiniteSet(At(p, q, s)) /\ Cardinality(At(p, q, s)) = Occurrences(p, q)
<1> DEFINE f == [i \in Positions(p, q) |-> <<s, i>>]
<1>1. f \in Bijection(Positions(p, q), At(p, q, s))
  BY DEF Bijection, Injection, Surjection, IsInjective, At
<1>2. ExistsBijection(Positions(p, q), At(p, q, s))
  BY <1>1 DEF ExistsBijection
<1> QED BY <1>2, PositionsFinite, FS_Bijection

(* the same packets at other positions *)
LEMMA Shifted ==
    ASSUME NEW P, NEW Q, P \subseteq Int, NEW n \in Int, IsFiniteSet(P),
           Q = {i + n : i \in P}
    PROVE  IsFiniteSet(Q) /\ Cardinality(Q) = Cardinality(P)
<1> DEFINE f == [i \in P |-> i + n]
<1>1. f \in Bijection(P, Q)
  BY DEF Bijection, Injection, Surjection, IsInjective
<1>2. ExistsBijection(P, Q)
  BY <1>1 DEF ExistsBijection
<1> QED BY <1>2, FS_Bijection

(* the size of two sets that have nothing in common *)
LEMMA Disjoint ==
    ASSUME NEW S, NEW T, IsFiniteSet(S), IsFiniteSet(T), S \cap T = {}
    PROVE  /\ IsFiniteSet(S \cup T)
           /\ Cardinality(S \cup T) = Cardinality(S) + Cardinality(T)
<1>1. Cardinality(S \cap T) = 0 /\ Cardinality(S) \in Nat /\ Cardinality(T) \in Nat
  BY FS_EmptySet, FS_CardinalityType
<1>2. /\ IsFiniteSet(S \cup T)
      /\ Cardinality(S \cup T) = Cardinality(S) + Cardinality(T) - Cardinality(S \cap T)
  BY FS_Union
<1> QED BY <1>1, <1>2

-----------------------------------------------------------------------------
(* what the operations on a queue do to the occurrences of a packet *)
LEMMA OccurrencesEmpty == \A p : Occurrences(p, << >>) = 0
<1>1. \A p : Positions(p, << >>) = {}
  BY DEF Positions
<1> QED BY <1>1, FS_EmptySet DEF Occurrences, Positions

LEMMA OccurrencesAppend ==
    ASSUME NEW q \in Seq(Packets), NEW x \in Packets, NEW p
    PROVE  Occurrences(p, Append(q, x)) = Occurrences(p, q) + One(p = x)
<1> DEFINE r == Append(q, x)
<1>1. /\ r \in Seq(Packets) /\ Len(q) \in Nat /\ DOMAIN r = 1 .. Len(q) + 1
      /\ r[Len(q) + 1] = x /\ \A i \in 1 .. Len(q) : r[i] = q[i]
  OBVIOUS
<1>2. Positions(p, r) = Positions(p, q) \cup (IF p = x THEN {Len(q) + 1} ELSE {})
  BY <1>1 DEF Positions
<1>3. Len(q) + 1 \notin Positions(p, q)
  BY <1>1 DEF Positions
<1> HIDE DEF r
<1>4. /\ Occurrences(p, r) = Cardinality(Positions(p, r))
      /\ Occurrences(p, q) = Cardinality(Positions(p, q))
      /\ Occurrences(p, q) \in Nat /\ IsFiniteSet(Positions(p, q))
  BY <1>1, PositionsFinite
<1>5. CASE p = x
  <2>1. Cardinality(Positions(p, r)) = Cardinality(Positions(p, q)) + 1
    BY <1>2, <1>3, <1>4, <1>5, FS_AddElement
  <2> QED BY <1>4, <1>5, <2>1 DEF r, One
<1>6. CASE p # x
  <2>1. Positions(p, r) = Positions(p, q)
    BY <1>2, <1>6
  <2> QED BY <1>4, <1>6, <2>1 DEF r, One
<1> QED BY <1>5, <1>6

LEMMA OccurrencesConcat ==
    ASSUME NEW q \in Seq(Packets), NEW r \in Seq(Packets), NEW p
    PROVE  Occurrences(p, q \o r) = Occurrences(p, q) + Occurrences(p, r)
<1>1. q \o r \in Seq(Packets) /\ Len(q) \in Nat /\ Len(r) \in Nat
  OBVIOUS
<1> DEFINE R == {i + Len(q) : i \in Positions(p, r)}
<1>2. IsFiniteSet(R) /\ Cardinality(R) = Cardinality(Positions(p, r))
  <2>1. Positions(p, r) \subseteq Int
    BY DEF Positions
  <2>2. IsFiniteSet(Positions(p, r))
    BY PositionsFinite
  <2> HIDE DEF R
  <2>3. R = {i + Len(q) : i \in Positions(p, r)}
    BY DEF R
  <2> QED BY <1>1, <2>1, <2>2, <2>3, Shifted
<1>3. Positions(p, q \o r) = Positions(p, q) \cup R
  <2>1. \A i \in Positions(p, q \o r) : i \in Positions(p, q) \cup R
    <3> SUFFICES ASSUME NEW i \in 1 .. Len(q) + Len(r), (q \o r)[i] = p, i > Len(q)
                 PROVE  i \in R
      BY <1>1 DEF Positions
    <3>1. i - Len(q) \in 1 .. Len(r) /\ r[i - Len(q)] = p
      BY <1>1
    <3>2. i - Len(q) \in Positions(p, r) /\ i = (i - Len(q)) + Len(q)
      BY <1>1, <3>1 DEF Positions
    <3> QED BY <3>2
  <2>2. \A i \in Positions(p, q) : i \in Positions(p, q \o r)
    BY <1>1 DEF Positions
  <2>3. \A i \in Positions(p, r) : i + Len(q) \in Positions(p, q \o r)
    BY <1>1 DEF Positions
  <2> QED BY <2>1, <2>2, <2>3
<1>4. Positions(p, q) \cap R = {}
  BY <1>1 DEF Positions
<1> HIDE DEF R
<1>5. Cardinality(Positions(p, q \o r)) = Cardinality(Positions(p, q)) + Cardinality(R)
  BY <1>2, <1>3, <1>4, PositionsFinite, Disjoint
<1> QED BY <1>1, <1>2, <1>5, PositionsFinite

LEMMA OccurrencesSplit ==
    ASSUME NEW q \in Seq(Packets), NEW n \in 0 .. Len(q), NEW p
    PROVE  /\ SubSeq(q, 1, n) \in Seq(Packets)
           /\ SubSeq(q, n + 1, Len(q)) \in Seq(Packets)
           /\ Occurrences(p, q) = Occurrences(p, SubSeq(q, 1, n))
                                  + Occurrences(p, SubSeq(q, n + 1, Len(q)))
<1> DEFINE a == SubSeq(q, 1, n)
           b == SubSeq(q, n + 1, Len(q))
<1>1. /\ Len(q) \in Nat /\ n \in Nat /\ n =< Len(q)
      /\ a \in Seq(Packets) /\ Len(a) = n
  OBVIOUS
<1>2. b \in Seq(Packets) /\ Len(b) = Len(q) - n
  BY <1>1
<1>3. /\ \A i \in 1 .. n : a[i] = q[i]
      /\ \A i \in 1 .. Len(q) - n : b[i] = q[i + n]
  BY <1>1
<1> HIDE DEF a, b
<1>4. /\ a \o b \in Seq(Packets) /\ Len(a \o b) = Len(q)
      /\ \A i \in 1 .. Len(q) : (a \o b)[i] = q[i]
  <2> DEFINE c == a \o b
  <2>1. /\ c \in Seq(Packets) /\ Len(c) = Len(a) + Len(b)
        /\ \A i \in 1 .. Len(a) + Len(b) : c[i] = IF i <= Len(a) THEN a[i] ELSE b[i - Len(a)]
    BY <1>1, <1>2, ConcatProperties
  <2> HIDE DEF c
  <2>2. \A i \in 1 .. Len(q) : c[i] = IF i <= n THEN a[i] ELSE b[i - n]
    <3>1. Len(a) + Len(b) = Len(q)
      BY <1>1, <1>2
    <3> QED BY ONLY <1>1, <2>1, <3>1
  <2>3. \A i \in 1 .. Len(q) : ~(i <= n) => i - n \in 1 .. Len(q) - n /\ (i - n) + n = i
    BY <1>1
  <2>4. \A i \in 1 .. Len(q) : i <= n => i \in 1 .. n
    BY <1>1
  <2>5. \A i \in 1 .. Len(q) : c[i] = q[i]
    BY <1>3, <2>2, <2>3, <2>4
  <2> QED BY <1>1, <1>2, <2>1, <2>5 DEF c
<1>5. Positions(p, a \o b) = Positions(p, q)
  <2>1. DOMAIN (a \o b) = 1 .. Len(q) /\ DOMAIN q = 1 .. Len(q)
    BY <1>4
  <2> QED BY <1>4, <2>1 DEF Positions
<1>6. Occurrences(p, a \o b) = Occurrences(p, q)
  BY <1>5 DEF Occurrences, Positions
<1>7. Occurrences(p, q) = Occurrences(p, a) + Occurrences(p, b)
  BY <1>1, <1>2, <1>6, OccurrencesConcat
<1> QED BY <1>1, <1>2, <1>7 DEF a, b

-----------------------------------------------------------------------------
(* the entries of many slots *)
LEMMA PlacesFinite ==
    ASSUME NEW q \in [Slots -> Seq(Packets)], NEW S \in SUBSET Slots, NEW p
    PROVE  /\ IsFiniteSet(Places(p, q, S))
           /\ Cardinality(Places(p, q, S)) \in Nat
           /\ Places(p, q, S) = UNION {At(p, q[s], s) : s \in S}
<1> DEFINE U == {At(p, q[s], s) : s \in S}
           f == [s \in S |-> At(p, q[s], s)]
<1>1. Places(p, q, S) = UNION U
  BY DEF Places, At, Positions
<1>2. IsFiniteSet(S)
  BY SlotAssumption, FS_Subset
<1>3. f \in Surjection(S, U)
  BY DEF Surjection
<1>4. IsFiniteSet(U)
  BY <1>2, <1>3, FS_Surjection
<1>5. \A T \in U : IsFiniteSet(T)
  BY AtFinite
<1>6. IsFiniteSet(UNION U)
  BY <1>4, <1>5, FS_UNION
<1> QED BY <1>1, <1>6, FS_CardinalityType

(* one slot taken out of the count *)
LEMMA PlacesSplit ==
    ASSUME NEW q \in [Slots -> Seq(Packets)], NEW S \in SUBSET Slots, NEW s \in S, NEW p
    PROVE  Cardinality(Places(p, q, S)) =
               Cardinality(Places(p, q, S \ {s})) + Occurrences(p, q[s])
<1>1. Places(p, q, S) = Places(p, q, S \ {s}) \cup At(p, q[s], s)
  BY DEF Places, At, Positions
<1>2. Places(p, q, S \ {s}) \cap At(p, q[s], s) = {}
  BY DEF Places, At, Positions
<1>3. IsFiniteSet(Places(p, q, S \ {s}))
  BY PlacesFinite
<1>4. q[s] \in Seq(Packets)
  OBVIOUS
<1> QED BY <1>1, <1>2, <1>3, <1>4, AtFinite, Disjoint

LEMMA PlacesSame ==
    ASSUME NEW q, NEW r, NEW S, NEW p, \A s \in S : q[s] = r[s]
    PROVE  Places(p, q, S) = Places(p, r, S)
BY DEF Places

(* the slots whose sendPacketArr owns its packets *)
ArmedSlots == {s \in Slots : Armed(s)}
(* the threads that own a reference to packet p *)
Holders(p) == {t \in Threads : pkt[t] = p}
(* the references to packet p that sendPacketArr of slot s owns *)
Owned(p, s) == IF Armed(s) THEN Occurrences(p, sendArr[s]) ELSE 0

LEMMA PlacesOutside ==
    ASSUME NEW q, NEW S, NEW s, NEW p, s \notin S
    PROVE  Places(p, q, S \ {s}) = Places(p, q, S)
<1>1. S \ {s} = S
  OBVIOUS
<1> QED BY <1>1, Zenon

(* The count stays exact if it changes for slot s and the holders as much as  *)
(* refCount does.                                                             *)
LEMMA RefsStep ==
    ASSUME TypeInv, TypeInv', PacketRefsExact, NEW s \in Slots,
           \A u \in Slots \ {s} : /\ sendQ'[u] = sendQ[u] /\ sendArr'[u] = sendArr[u]
                                  /\ Armed(u)' <=> Armed(u),
           \A p \in Packets :
               refCount'[p] = refCount[p]
                   - Cardinality(Holders(p)) - Occurrences(p, sendQ[s]) - Owned(p, s)
                   + Cardinality(Holders(p)') + Occurrences(p, sendQ'[s]) + Owned(p, s)'
    PROVE  PacketRefsExact'
<1> SUFFICES ASSUME NEW p \in Packets
             PROVE  refCount'[p] = Cardinality(Holders(p)')
                       + Cardinality(Places(p, sendQ', Slots))
                       + Cardinality(Places(p, sendArr', ArmedSlots'))
  BY DEF PacketRefsExact, Holders, ArmedSlots
<1>1. /\ sendQ \in [Slots -> Seq(Packets)] /\ sendArr \in [Slots -> Seq(Packets)]
      /\ sendQ' \in [Slots -> Seq(Packets)] /\ sendArr' \in [Slots -> Seq(Packets)]
      /\ ArmedSlots \in SUBSET Slots /\ ArmedSlots' \in SUBSET Slots
      /\ refCount[p] \in Int
  BY DEF TypeInv, TypeOK, SendTypeOK, ArmedSlots
<1>2. /\ refCount[p] = Cardinality(Holders(p))
                       + Cardinality(Places(p, sendQ, Slots))
                       + Cardinality(Places(p, sendArr, ArmedSlots))
  BY DEF PacketRefsExact, Holders, ArmedSlots
<1>3. ArmedSlots \ {s} = ArmedSlots' \ {s}
  BY DEF ArmedSlots
<1>4. /\ Places(p, sendQ, Slots \ {s}) = Places(p, sendQ', Slots \ {s})
      /\ Places(p, sendArr, ArmedSlots \ {s}) = Places(p, sendArr', ArmedSlots \ {s})
  BY PlacesSame DEF ArmedSlots
<1>5. /\ Cardinality(Holders(p)) \in Nat /\ Cardinality(Holders(p)') \in Nat
  <2>1. Holders(p) \in SUBSET Threads /\ Holders(p)' \in SUBSET Threads
    BY DEF Holders
  <2>2. IsFiniteSet(Holders(p)) /\ IsFiniteSet(Holders(p)')
    BY <2>1, ThreadsFinite, FS_Subset
  <2> QED BY <2>2, FS_CardinalityType
<1>6. /\ Owned(p, s) = IF s \in ArmedSlots THEN Occurrences(p, sendArr[s]) ELSE 0
      /\ Owned(p, s)' = IF s \in ArmedSlots' THEN Occurrences(p, sendArr'[s]) ELSE 0
  BY DEF Owned, ArmedSlots
<1> DEFINE nq == Cardinality(Places(p, sendQ, Slots))
           nq2 == Cardinality(Places(p, sendQ', Slots))
           na == Cardinality(Places(p, sendArr, ArmedSlots))
           na2 == Cardinality(Places(p, sendArr', ArmedSlots'))
           rq == Cardinality(Places(p, sendQ, Slots \ {s}))
           ra == Cardinality(Places(p, sendArr, ArmedSlots \ {s}))
           oq == Occurrences(p, sendQ[s])
           oq2 == Occurrences(p, sendQ'[s])
           oa == Owned(p, s)
           oa2 == Owned(p, s)'
<1>7. /\ nq = rq + oq /\ na = ra + oa
      /\ nq \in Nat /\ na \in Nat /\ rq \in Nat /\ ra \in Nat /\ oq \in Nat /\ oa \in Nat
  <2>1. nq = rq + oq
    <3>1. Slots \in SUBSET Slots
      OBVIOUS
    <3> QED BY <1>1, <3>1, PlacesSplit, Zenon
  <2>2. nq \in Nat /\ na \in Nat /\ rq \in Nat /\ ra \in Nat
    BY <1>1, PlacesFinite
  <2>3. sendQ[s] \in Seq(Packets) /\ sendArr[s] \in Seq(Packets)
    BY <1>1
  <2>4. oq \in Nat /\ oa \in Nat
    BY <1>6, <2>3, PositionsFinite
  <2>5. na = ra + oa
    <3>1. CASE s \in ArmedSlots
      <4>1. na = ra + Occurrences(p, sendArr[s])
        BY <1>1, <3>1, PlacesSplit, Zenon
      <4> QED BY <1>6, <3>1, <4>1
    <3>2. CASE s \notin ArmedSlots
      <4>1. ra = na
        BY <3>2, PlacesOutside
      <4> QED BY <1>6, <2>2, <3>2, <4>1
    <3> QED BY <3>1, <3>2
  <2> QED BY <2>1, <2>2, <2>4, <2>5
<1>8. /\ nq2 = rq + oq2 /\ na2 = ra + oa2
      /\ nq2 \in Nat /\ na2 \in Nat /\ oq2 \in Nat /\ oa2 \in Nat
  <2> DEFINE rq2 == Cardinality(Places(p, sendQ', Slots \ {s}))
             ra2 == Cardinality(Places(p, sendArr', ArmedSlots' \ {s}))
  <2>1. nq2 = rq2 + oq2
    <3>1. Slots \in SUBSET Slots
      OBVIOUS
    <3> QED BY <1>1, <3>1, PlacesSplit, Zenon
  <2>2. nq2 \in Nat /\ na2 \in Nat /\ rq2 \in Nat /\ ra2 \in Nat
    BY <1>1, PlacesFinite
  <2>3. sendQ'[s] \in Seq(Packets) /\ sendArr'[s] \in Seq(Packets)
    BY <1>1
  <2>4. oq2 \in Nat /\ oa2 \in Nat
    BY <1>6, <2>3, PositionsFinite
  <2>5. na2 = ra2 + oa2
    <3>1. CASE s \in ArmedSlots'
      <4>1. na2 = ra2 + Occurrences(p, sendArr'[s])
        BY <1>1, <3>1, PlacesSplit, Zenon
      <4> QED BY <1>6, <3>1, <4>1
    <3>2. CASE s \notin ArmedSlots'
      <4>1. ra2 = na2
        BY <3>2, PlacesOutside
      <4> QED BY <1>6, <2>2, <3>2, <4>1
    <3> QED BY <3>1, <3>2
  <2>6. rq2 = rq /\ ra2 = ra
    BY <1>3, <1>4, Zenon
  <2> HIDE DEF nq2, na2, rq, ra, oq2, rq2, ra2
  <2> QED BY <2>1, <2>2, <2>4, <2>5, <2>6
<1>9. refCount'[p] = refCount[p] - Cardinality(Holders(p)) - oq - oa
                     + Cardinality(Holders(p)') + oq2 + oa2
  OBVIOUS
<1> HIDE DEF nq, nq2, na, na2, rq, ra, oq, oq2, oa, oa2
<1>10. refCount[p] = Cardinality(Holders(p)) + nq + na
  BY <1>2 DEF nq, na
<1>11. refCount'[p] = Cardinality(Holders(p)') + nq2 + na2
  <2>1. refCount[p] \in Int
    BY <1>1
  <2> QED BY ONLY <1>5, <1>7, <1>8, <1>9, <1>10, <2>1
<1> QED BY <1>11 DEF nq2, na2

(* a thread takes or gives up packet x, or does not *)
LEMMA HoldersStep ==
    ASSUME NEW t \in Threads, NEW p, \A u \in Threads \ {t} : pkt'[u] = pkt[u]
    PROVE  /\ Cardinality(Holders(p)) \in Nat
           /\ Cardinality(Holders(p)') =
                Cardinality(Holders(p)) - One(pkt[t] = p) + One(pkt'[t] = p)
<1>1. Holders(p) \in SUBSET Threads /\ Holders(p)' \in SUBSET Threads
  BY DEF Holders
<1>2. IsFiniteSet(Holders(p)) /\ IsFiniteSet(Holders(p)')
  BY <1>1, ThreadsFinite, FS_Subset
<1>3. Holders(p) \ {t} = Holders(p)' \ {t}
  BY DEF Holders
<1>4. (t \in Holders(p) <=> pkt[t] = p) /\ (t \in Holders(p)' <=> pkt'[t] = p)
  BY DEF Holders
<1> QED BY <1>2, <1>3, <1>4, OneElement DEF One

(* nothing that is counted changes *)
LEMMA RefsFrame ==
    ASSUME PacketRefsExact, UNCHANGED <<pkt, sendQ, sendArr, refCount>>,
           \A s \in Slots : Armed(s)' <=> Armed(s)
    PROVE  PacketRefsExact'
<1>1. {s \in Slots : Armed(s)}' = {s \in Slots : Armed(s)}
  OBVIOUS
<1> QED BY <1>1 DEF PacketRefsExact

-----------------------------------------------------------------------------
(* The owner of a packet, and that sendPacketArr may be written.              *)

(* where sendPacketArr is about to be filled or was just emptied *)
EmptyPcs == {"SendUnflag", "SpUse", "SpClear"}

LEMMA QuietArmed ==
    ASSUME NEW t \in Threads, Quiet(t), NEW s \in Slots
    PROVE  Armed(s)' <=> Armed(s)
BY DEF Quiet, OnlyThread, Armed, Releasing

LEMMA CallerStep ==
    ASSUME CallerOK, NEW t \in Threads, OnlyThread(t),
           \A u \in Threads \ {t} : op'[u] = op[u] /\ pkt'[u] = pkt[u],
           pkt'[t] # NoPacket => Calling(t)' /\ op'[t] = "send"
    PROVE  CallerOK'
BY DEF CallerOK, Calling, OnlyThread

(* a quiet step of t on slot s leaves its array empty, or in the hands of t *)
LEMMA ArrayStep ==
    ASSUME SessionInv, ArrayOK, NEW t \in Workers \cup ApiThreads, Quiet(t),
           NEW s \in Slots,
           \A u \in Slots \ {s} : sendFlag'[u] = sendFlag[u] /\ sendArr'[u] = sendArr[u],
           slot'[t] = s,
           \/ sendArr'[s] = << >>
           \/ Held(s) /\ sendFlag'[s] = 1 /\ \A w \in Senders(s)' : pc'[w] \notin EmptyPcs
    PROVE  ArrayOK'
<1>1. /\ t \in Threads /\ t # Acceptor /\ Acceptor \in Threads /\ Workers \subseteq Threads
      /\ \A u \in Slots : (Preparing(u)' <=> Preparing(u)) /\ (Held(u)' <=> Held(u))
      /\ UNCHANGED <<sessionID, releaseFlag>>
  BY ThreadKinds DEF Quiet, OnlyThread, Preparing, Held
<1>2. ASSUME NEW u \in Slots \ {s}, NEW w \in Senders(u)'
      PROVE  w \in Senders(u) /\ pc'[w] = pc[w]
  BY <1>1, <1>2 DEF Senders, Quiet, OnlyThread
<1>3. ASSUME NEW u \in Slots \ {s}
      PROVE  /\ sessionID'[u].cnt = 0 \/ (Preparing(u)' /\ releaseFlag'[u] = 0)
                   => sendArr'[u] = << >>
             /\ Held(u)' /\ sendFlag'[u] = 0 => sendArr'[u] = << >>
             /\ \A w \in Senders(u)' : pc'[w] \in EmptyPcs => sendArr'[u] = << >>
  BY <1>1, <1>2 DEF ArrayOK, EmptyPcs
<1>4. /\ sessionID'[s].cnt = 0 \/ (Preparing(s)' /\ releaseFlag'[s] = 0)
            => sendArr'[s] = << >>
      /\ Held(s)' /\ sendFlag'[s] = 0 => sendArr'[s] = << >>
      /\ \A w \in Senders(s)' : pc'[w] \in EmptyPcs => sendArr'[s] = << >>
  BY <1>1 DEF Held
<1> QED BY <1>3, <1>4 DEF ArrayOK, EmptyPcs

(* a step of t that has nothing to do with packets *)
PacketQuiet(t) ==
    /\ UNCHANGED <<sendVars, refCount, pkt>>
    /\ pc'[t] \notin EmptyPcs
    /\ \A u \in Threads \ {t} : op'[u] = op[u]
    /\ Calling(t) /\ op[t] = "send" => Calling(t)' /\ op'[t] = "send"

LEMMA PacketFrame ==
    ASSUME SessionInv, PacketOK, NEW t \in Workers \cup ApiThreads, Quiet(t), PacketQuiet(t)
    PROVE  PacketOK'
<1>1. /\ t \in Threads /\ t # Acceptor /\ Acceptor \in Threads /\ Workers \subseteq Threads
      /\ \A u \in Slots : (Preparing(u)' <=> Preparing(u)) /\ (Held(u)' <=> Held(u))
      /\ UNCHANGED <<sessionID, releaseFlag, sendFlag, sendArr>>
  BY ThreadKinds DEF Quiet, OnlyThread, Preparing, Held, PacketQuiet
<1>2. CallerOK'
  <2>1. OnlyThread(t) /\ CallerOK
    BY DEF Quiet, PacketOK
  <2>2. pkt'[t] # NoPacket => Calling(t)' /\ op'[t] = "send"
    BY <1>1, <2>1 DEF PacketQuiet, CallerOK
  <2> QED BY <1>1, <2>1, <2>2, CallerStep DEF PacketQuiet
<1>3. ArrayOK'
  <2>1. ASSUME NEW u \in Slots, NEW w \in Senders(u)', pc'[w] \in EmptyPcs
        PROVE  w \in Senders(u) /\ pc'[w] = pc[w]
    BY <1>1, <2>1 DEF Senders, Quiet, OnlyThread, PacketQuiet
  <2> QED BY <1>1, <2>1 DEF PacketOK, ArrayOK, EmptyPcs
<1>4. PacketRefsExact'
  BY <1>1, QuietArmed, RefsFrame DEF PacketQuiet, PacketOK
<1> QED BY <1>2, <1>3, <1>4 DEF PacketOK

-----------------------------------------------------------------------------
(* the port, and the steps of a worker that hand no packet on *)
LEMMA PacketTake ==
    ASSUME SessionInv, NEW w \in Workers, Take(w) \/ Dec(w)
    PROVE  PacketQuiet(w)
<1>1. w \in Threads /\ TypeInv /\ Idle(w) = "Gqcs"
  BY InvParts, ThreadKinds, IdleKinds
<1>2. pc[w] \in {"Gqcs", "Dec"}
  BY DEF Take, TakeRecv, TakeSend, TakeSendPost, TakeRelease, Dec
<1>3. pc'[w] \in {"Parse", "SendFree", "SpSize", "RelCas", "Dec", "Gqcs"}
  BY <1>1 DEF Take, TakeRecv, TakeSend, TakeSendPost, TakeRelease, Dispatch, Dec, Finish,
              TypeInv, TypeOK, ThreadTypeOK
<1>4. UNCHANGED <<sendVars, refCount, pkt, op>>
  BY DEF Take, TakeRecv, TakeSend, TakeSendPost, TakeRelease, Dispatch, Dec
<1> QED BY <1>2, <1>3, <1>4 DEF PacketQuiet, EmptyPcs, Calling

LEMMA PacketSendQuiet ==
    ASSUME SessionInv, NEW w \in Workers, SpSize(w) \/ SpLoad(w) \/ SpCall(w) \/ SpPending(w)
    PROVE  PacketQuiet(w)
<1>1. w \in Threads /\ TypeInv
  BY InvParts, ThreadKinds
<1>2. pc[w] \in {"SpSize", "SpLoad", "SpCall", "SpPending"}
  BY DEF SpSize, SpLoad, SpCall, SpPending
<1>3. pc'[w] \in {"Dec", "SpFlag", "SpCall", "SpPending"}
  BY <1>1 DEF SpSize, SpLoad, SpCall, SpPending, TypeInv, TypeOK, ThreadTypeOK
<1>4. UNCHANGED <<sendVars, refCount, pkt, op>>
  BY DEF SpSize, SpLoad, SpCall, SpPending
<1> QED BY <1>2, <1>3, <1>4 DEF PacketQuiet, EmptyPcs, Calling

LEMMA PacketRecvQuiet ==
    ASSUME SessionInv, NEW w \in Workers,
           ParseEnd(w) \/ ParseBad(w) \/ RpLoad(w) \/ RpCall(w) \/ RpPending(w)
    PROVE  PacketQuiet(w)
<1>1. w \in Threads /\ TypeInv
  BY InvParts, ThreadKinds
<1>2. pc[w] \in {"Parse", "RpLoad", "RpCall", "RpPending"}
  BY DEF ParseEnd, ParseBad, RpLoad, RpCall, RpPending
<1>3. pc'[w] \in {"RpLoad", "Enter", "RpCall", "RpPending", "Dec"}
  BY <1>1 DEF ParseEnd, ParseBad, Call, RpLoad, RpCall, RpPending, TypeInv, TypeOK, ThreadTypeOK
<1>4. /\ UNCHANGED <<sendVars, refCount, pkt>>
      /\ \A u \in Threads \ {w} : op'[u] = op[u]
  BY <1>1 DEF ParseEnd, ParseBad, Call, RpLoad, RpCall, RpPending, TypeInv, TypeOK, ThreadTypeOK
<1> QED BY <1>2, <1>3, <1>4 DEF PacketQuiet, EmptyPcs, Calling

LEMMA PacketCallQuiet ==
    ASSUME SessionInv, NEW t \in Workers \cup ApiThreads,
           \/ Enter(t) \/ ChkFlag(t) \/ ChkId(t) \/ DcExchange(t) \/ DcCancel(t)
           \/ SqPost(t) \/ SqPostFails(t) \/ Leave(t)
    PROVE  PacketQuiet(t)
<1>1. t \in Threads /\ TypeInv
  BY InvParts, ThreadKinds
<1>2. /\ UNCHANGED <<sendVars, refCount, pkt>>
      /\ \A u \in Threads \ {t} : op'[u] = op[u]
  BY <1>1 DEF Enter, ChkFlag, ChkId, DcExchange, DcCancel, SqPost, SqPostFails, Leave,
              Return, EndCall, TypeInv, TypeOK, ThreadTypeOK
<1>3. CASE Enter(t) \/ ChkFlag(t) \/ ChkId(t) \/ DcExchange(t) \/ DcCancel(t) \/ SqPostFails(t)
  <2>1. pc'[t] \in CallPcs /\ op' = op
    BY <1>1, <1>3 DEF Enter, ChkFlag, ChkId, DcExchange, DcCancel, SqPostFails, TypeInv,
                      TypeOK, ThreadTypeOK
  <2> QED BY <1>2, <2>1 DEF PacketQuiet, EmptyPcs, Calling
<1>4. CASE SqPost(t) \/ Leave(t)
  <2>1. Return(t) /\ pc[t] \in {"SqPost", "Leave"}
    BY <1>4 DEF SqPost, Leave
  <2>2. CASE op[t] = "send"
    BY <1>1, <1>2, <2>1, <2>2
       DEF PacketQuiet, EmptyPcs, Calling, Return, TypeInv, TypeOK, ThreadTypeOK
  <2>3. CASE op[t] # "send"
    <3>1. pc'[t] = ret[t] /\ ret[t] \notin EmptyPcs
      BY <1>1, <2>1, <2>3 DEF Return, EndCall, EmptyPcs, TypeInv, TypeOK, ThreadTypeOK
    <3> QED BY <1>2, <2>3, <3>1 DEF PacketQuiet
  <2> QED BY <2>2, <2>3
<1> QED BY <1>3, <1>4

-----------------------------------------------------------------------------
(* The send side.  A worker on it has an armed array. *)
LEMMA SenderArmed ==
    ASSUME SessionInv, NEW w \in Workers, pc[w] \in BasePcs
    PROVE  /\ TypeInv /\ w \in Threads /\ slot[w] \in Slots /\ Held(slot[w])
           /\ Armed(slot[w]) /\ sendArr[slot[w]] \in Seq(Packets)
           /\ sendQ[slot[w]] \in Seq(Packets)
<1>1. /\ TypeInv /\ SlotInv /\ w \in Threads /\ slot[w] \in Slots
  BY InvParts, ThreadKinds DEF TypeInv, PlaceOK
<1>2. Held(slot[w])
  BY <1>1, WorkerHolds DEF SlotInv
<1> QED BY <1>1, <1>2 DEF Held, Armed, TypeInv, TypeOK, SendTypeOK

(* the packets of a completed send are freed *)
LEMMA PacketSendFree ==
    ASSUME SessionInv, TypeInv', PacketOK, NEW w \in Workers, SendFree(w)
    PROVE  PacketOK'
<1>0. pc[w] = "SendFree"
  BY DEF SendFree
<1>1. PICK s \in Slots : s = slot[w]
  BY <1>0, SenderArmed
<1>2. /\ TypeInv /\ w \in Threads /\ Held(s) /\ Armed(s)
      /\ sendArr[s] \in Seq(Packets) /\ sendQ[s] \in Seq(Packets)
  BY <1>0, <1>1, SenderArmed
<1>3. Quiet(w)
  BY QuietSend DEF SendStep
<1>4. /\ refCount' = FreeAll(sendArr[s]) /\ UNCHANGED <<sendFlag, sendQ, pkt, op, slot>>
      /\ sendArr' = [sendArr EXCEPT ![s] = << >>]
  BY <1>1 DEF SendFree, SentCountReset
<1>5. /\ sendArr'[s] = << >> /\ \A u \in Slots \ {s} : sendArr'[u] = sendArr[u]
      /\ \A p \in Packets : refCount'[p] = refCount[p] - Occurrences(p, sendArr[s])
  BY <1>2, <1>4 DEF FreeAll, TypeInv, TypeOK, SendTypeOK
<1>6. CallerOK'
  <2>1. pkt[w] = NoPacket
    BY <1>0, <1>2 DEF PacketOK, CallerOK, Calling
  <2> QED BY <1>2, <1>3, <1>4, <2>1, CallerStep DEF Quiet, PacketOK
<1>7. ArrayOK'
  BY <1>1, <1>3, <1>4, <1>5, ArrayStep DEF PacketOK
<1>8. PacketRefsExact'
  <2>1. ASSUME NEW p \in Packets
        PROVE  refCount'[p] = refCount[p]
                   - Cardinality(Holders(p)) - Occurrences(p, sendQ[s]) - Owned(p, s)
                   + Cardinality(Holders(p)') + Occurrences(p, sendQ'[s]) + Owned(p, s)'
    <3>1. Holders(p)' = Holders(p) /\ sendQ'[s] = sendQ[s]
      BY <1>4 DEF Holders
    <3>2. Cardinality(Holders(p)) \in Nat
      BY <1>2, <1>4, HoldersStep
    <3>3. Owned(p, s) = Occurrences(p, sendArr[s]) /\ Owned(p, s)' = 0
      BY <1>2, <1>5, OccurrencesEmpty DEF Owned
    <3>4. Occurrences(p, sendArr[s]) \in Nat /\ Occurrences(p, sendQ[s]) \in Nat
      BY <1>2, PositionsFinite
    <3>5. refCount[p] \in Int
      BY <1>2 DEF TypeInv, TypeOK, SendTypeOK
    <3> QED BY <1>5, <3>1, <3>2, <3>3, <3>4, <3>5
  <2>2. \A u \in Slots : Armed(u)' <=> Armed(u)
    BY <1>2, <1>3, QuietArmed
  <2>3. PacketRefsExact
    BY DEF PacketOK
  <2> QED BY <1>2, <1>4, <1>5, <2>1, <2>2, <2>3, RefsStep
<1> QED BY <1>6, <1>7, <1>8 DEF PacketOK

(* SendPost: the steps that change sendFlag alone *)
LEMMA PacketSpFlag ==
    ASSUME SessionInv, TypeInv', PacketOK, NEW w \in Workers,
           SendUnflag(w) \/ SpFlag(w) \/ SpClear(w)
    PROVE  PacketOK'
<1>0. pc[w] \in {"SendUnflag", "SpFlag", "SpClear"}
  BY DEF SendUnflag, SpFlag, SpClear
<1>1. PICK s \in Slots : s = slot[w]
  BY <1>0, SenderArmed
<1>2. /\ TypeInv /\ w \in Threads /\ Held(s)
  BY <1>0, <1>1, SenderArmed
<1>3. Quiet(w)
  BY QuietSend DEF SendStep
<1>4. /\ UNCHANGED <<sendQ, sendArr, pkt, op, slot, refCount>>
      /\ \A u \in Slots \ {s} : sendFlag'[u] = sendFlag[u]
  BY <1>1, <1>2 DEF SendUnflag, SpFlag, SpClear, TypeInv, TypeOK, SendTypeOK
<1>5. CASE SpFlag(w) /\ sendFlag[s] = 1
  <2>1. UNCHANGED sendFlag /\ pc'[w] = "Dec"
    BY <1>1, <1>2, <1>5
       DEF SpFlag, AlreadySending, TypeInv, TypeOK, SendTypeOK, ThreadTypeOK
  <2>2. PacketQuiet(w)
    BY <1>0, <1>4, <2>1 DEF PacketQuiet, EmptyPcs, Calling
  <2> QED BY <1>3, <2>2, PacketFrame
<1>6. CASE ~(SpFlag(w) /\ sendFlag[s] = 1)
  <2>1. sendArr[s] = << >>
    <3>1. CASE SpFlag(w)
      <4>1. sendFlag[s] = 0
        BY <1>2, <1>6, <3>1 DEF TypeInv, TypeOK, SendTypeOK
      <4> QED BY <1>2, <4>1 DEF PacketOK, ArrayOK
    <3>2. CASE ~SpFlag(w)
      <4>1. pc[w] \in {"SendUnflag", "SpClear"}
        BY <3>2 DEF SendUnflag, SpClear
      <4> QED BY <1>1, <4>1 DEF PacketOK, ArrayOK, Senders
    <3> QED BY <3>1, <3>2
  <2>2. CallerOK'
    <3>1. pkt[w] = NoPacket
      BY <1>0, <1>2 DEF PacketOK, CallerOK, Calling
    <3> QED BY <1>2, <1>3, <1>4, <3>1, CallerStep DEF Quiet, PacketOK
  <2>3. ArrayOK'
    BY <1>1, <1>3, <1>4, <2>1, ArrayStep DEF PacketOK
  <2>4. PacketRefsExact'
    BY <1>2, <1>3, <1>4, QuietArmed, RefsFrame DEF PacketOK
  <2> QED BY <2>2, <2>3, <2>4 DEF PacketOK
<1> QED BY <1>5, <1>6

(* SendPost moves packets from the queue to the empty sendPacketArr *)
LEMMA PacketSpUse ==
    ASSUME SessionInv, TypeInv', PacketOK, NEW w \in Workers, SpUse(w)
    PROVE  PacketOK'
<1>0. pc[w] = "SpUse"
  BY DEF SpUse
<1>1. PICK s \in Slots : s = slot[w]
  BY <1>0, SenderArmed
<1>2. /\ TypeInv /\ w \in Threads /\ Held(s) /\ Armed(s)
      /\ sendArr[s] \in Seq(Packets) /\ sendQ[s] \in Seq(Packets)
  BY <1>0, <1>1, SenderArmed
<1>3. Quiet(w)
  BY QuietSend DEF SendStep
<1>4. UNCHANGED <<sendFlag, pkt, op, slot, refCount>>
  BY DEF SpUse
<1>5. w \in Senders(s) /\ sendArr[s] = << >>
  BY <1>0, <1>1 DEF PacketOK, ArrayOK, Senders
<1>6. CallerOK'
  <2>1. pkt[w] = NoPacket
    BY <1>0, <1>2 DEF PacketOK, CallerOK, Calling
  <2> QED BY <1>2, <1>3, <1>4, <2>1, CallerStep DEF Quiet, PacketOK
<1>7. CASE sendQ[s] = << >>
  <2>1. UNCHANGED <<sendQ, sendArr>>
    BY <1>1, <1>7 DEF SpUse
  <2>2. ArrayOK'
    BY <1>1, <1>3, <1>4, <1>5, <2>1, ArrayStep DEF PacketOK
  <2>3. PacketRefsExact'
    BY <1>2, <1>3, <1>4, <2>1, QuietArmed, RefsFrame DEF PacketOK
  <2> QED BY <1>6, <2>2, <2>3 DEF PacketOK
<1>8. CASE sendQ[s] # << >>
  <2> DEFINE n == IF Len(sendQ[s]) > MaxBuf THEN MaxBuf ELSE Len(sendQ[s])
             a == SubSeq(sendQ[s], 1, n)
             b == SubSeq(sendQ[s], n + 1, Len(sendQ[s]))
  <2>1. /\ sendArr' = [sendArr EXCEPT ![s] = a]
        /\ sendQ' = [sendQ EXCEPT ![s] = b]
        /\ pc' = [pc EXCEPT ![w] = "SpLoad"]
    BY <1>1, <1>8 DEF SpUse
  <2>2. n \in 0 .. Len(sendQ[s])
    BY <1>2, BoundAssumption
  <2> HIDE DEF n
  <2>3. a \in Seq(Packets) /\ b \in Seq(Packets)
    BY <1>2, <2>2, OccurrencesSplit
  <2>4. \A p : Occurrences(p, sendQ[s]) = Occurrences(p, a) + Occurrences(p, b)
    BY <1>2, <2>2, OccurrencesSplit
  <2> HIDE DEF a, b
  <2>5. /\ sendArr'[s] = a /\ sendQ'[s] = b /\ pc'[w] = "SpLoad"
        /\ \A u \in Slots \ {s} : sendArr'[u] = sendArr[u] /\ sendQ'[u] = sendQ[u]
    BY <1>2, <2>1 DEF TypeInv, TypeOK, SendTypeOK, ThreadTypeOK
  <2>6. ArrayOK'
    <3>1. sendFlag'[s] = 1
      BY <1>4, <1>5, InvParts DEF SenderOK
    <3>2. ASSUME NEW v \in Senders(s)' PROVE pc'[v] \notin EmptyPcs
      <4>1. CASE v = w
        BY <2>5, <4>1 DEF EmptyPcs
      <4>2. CASE v # w
        <5>1. v \in Senders(s)
          BY <1>3, <3>2, <4>2, ThreadKinds DEF Senders, Quiet, OnlyThread
        <5> QED BY <1>5, <4>2, <5>1, InvParts DEF SenderOK
      <4> QED BY <4>1, <4>2
    <3> QED BY <1>1, <1>2, <1>3, <1>4, <2>5, <3>1, <3>2, ArrayStep DEF PacketOK
  <2>7. PacketRefsExact'
    <3>1. ASSUME NEW p \in Packets
          PROVE  refCount'[p] = refCount[p]
                   - Cardinality(Holders(p)) - Occurrences(p, sendQ[s]) - Owned(p, s)
                   + Cardinality(Holders(p)') + Occurrences(p, sendQ'[s]) + Owned(p, s)'
      <4>1. Holders(p)' = Holders(p)
        BY <1>4 DEF Holders
      <4>2. Cardinality(Holders(p)) \in Nat
        BY <1>2, <1>4, HoldersStep
      <4>3. Owned(p, s) = 0 /\ Owned(p, s)' = Occurrences(p, a)
        BY <1>2, <1>3, <1>5, <2>5, OccurrencesEmpty, QuietArmed DEF Owned
      <4>4. Occurrences(p, a) \in Nat /\ Occurrences(p, b) \in Nat
        BY <2>3, PositionsFinite
      <4>5. refCount[p] \in Int
        BY <1>2 DEF TypeInv, TypeOK, SendTypeOK
      <4>6. Occurrences(p, sendQ'[s]) = Occurrences(p, b)
        BY <2>5
      <4> QED BY <1>4, <2>4, <4>1, <4>2, <4>3, <4>4, <4>5, <4>6
    <3>2. \A u \in Slots : Armed(u)' <=> Armed(u)
      BY <1>2, <1>3, QuietArmed
    <3>3. PacketRefsExact
      BY DEF PacketOK
    <3> QED BY <1>2, <2>5, <3>1, <3>2, <3>3, RefsStep
  <2> QED BY <1>6, <2>6, <2>7 DEF PacketOK
<1> QED BY <1>7, <1>8

-----------------------------------------------------------------------------
(* The callers of SendPacket.  A step of t on its own packet reference. *)
LEMMA PacketHolder ==
    ASSUME SessionInv, TypeInv', PacketOK, NEW t \in Workers \cup ApiThreads, Quiet(t),
           UNCHANGED sendVars, pc'[t] \notin EmptyPcs,
           \A u \in Threads \ {t} : op'[u] = op[u] /\ pkt'[u] = pkt[u],
           pkt'[t] # NoPacket => Calling(t)' /\ op'[t] = "send",
           NEW s \in Slots,
           \A p \in Packets :
               refCount'[p] = refCount[p] - One(pkt[t] = p) + One(pkt'[t] = p)
    PROVE  PacketOK'
<1>1. /\ TypeInv /\ t \in Threads /\ t # Acceptor /\ Workers \subseteq Threads
      /\ \A u \in Slots : (Preparing(u)' <=> Preparing(u)) /\ (Held(u)' <=> Held(u))
      /\ UNCHANGED <<sessionID, releaseFlag, sendFlag, sendArr, sendQ>>
  BY InvParts, ThreadKinds DEF Quiet, OnlyThread, Preparing, Held
<1>2. CallerOK'
  BY <1>1, CallerStep DEF PacketOK, Quiet
<1>3. ArrayOK'
  <2>1. ASSUME NEW u \in Slots, NEW w \in Senders(u)', pc'[w] \in EmptyPcs
        PROVE  w \in Senders(u) /\ pc'[w] = pc[w]
    BY <1>1, <2>1 DEF Senders, Quiet, OnlyThread
  <2> QED BY <1>1, <2>1 DEF PacketOK, ArrayOK, EmptyPcs
<1>4. PacketRefsExact'
  <2>1. \A u \in Slots : Armed(u)' <=> Armed(u)
    BY <1>1, QuietArmed
  <2>2. ASSUME NEW p \in Packets
        PROVE  refCount'[p] = refCount[p]
                 - Cardinality(Holders(p)) - Occurrences(p, sendQ[s]) - Owned(p, s)
                 + Cardinality(Holders(p)') + Occurrences(p, sendQ'[s]) + Owned(p, s)'
    <3>1. /\ Cardinality(Holders(p)) \in Nat
          /\ Cardinality(Holders(p)') =
                Cardinality(Holders(p)) - One(pkt[t] = p) + One(pkt'[t] = p)
      BY <1>1, HoldersStep
    <3>2. sendQ[s] \in Seq(Packets) /\ sendArr[s] \in Seq(Packets) /\ refCount[p] \in Int
      BY <1>1 DEF TypeInv, TypeOK, SendTypeOK
    <3>3. Occurrences(p, sendQ[s]) \in Nat /\ Occurrences(p, sendArr[s]) \in Nat
      BY <3>2, PositionsFinite
    <3>4. Owned(p, s)' = Owned(p, s) /\ Owned(p, s) \in Nat
      BY <1>1, <2>1, <3>3 DEF Owned
    <3>5. One(pkt[t] = p) \in Int /\ One(pkt'[t] = p) \in Int
      BY DEF One
    <3>6. refCount'[p] = refCount[p] - One(pkt[t] = p) + One(pkt'[t] = p)
          /\ sendQ'[s] = sendQ[s]
      BY <1>1
    <3>7. Occurrences(p, sendQ'[s]) = Occurrences(p, sendQ[s])
      BY ONLY <3>6
    <3>8. \A c, x, y, q, o, r \in Int :
             r - x + y = r - c - q - o + (c - x + y) + q + o
      OBVIOUS
    <3> QED BY <3>1, <3>2, <3>3, <3>4, <3>5, <3>6, <3>7, <3>8
  <2>3. PacketRefsExact
    BY DEF PacketOK
  <2> QED BY <1>1, <2>1, <2>2, <2>3, RefsStep
<1> QED BY <1>2, <1>3, <1>4 DEF PacketOK

(* Login allocates the response, a contents thread a packet to send *)
LEMMA PacketAlloc ==
    ASSUME SessionInv, TypeInv', PacketOK, NEW t \in Workers \cup ApiThreads,
           (t \in Workers /\ OnRecv(t)) \/ (t \in ApiThreads /\ ApiCall(t))
    PROVE  PacketOK'
<1>1. TypeInv /\ t \in Threads
  BY InvParts, ThreadKinds
<1>2. Quiet(t)
  BY QuietRecv, QuietApiCall DEF RecvStep
<1>3. /\ UNCHANGED sendVars /\ pc'[t] = "Enter" /\ pc[t] \in {"Parse", "ApiIdle"}
      /\ \A u \in Threads \ {t} : op'[u] = op[u] /\ pkt'[u] = pkt[u]
      /\ slot'[t] \in Slots
  <2>1. CASE t \in Workers /\ OnRecv(t)
    BY <1>1, <2>1 DEF OnRecv, Call, TypeInv, TypeOK, ThreadTypeOK, PlaceOK
  <2>2. CASE t \in ApiThreads /\ ApiCall(t)
    BY <1>1, <2>2 DEF ApiCall, Call, TypeInv, TypeOK, ThreadTypeOK, TableTypeOK, SessionIDs
  <2> QED BY <2>1, <2>2
<1>4. pkt[t] = NoPacket
  BY <1>1, <1>3 DEF PacketOK, CallerOK, Calling
<1>5. \/ pkt'[t] = NoPacket /\ refCount' = refCount
      \/ /\ pkt'[t] \in Packets /\ op'[t] = "send"
         /\ refCount[pkt'[t]] = 0 /\ refCount' = [refCount EXCEPT ![pkt'[t]] = 1]
  <2>1. CASE t \in Workers /\ OnRecv(t)
    BY <1>1, <1>4, <2>1 DEF OnRecv, Call, TypeInv, TypeOK, ThreadTypeOK
  <2>2. CASE t \in ApiThreads /\ ApiCall(t)
    BY <1>1, <1>4, <2>2 DEF ApiCall, Call, TypeInv, TypeOK, ThreadTypeOK
  <2> QED BY <2>1, <2>2
<1>6. \A p \in Packets :
         refCount'[p] = refCount[p] - One(pkt[t] = p) + One(pkt'[t] = p)
  <2>1. refCount \in [Packets -> Int]
    BY <1>1 DEF TypeInv, TypeOK, SendTypeOK
  <2> QED BY <1>4, <1>5, <2>1, PacketAssumption DEF One
<1>7. pkt'[t] # NoPacket => Calling(t)' /\ op'[t] = "send"
  BY <1>3, <1>5 DEF Calling
<1> QED BY <1>2, <1>3, <1>6, <1>7, PacketHolder DEF EmptyPcs

(* the caller of SendPacket frees its reference *)
LEMMA PacketFreePkt ==
    ASSUME SessionInv, TypeInv', PacketOK, NEW t \in Workers \cup ApiThreads, FreePkt(t)
    PROVE  PacketOK'
<1>1. TypeInv /\ t \in Threads /\ pc[t] = "FreePkt"
  BY InvParts, ThreadKinds DEF FreePkt
<1>2. Quiet(t)
  BY QuietCall DEF CallStep
<1>3. /\ slot[t] \in Slots /\ pkt[t] \in Packets
      /\ ret[t] \in {"Parse", "RpLoad", "Kick", "ApiIdle"}
  BY <1>1, ThreadKinds DEF TypeInv, PlaceOK, CallOK
<1>4. /\ UNCHANGED sendVars /\ pkt'[t] = NoPacket
      /\ \A u \in Threads \ {t} : op'[u] = op[u] /\ pkt'[u] = pkt[u]
      /\ refCount' = [refCount EXCEPT ![pkt[t]] = @ - 1]
  BY <1>1 DEF FreePkt, Call, EndCall, TypeInv, TypeOK, ThreadTypeOK
<1>5. pc'[t] \notin EmptyPcs
  BY <1>1, <1>3 DEF FreePkt, Call, EndCall, TypeInv, TypeOK, ThreadTypeOK, EmptyPcs
<1>6. \A p \in Packets :
         refCount'[p] = refCount[p] - One(pkt[t] = p) + One(pkt'[t] = p)
  <2>1. refCount \in [Packets -> Int]
    BY <1>1 DEF TypeInv, TypeOK, SendTypeOK
  <2> QED BY <1>3, <1>4, <2>1, PacketAssumption DEF One
<1> QED BY <1>2, <1>3, <1>4, <1>5, <1>6, PacketHolder

(* SendPacket shares the packet with the queue *)
LEMMA PacketSqEnqueue ==
    ASSUME SessionInv, TypeInv', PacketOK, NEW t \in Workers \cup ApiThreads, SqEnqueue(t)
    PROVE  PacketOK'
<1>1. TypeInv /\ t \in Threads /\ pc[t] = "SqEnqueue" /\ Workers \subseteq Threads
  BY InvParts, ThreadKinds DEF SqEnqueue
<1>2. Quiet(t)
  BY QuietCall DEF CallStep
<1>3. slot[t] \in Slots /\ pkt[t] \in Packets /\ op[t] = "send"
  BY <1>1 DEF TypeInv, PlaceOK, CallOK
<1>s. PICK s \in Slots : s = slot[t]
  BY <1>3
<1>4. /\ UNCHANGED <<sendFlag, sendArr, pkt, op, slot>>
      /\ refCount' = [refCount EXCEPT ![pkt[t]] = @ + 1]
      /\ sendQ' = [sendQ EXCEPT ![s] = Append(@, pkt[t])]
      /\ pc' = [pc EXCEPT ![t] = "SqPost"]
  BY <1>s DEF SqEnqueue
<1>5. /\ sendQ[s] \in Seq(Packets) /\ sendArr[s] \in Seq(Packets)
      /\ sendQ'[s] = Append(sendQ[s], pkt[t])
      /\ \A u \in Slots \ {s} : sendQ'[u] = sendQ[u]
      /\ pc'[t] = "SqPost"
      /\ refCount \in [Packets -> Int]
  BY <1>1, <1>4 DEF TypeInv, TypeOK, SendTypeOK, ThreadTypeOK
<1>6. CallerOK'
  BY <1>1, <1>2, <1>3, <1>4, <1>5, CallerStep DEF PacketOK, Quiet, Calling
<1>7. ArrayOK'
  <2>1. \A u \in Slots : (Preparing(u)' <=> Preparing(u)) /\ (Held(u)' <=> Held(u))
    BY ThreadKinds, <1>2 DEF Quiet, OnlyThread, Preparing, Held
  <2>2. UNCHANGED <<sessionID, releaseFlag>>
    BY <1>2 DEF Quiet
  <2>3. ASSUME NEW u \in Slots, NEW w \in Senders(u)', pc'[w] \in EmptyPcs
        PROVE  w \in Senders(u) /\ pc'[w] = pc[w]
    BY <1>1, <1>2, <1>5, <2>3 DEF Senders, Quiet, OnlyThread, EmptyPcs
  <2> QED BY <1>4, <2>1, <2>2, <2>3 DEF PacketOK, ArrayOK, EmptyPcs
<1>8. PacketRefsExact'
  <2>1. \A u \in Slots : Armed(u)' <=> Armed(u)
    BY <1>1, <1>2, QuietArmed
  <2>2. ASSUME NEW p \in Packets
        PROVE  refCount'[p] = refCount[p]
                 - Cardinality(Holders(p)) - Occurrences(p, sendQ[s]) - Owned(p, s)
                 + Cardinality(Holders(p)') + Occurrences(p, sendQ'[s]) + Owned(p, s)'
    <3>1. Holders(p)' = Holders(p) /\ Cardinality(Holders(p)) \in Nat
      <4>1. Holders(p)' = Holders(p)
        BY <1>4 DEF Holders
      <4> QED BY <1>1, <1>4, <4>1, HoldersStep
    <3>2. Occurrences(p, sendQ'[s]) = Occurrences(p, sendQ[s]) + One(p = pkt[t])
      BY <1>3, <1>5, OccurrencesAppend
    <3>3. Occurrences(p, sendQ[s]) \in Nat /\ Occurrences(p, sendArr[s]) \in Nat
      BY <1>5, PositionsFinite
    <3>4. Owned(p, s)' = Owned(p, s) /\ Owned(p, s) \in Nat
      BY <1>4, <2>1, <3>3 DEF Owned
    <3>5. One(p = pkt[t]) \in Int /\ refCount'[p] = refCount[p] + One(p = pkt[t])
          /\ refCount[p] \in Int
      BY <1>3, <1>4, <1>5 DEF One
    <3> QED BY ONLY <3>1, <3>2, <3>3, <3>4, <3>5
  <2>3. PacketRefsExact
    BY DEF PacketOK
  <2> QED BY <1>1, <1>4, <1>5, <2>1, <2>2, <2>3, RefsStep
<1> QED BY <1>6, <1>7, <1>8 DEF PacketOK

-----------------------------------------------------------------------------
(* ReleaseSession.  Callers and arrays are left alone. *)
LEMMA ReleaseFrame ==
    ASSUME SessionInv, PacketOK, NEW t \in Workers \cup {Acceptor}, OnlyThread(t),
           UNCHANGED <<sessionID, sendFlag, sendArr, op, pkt>>,
           pc[t] \in RelStepPcs, pc'[t] \in RelStepPcs \cup {"Gqcs", "AcAccept"},
           \A s \in Slots : releaseFlag'[s] = 0 => releaseFlag[s] = 0
    PROVE  CallerOK' /\ ArrayOK'
<1>1. TypeInv /\ t \in Threads /\ Acceptor \in Threads /\ Workers \subseteq Threads
  BY InvParts, ThreadKinds
<1>2. CallerOK'
  BY <1>1, CallerStep DEF PacketOK, CallerOK, Calling, RelStepPcs
<1>3. \A s \in Slots : Preparing(s)' <=> Preparing(s)
  BY <1>1 DEF Preparing, OnlyThread, RelStepPcs
<1>4. \A s \in Slots : Held(s)' => Held(s)
  BY <1>3 DEF Held
<1>5. ASSUME NEW s \in Slots, NEW w \in Senders(s)'
      PROVE  w \in Senders(s) /\ pc'[w] = pc[w]
  BY <1>1, <1>5 DEF Senders, OnlyThread, RelStepPcs
<1>6. ArrayOK'
  BY <1>3, <1>4, <1>5 DEF PacketOK, ArrayOK
<1> QED BY <1>2, <1>6

LEMMA PacketRelCas ==
    ASSUME SessionInv, PacketOK, NEW t \in Workers \cup {Acceptor}, RelCas(t)
    PROVE  PacketOK'
<1>1. /\ TypeInv /\ SlotInv /\ t \in Threads /\ pc[t] = "RelCas" /\ slot[t] \in Slots
      /\ Idle(t) \in {"Gqcs", "AcAccept"}
  BY InvParts, ThreadKinds, IdleKinds DEF RelCas, TypeInv, PlaceOK
<1>s. PICK s \in Slots : s = slot[t]
  BY <1>1
<1>2. /\ OnlyThread(t) /\ pc'[t] \in {"RelDrain", "Gqcs", "AcAccept"}
      /\ \A u \in Slots : releaseFlag'[u] = 0 => releaseFlag[u] = 0
      /\ \A u \in Slots \ {s} : releaseFlag'[u] = releaseFlag[u]
      /\ UNCHANGED <<sessionID, sendVars, op, pkt, refCount>>
  BY <1>1, <1>s
     DEF RelCas, Finish, OnlyThread, TypeInv, TypeOK, ThreadTypeOK, SessionTypeOK
<1>3. CallerOK' /\ ArrayOK'
  BY <1>1, <1>2, ReleaseFrame DEF RelStepPcs
<1>4. \A u \in Slots : Armed(u)' <=> Armed(u)
  <2>1. ASSUME NEW u \in Slots \ {s} PROVE Armed(u)' <=> Armed(u)
    <3>1. slot'[t] # u
      BY <1>1, <1>s, SlotAssumption, <2>1
         DEF RelCas, Finish, TypeInv, TypeOK, ThreadTypeOK
    <3> QED BY <1>1, <1>2, <1>s, <2>1, <3>1 DEF Armed, Releasing, OnlyThread
  <2>2. CASE MayRelease(s)
    <3>1. releaseFlag[s] = 0 /\ pc'[t] = "RelDrain" /\ slot'[t] = s
      BY <1>1, <1>s, <2>2 DEF RelCas, MayRelease, TypeInv, TypeOK, ThreadTypeOK
    <3>2. Armed(s) /\ Armed(s)'
      BY <1>1, <3>1 DEF Armed, Releasing
    <3> QED BY <2>1, <3>2
  <2>3. CASE ~MayRelease(s)
    <3>1. releaseFlag' = releaseFlag /\ pc'[t] \in {"Gqcs", "AcAccept"}
      BY <1>1, <1>s, <2>3 DEF RelCas, Finish, TypeInv, TypeOK, ThreadTypeOK
    <3>2. Armed(s)' <=> Armed(s)
      BY <1>1, <1>2, <3>1 DEF Armed, Releasing, OnlyThread
    <3> QED BY <2>1, <3>2
  <2> QED BY <2>2, <2>3
<1>5. PacketRefsExact'
  BY <1>2, <1>4, RefsFrame DEF PacketOK
<1> QED BY <1>3, <1>5 DEF PacketOK

(* the packets of the queue and of sendPacketArr are freed *)
LEMMA PacketRelDrain ==
    ASSUME SessionInv, TypeInv', PacketOK, NEW t \in Workers \cup {Acceptor}, RelDrain(t)
    PROVE  PacketOK'
<1>1. /\ TypeInv /\ SlotInv /\ t \in Threads /\ pc[t] = "RelDrain" /\ slot[t] \in Slots
  BY InvParts, ThreadKinds DEF RelDrain, TypeInv, PlaceOK
<1>s. PICK s \in Slots : s = slot[t]
  BY <1>1
<1>2. /\ OnlyThread(t) /\ pc'[t] = "RelLeave" /\ slot' = slot
      /\ UNCHANGED <<sessionID, releaseFlag, sendFlag, sendArr, op, pkt>>
      /\ refCount' = FreeAll(sendQ[s] \o sendArr[s])
      /\ sendQ' = [sendQ EXCEPT ![s] = << >>]
  BY <1>1, <1>s DEF RelDrain, OnlyThread, TypeInv, TypeOK, ThreadTypeOK
<1>3. CallerOK' /\ ArrayOK'
  BY <1>1, <1>2, ReleaseFrame DEF RelStepPcs
<1>4. t \in Releasing(s) /\ releaseFlag[s] = 1 /\ \A u \in Releasing(s) : u = t
  <2>1. t \in Releasing(s)
    BY <1>1, <1>s DEF Releasing
  <2> QED BY <1>1, <2>1 DEF SlotInv, OwnerOK
<1>5. Armed(s) /\ ~Armed(s)'
  BY <1>1, <1>2, <1>4 DEF Armed, Releasing, OnlyThread
<1>6. \A u \in Slots \ {s} : Armed(u)' <=> Armed(u)
  BY <1>1, <1>s, <1>2 DEF Armed, Releasing, OnlyThread
<1>7. /\ sendQ[s] \in Seq(Packets) /\ sendArr[s] \in Seq(Packets)
      /\ sendQ'[s] = << >> /\ \A u \in Slots \ {s} : sendQ'[u] = sendQ[u]
      /\ \A p \in Packets : /\ refCount'[p] = refCount[p]
                                              - Occurrences(p, sendQ[s] \o sendArr[s])
                            /\ refCount[p] \in Int
  BY <1>1, <1>2 DEF FreeAll, TypeInv, TypeOK, SendTypeOK
<1>8. PacketRefsExact'
  <2>1. ASSUME NEW p \in Packets
        PROVE  refCount'[p] = refCount[p]
                 - Cardinality(Holders(p)) - Occurrences(p, sendQ[s]) - Owned(p, s)
                 + Cardinality(Holders(p)') + Occurrences(p, sendQ'[s]) + Owned(p, s)'
    <3>1. Holders(p)' = Holders(p) /\ Cardinality(Holders(p)) \in Nat
      <4>1. Holders(p)' = Holders(p)
        BY <1>2 DEF Holders
      <4> QED BY <1>1, <1>2, <4>1, HoldersStep
    <3>2. Occurrences(p, sendQ[s] \o sendArr[s]) =
             Occurrences(p, sendQ[s]) + Occurrences(p, sendArr[s])
      BY <1>7, OccurrencesConcat
    <3>3. Occurrences(p, sendQ[s]) \in Nat /\ Occurrences(p, sendArr[s]) \in Nat
      BY <1>7, PositionsFinite
    <3>4. Owned(p, s)' = 0 /\ Owned(p, s) = Occurrences(p, sendArr[s])
          /\ Occurrences(p, sendQ'[s]) = 0
      BY <1>5, <1>7, OccurrencesEmpty DEF Owned
    <3>5. /\ refCount'[p] = refCount[p] - Occurrences(p, sendQ[s] \o sendArr[s])
          /\ refCount[p] \in Int
      BY <1>7
    <3> QED BY ONLY <3>1, <3>2, <3>3, <3>4, <3>5
  <2>2. PacketRefsExact
    BY DEF PacketOK
  <2> QED BY <1>1, <1>2, <1>6, <1>7, <2>1, <2>2, RefsStep
<1> QED BY <1>3, <1>8 DEF PacketOK

LEMMA PacketRelRest ==
    ASSUME SessionInv, PacketOK, NEW t \in Workers \cup {Acceptor},
           RelLeave(t) \/ RelPush(t) \/ RelCount(t)
    PROVE  PacketOK'
<1>1. TypeInv /\ t \in Threads /\ Idle(t) \in {"Gqcs", "AcAccept"}
  BY InvParts, ThreadKinds, IdleKinds
<1>2. /\ OnlyThread(t) /\ pc[t] \in {"RelLeave", "RelPush", "RelCount"}
      /\ pc'[t] \in {"RelPush", "RelCount", "Gqcs", "AcAccept"}
      /\ UNCHANGED <<sessionID, releaseFlag, sendVars, op, pkt, refCount>>
  BY <1>1 DEF RelLeave, RelPush, RelCount, OnlyThread, TypeInv, TypeOK, ThreadTypeOK
<1>3. CallerOK' /\ ArrayOK'
  BY <1>2, ReleaseFrame DEF RelStepPcs
<1>4. \A s \in Slots : Armed(s)' <=> Armed(s)
  BY <1>1, <1>2 DEF Armed, Releasing, OnlyThread
<1> QED BY <1>2, <1>3, <1>4, RefsFrame DEF PacketOK

-----------------------------------------------------------------------------
(* AcceptThread.  A slot that it takes up has an empty array or is not armed. *)
LEMMA AcceptPackets ==
    ASSUME SessionInv, PacketOK, OnlyThread(Acceptor),
           pc[Acceptor] \in AcceptPcs, pc'[Acceptor] \in AcceptPcs \cup {"RelCas"},
           UNCHANGED <<sendVars, refCount, pkt, op, releaseFlag>>,
           \A s \in Slots : sessionID'[s].cnt = 0 \/ (Preparing(s)' /\ releaseFlag[s] = 0)
              => sessionID[s].cnt = 0 \/ (Preparing(s) /\ releaseFlag[s] = 0),
           \A s \in Slots : Held(s)' => Held(s)
    PROVE  PacketOK'
<1>1. Acceptor \in Threads /\ Acceptor \notin Workers /\ Workers \subseteq Threads
  BY ThreadKinds
<1>2. CallerOK'
  BY <1>1, CallerStep DEF PacketOK, CallerOK, Calling
<1>3. ASSUME NEW s \in Slots, NEW w \in Senders(s)'
      PROVE  w \in Senders(s) /\ pc'[w] = pc[w]
  BY <1>1, <1>3 DEF Senders, OnlyThread
<1>4. ArrayOK'
  BY <1>3 DEF PacketOK, ArrayOK
<1>5. \A s \in Slots : Armed(s)' <=> Armed(s)
  BY <1>1 DEF Armed, Releasing, OnlyThread
<1> QED BY <1>2, <1>4, <1>5, RefsFrame DEF PacketOK

LEMMA PacketAccept ==
    ASSUME SessionInv, PacketOK,
           \/ AcAccept \/ AcEnd \/ (\E s \in Slots : AcPop(s)) \/ AcInc \/ AcId
           \/ AcJoin \/ AcRecv \/ AcPending
    PROVE  PacketOK'
<1>1. TypeInv /\ SlotInv /\ Acceptor \in Threads
  BY InvParts, ThreadKinds
<1>2. /\ OnlyThread(Acceptor)
      /\ pc[Acceptor] \in AcceptPcs /\ pc'[Acceptor] \in AcceptPcs \cup {"RelCas"}
  BY <1>1, IdleKinds
     DEF OnlyThread, AcAccept, AcEnd, AcPop, AcInc, AcId, AcJoin, AcRecv, AcPending, Finish,
         TypeInv, TypeOK, ThreadTypeOK
<1>3. UNCHANGED <<sendVars, refCount, pkt, op, releaseFlag>>
  BY DEF AcAccept, AcEnd, AcPop, AcInc, AcId, AcJoin, AcRecv, AcPending
<1>4. CASE AcAccept \/ AcEnd \/ AcInc \/ AcJoin \/ AcRecv \/ AcPending
  <2>1. /\ \A s \in Slots : Preparing(s)' <=> Preparing(s)
        /\ UNCHANGED sessionID
    BY <1>1, <1>4, IdleKinds
       DEF Preparing, AcAccept, AcEnd, AcInc, AcJoin, AcRecv, AcPending, Finish,
           TypeInv, TypeOK, ThreadTypeOK
  <2>2. \A s \in Slots : Held(s)' => Held(s)
    BY <1>3, <2>1 DEF Held
  <2> QED BY <1>2, <1>3, <2>1, <2>2, AcceptPackets
<1>5. CASE \E s \in Slots : AcPop(s)
  <2>1. PICK s \in Slots : AcPop(s)
    BY <1>5
  <2>2. /\ UNCHANGED sessionID
        /\ \A u \in Slots : (Preparing(u)' <=> u = s) /\ ~Preparing(u)
    BY <1>1, <2>1 DEF AcPop, Preparing, TypeInv, TypeOK, ThreadTypeOK
  <2>3. \A u \in Slots : Held(u)' => Held(u)
    BY <1>3, <2>2 DEF Held
  <2>4. releaseFlag[s] = 1 \/ sessionID[s].cnt = 0
    BY <1>1, <2>1 DEF AcPop, SlotInv, OwnerOK
  <2>5. \A u \in Slots : sessionID'[u].cnt = 0 \/ (Preparing(u)' /\ releaseFlag[u] = 0)
              => sessionID[u].cnt = 0 \/ (Preparing(u) /\ releaseFlag[u] = 0)
    BY <2>2, <2>4
  <2> QED BY <1>2, <1>3, <2>3, <2>5, AcceptPackets
<1>6. CASE AcId
  <2>1. PICK s \in Slots : s = slot[Acceptor]
    BY <1>1, <1>6 DEF AcId, TypeInv, PlaceOK
  <2>2. /\ \A u \in Slots : (Preparing(u)' <=> u = s) /\ (Preparing(u) <=> u = s)
        /\ \A u \in Slots \ {s} : sessionID'[u] = sessionID[u]
        /\ sessionID'[s].cnt = sessionCnt /\ sessionCnt > 0
    BY <1>1, <1>6, <2>1
       DEF AcId, Preparing, TypeInv, TypeOK, ThreadTypeOK, SessionTypeOK, SlotInv, IdentityOK
  <2>3. \A u \in Slots : Held(u)' => Held(u)
    BY <1>3, <2>2 DEF Held
  <2>4. sessionCnt \in Nat
    BY <1>1, BoundAssumption DEF TypeInv, TypeOK, TableTypeOK
  <2>5. \A u \in Slots : sessionID'[u].cnt = 0 \/ (Preparing(u)' /\ releaseFlag[u] = 0)
              => sessionID[u].cnt = 0 \/ (Preparing(u) /\ releaseFlag[u] = 0)
    BY <2>2, <2>4
  <2> QED BY <1>2, <1>3, <2>3, <2>5, AcceptPackets
<1> QED BY <1>4, <1>5, <1>6

(* sendCnt is set to 0 without freeing what it counted *)
LEMMA PacketAcArm ==
    ASSUME SessionInv, TypeInv', PacketOK, AcArm
    PROVE  PacketOK'
<1>1. /\ TypeInv /\ SlotInv /\ Acceptor \in Threads /\ Acceptor \notin Workers
      /\ Workers \subseteq Threads
  BY InvParts, ThreadKinds
<1>2. PICK s \in Slots : s = slot[Acceptor]
  BY <1>1 DEF AcArm, TypeInv, PlaceOK
<1>3. /\ pc[Acceptor] = "AcArm" /\ pc'[Acceptor] \in {"AcJoin", "Stranded"}
      /\ OnlyThread(Acceptor) /\ slot' = slot
      /\ UNCHANGED <<sessionID, sendQ, refCount, pkt, op>>
      /\ sendArr'[s] = << >> /\ releaseFlag'[s] = 0
      /\ \A u \in Slots \ {s} : /\ sendFlag'[u] = sendFlag[u] /\ sendArr'[u] = sendArr[u]
                                /\ releaseFlag'[u] = releaseFlag[u]
  BY <1>1, <1>2
     DEF AcArm, OnlyThread, TypeInv, TypeOK, ThreadTypeOK, SessionTypeOK, SendTypeOK
<1>4. CallerOK'
  BY <1>1, <1>3, CallerStep DEF PacketOK, CallerOK, Calling
<1>5. ArrayOK'
  <2>1. \A u \in Slots \ {s} : (Preparing(u)' <=> Preparing(u)) /\ (Held(u)' <=> Held(u))
    BY <1>2, <1>3 DEF Preparing, Held
  <2>2. ASSUME NEW u \in Slots, NEW w \in Senders(u)'
        PROVE  w \in Senders(u) /\ pc'[w] = pc[w]
    BY <1>1, <1>3, <2>2 DEF Senders, OnlyThread
  <2> QED BY <1>3, <2>1, <2>2 DEF PacketOK, ArrayOK
<1>6. PacketRefsExact'
  <2>1. \A u \in Slots \ {s} : Armed(u)' <=> Armed(u)
    BY <1>1, <1>2, <1>3 DEF Armed, Releasing, OnlyThread
  <2>2. Preparing(s) /\ Releasing(s) = {}
    <3>1. Preparing(s)
      BY <1>2, <1>3 DEF Preparing
    <3> QED BY <1>1, <3>1 DEF SlotInv, OwnerOK
  <2>3. Armed(s) => sendArr[s] = << >>
    BY <2>2 DEF Armed, PacketOK, ArrayOK
  <2>4. ASSUME NEW p \in Packets
        PROVE  refCount'[p] = refCount[p]
                 - Cardinality(Holders(p)) - Occurrences(p, sendQ[s]) - Owned(p, s)
                 + Cardinality(Holders(p)') + Occurrences(p, sendQ'[s]) + Owned(p, s)'
    <3>1. Holders(p)' = Holders(p) /\ Cardinality(Holders(p)) \in Nat
      <4>1. Holders(p)' = Holders(p)
        BY <1>3 DEF Holders
      <4> QED BY <1>1, <1>3, <4>1, HoldersStep
    <3>2. Owned(p, s) = 0 /\ Owned(p, s)' = 0
      BY <1>3, <2>3, OccurrencesEmpty DEF Owned
    <3>3. sendQ[s] \in Seq(Packets) /\ refCount[p] \in Int
      BY <1>1 DEF TypeInv, TypeOK, SendTypeOK
    <3>4. Occurrences(p, sendQ[s]) \in Nat
      BY <3>3, PositionsFinite
    <3>5. refCount'[p] = refCount[p] /\ sendQ'[s] = sendQ[s]
      BY <1>3
    <3> QED BY ONLY <3>1, <3>2, <3>3, <3>4, <3>5
  <2>5. PacketRefsExact
    BY DEF PacketOK
  <2> QED BY <1>1, <1>3, <2>1, <2>4, <2>5, RefsStep
<1> QED BY <1>4, <1>5, <1>6 DEF PacketOK

-----------------------------------------------------------------------------
LEMMA PacketInit == Init => PacketOK
<1> SUFFICES ASSUME Init PROVE PacketOK
  OBVIOUS
<1>1. CallerOK /\ ArrayOK
  BY DEF Init, CallerOK, ArrayOK
<1>2. PacketRefsExact
  <2> SUFFICES ASSUME NEW p \in Packets
               PROVE  refCount[p] = Cardinality(Holders(p))
                         + Cardinality(Places(p, sendQ, Slots))
                         + Cardinality(Places(p, sendArr, ArmedSlots))
    BY DEF PacketRefsExact, Holders, ArmedSlots
  <2>1. Holders(p) = {}
    BY PacketAssumption DEF Holders, Init
  <2>2. Places(p, sendQ, Slots) = {} /\ Places(p, sendArr, ArmedSlots) = {}
    BY DEF Places, Init, ArmedSlots
  <2>3. refCount[p] = 0
    BY DEF Init
  <2>4. /\ Cardinality(Holders(p)) = 0 /\ Cardinality(Places(p, sendQ, Slots)) = 0
        /\ Cardinality(Places(p, sendArr, ArmedSlots)) = 0
    BY <2>1, <2>2, FS_EmptySet, Zenon
  <2> QED BY ONLY <2>3, <2>4
<1> QED BY <1>1, <1>2 DEF PacketOK

LEMMA PacketStep == SessionInv /\ PacketOK /\ [Next]_vars => PacketOK'
<1> SUFFICES ASSUME SessionInv, PacketOK, [Next]_vars PROVE PacketOK'
  OBVIOUS
<1>type. TypeInv'
  BY InvParts, TypeStep
<1>1. ASSUME NEW w \in Workers, Take(w) \/ Dec(w) PROVE PacketOK'
  BY <1>1, PacketTake, QuietTake, QuietDec, PacketFrame
<1>2. ASSUME NEW w \in Workers, SendStep(w) PROVE PacketOK'
  <2>1. Quiet(w)
    BY <1>2, QuietSend
  <2>2. CASE SpSize(w) \/ SpLoad(w) \/ SpCall(w) \/ SpPending(w)
    BY <2>1, <2>2, PacketSendQuiet, PacketFrame
  <2> QED BY <1>type, <1>2, <2>2, PacketSendFree, PacketSpFlag, PacketSpUse DEF SendStep
<1>3. ASSUME NEW w \in Workers, RecvStep(w) PROVE PacketOK'
  <2>1. Quiet(w)
    BY <1>3, QuietRecv
  <2>2. CASE ParseEnd(w) \/ ParseBad(w) \/ RpLoad(w) \/ RpCall(w) \/ RpPending(w)
    BY <2>1, <2>2, PacketRecvQuiet, PacketFrame
  <2> QED BY <1>type, <1>3, <2>2, PacketAlloc DEF RecvStep
<1>4. ASSUME NEW t \in Workers \cup ApiThreads, CallStep(t) PROVE PacketOK'
  <2>1. Quiet(t)
    BY <1>4, QuietCall
  <2>2. CASE ~SqEnqueue(t) /\ ~FreePkt(t)
    <3>1. PacketQuiet(t)
      BY <1>4, <2>2, PacketCallQuiet DEF CallStep
    <3> QED BY <2>1, <3>1, PacketFrame
  <2> QED BY <1>type, <1>4, <2>2, PacketSqEnqueue, PacketFreePkt
<1>5. ASSUME NEW t \in ApiThreads, ApiCall(t) PROVE PacketOK'
  BY <1>type, <1>5, PacketAlloc
<1>6. ASSUME NEW t \in Workers \cup {Acceptor}, ReleaseStep(t) PROVE PacketOK'
  BY <1>type, <1>6, PacketRelCas, PacketRelDrain, PacketRelRest DEF ReleaseStep
<1>7. CASE AcceptStep
  BY <1>type, <1>7, PacketAccept, PacketAcArm DEF AcceptStep
<1>8. CASE Kernel \/ UNCHANGED vars
  <2>1. UNCHANGED <<sessVars, sendVars, refCount, pc, localVars>>
    BY <1>8 DEF Kernel, RecvComplete, SendComplete, vars
  <2>2. CallerOK' /\ ArrayOK'
    BY <2>1 DEF PacketOK, CallerOK, Calling, ArrayOK, Preparing, Held, Senders
  <2>3. \A s \in Slots : Armed(s)' <=> Armed(s)
    BY <2>1 DEF Armed, Releasing
  <2> QED BY <2>1, <2>2, <2>3, RefsFrame DEF PacketOK
<1> QED BY <1>1, <1>2, <1>3, <1>4, <1>5, <1>6, <1>7, <1>8 DEF Next

(* ServerInv is an invariant: the session table, what the contents know and   *)
(* the owners of packets, for every number of threads, slots and packets.     *)
THEOREM ServerInvariant == Spec => []ServerInv
<1>1. Init => PacketOK /\ NumberOK
  <2>1. Init => NumberOK
    BY SlotAssumption, ThreadKinds DEF Init, NumberOK, Numbered
  <2> QED BY <2>1, PacketInit
<1>2. SessionInv /\ PacketOK /\ NumberOK /\ [Next]_vars => (PacketOK /\ NumberOK)'
  BY PacketStep, NumberStep
<1>3. SessionInv /\ ContentsOK /\ PacketOK /\ NumberOK => ServerInv
  BY DEF ServerInv
<1> QED BY <1>1, <1>2, <1>3, ContentsInvariant, PTL DEF Spec

(* A packet goes back to the pool when, and only when, its last owner frees   *)
(* it: _refCount is the number of callers of SendPacket, queue entries and    *)
(* array entries that own the packet, in every interleaving of sends,         *)
(* completions, failures and the release of the session.                      *)
THEOREM PacketsExact == Spec => []PacketRefsExact
<1>1. ServerInv => PacketRefsExact
  BY DEF ServerInv, PacketOK
<1> QED BY <1>1, ServerInvariant, PTL
=============================================================================
