--------------------------- MODULE RingBufferOps ----------------------------
(***************************************************************************)
(* A CRingBuffer object and every operation on it that changes it, one     *)
(* action per method.  The owner calls them one after the other.           *)
(***************************************************************************)
EXTENDS CRingBuffer

CONSTANTS Bytes,    \* the values of a byte
          MaxSize   \* bound: the largest size argument

ASSUME MaxSizeAssumption == MaxSize \in Nat

VARIABLES buffer, iFront, iRear,
          out       \* the last call's return value and bytes copied out

vars == <<buffer, iFront, iRear, out>>

Init ==
    /\ buffer \in [Indexes -> Bytes]      \* new char[] leaves it unset
    /\ iFront = 0
    /\ iRear = 0
    /\ out = [ret |-> 0, data |-> << >>]

Enqueue(data) ==
    /\ buffer' = EnqBuffer(buffer, iFront, iRear, data)
    /\ iRear' = EnqRear(iFront, iRear, Len(data))
    /\ out' = [ret |-> EnqSize(iFront, iRear, Len(data)), data |-> << >>]
    /\ UNCHANGED iFront

Dequeue(n) ==
    /\ iFront' = DeqFront(iFront, iRear, n)
    /\ out' = [ret  |-> DeqSize(iFront, iRear, n),
               data |-> DeqData(buffer, iFront, iRear, n)]
    /\ UNCHANGED <<buffer, iRear>>

Peek(n) ==
    /\ out' = [ret  |-> DeqSize(iFront, iRear, n),
               data |-> DeqData(buffer, iFront, iRear, n)]
    /\ UNCHANGED <<buffer, iFront, iRear>>

MoveFront(n) ==
    /\ iFront' = DeqFront(iFront, iRear, n)
    /\ out' = [ret |-> DeqSize(iFront, iRear, n), data |-> << >>]
    /\ UNCHANGED <<buffer, iRear>>

(* The caller has written into the free part of the array itself, as a      *)
(* WSARecv does, and reports n bytes.                                       *)
UsedIndexes == {(iFront + i) % iTotalSize : i \in 1 .. GetUseSize(iFront, iRear)}

MoveRear(n) ==
    /\ buffer' \in {b \in [Indexes -> Bytes] :
                      \A i \in UsedIndexes : b[i] = buffer[i]}
    /\ iRear' = EnqRear(iFront, iRear, n)
    /\ out' = [ret |-> EnqSize(iFront, iRear, n), data |-> << >>]
    /\ UNCHANGED iFront

ClearBuffer ==
    /\ iFront' = 0
    /\ iRear' = 0
    /\ out' = [ret |-> 0, data |-> << >>]
    /\ UNCHANGED buffer

Next == \/ \E n \in 1 .. MaxSize :
              \/ \E data \in [1 .. n -> Bytes] : Enqueue(data)
              \/ MoveRear(n) \/ Dequeue(n) \/ Peek(n) \/ MoveFront(n)
        \/ ClearBuffer

Spec == Init /\ [][Next]_vars

-----------------------------------------------------------------------------
(* the bytes between iFront and iRear, in order *)
Content == [i \in 1 .. GetUseSize(iFront, iRear) |->
              buffer[(iFront + i) % iTotalSize]]

Queue == INSTANCE ByteQueue WITH
    content <- Content, Capacity <- GetBufferSize

(* The two-piece copies around the end of the array implement a FIFO queue:  *)
(* no sequence of Enqueue, Dequeue, Peek, MoveRear, MoveFront and            *)
(* ClearBuffer loses, repeats or reorders a byte, and every return value is  *)
(* the number of bytes that fit.                                             *)
ImplementsByteQueue == Queue!Spec

(* iFront and iRear stay inside the array. *)
IndexOK == iFront \in Indexes /\ iRear \in Indexes

(* The sizes the object reports always add up to its capacity, and the       *)
(* direct pieces never exceed them.                                          *)
SizesOK ==
    /\ GetUseSize(iFront, iRear) + GetFreeSize(iFront, iRear) = GetBufferSize
    /\ DirectEnqueueSize(iFront, iRear) \in 0 .. GetFreeSize(iFront, iRear)
    /\ DirectDequeueSize(iFront, iRear) \in 0 .. GetUseSize(iFront, iRear)
    /\ GetFreeSize(iFront, iRear) > 0 => DirectEnqueueSize(iFront, iRear) > 0
=============================================================================
