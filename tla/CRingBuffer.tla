---------------------------- MODULE CRingBuffer -----------------------------
(***************************************************************************)
(* CRingBuffer (CRingBuffer.cpp), the receive buffer of a session.  The    *)
(* array has one byte more than the buffer holds.  iFront is the index     *)
(* before the first byte and iRear the index of the last byte, so the      *)
(* buffer is empty when they are equal and full when iRear is just behind  *)
(* iFront.                                                                 *)
(*                                                                         *)
(* The operators take iFront and iRear as f and r.  Every copying          *)
(* operation works in up to two pieces, one on each side of the array's    *)
(* end: ...First and ...Second are their lengths.  Sizes are at least 1:   *)
(* the server never asks for 0 bytes.  Resize, which has no caller, is     *)
(* left out.                                                               *)
(***************************************************************************)
EXTENDS Integers, Sequences

CONSTANT iTotalSize

ASSUME SizeAssumption == iTotalSize \in Nat /\ iTotalSize > 1

Indexes == 0 .. iTotalSize - 1

Lesser(a, b) == IF a > b THEN b ELSE a

GetBufferSize == iTotalSize - 1

GetFrontBufferPtr(f) == (f + 1) % iTotalSize

GetRearBufferPtr(r) == (r + 1) % iTotalSize

GetUseSize(f, r) ==
    IF f = r THEN 0
    ELSE IF f < r THEN r - f
    ELSE iTotalSize - f + r

GetFreeSize(f, r) ==
    IF f = r THEN iTotalSize - 1
    ELSE IF f > r THEN f - r - 1
    ELSE iTotalSize - 1 - r + f

(* the length of the free piece that starts at index b *)
FreePieceWhenFull(f, b) == IF f <= b THEN iTotalSize - b ELSE f - b   \* faulty variant
FreePieceSkipsLast(f, b) == IF f < b THEN iTotalSize - b - 1 ELSE f - b   \* faulty variant
FreePiece(f, b) == IF f < b THEN iTotalSize - b ELSE f - b

DirectEnqueueSize(f, r) == FreePiece(f, GetRearBufferPtr(r))

(* the length of the used piece that starts at index b *)
UsedPieceShort(b, r) == IF b > r THEN iTotalSize - b ELSE r - b   \* faulty variant
UsedPiece(b, r) == IF b > r THEN iTotalSize - b ELSE r - b + 1

DirectDequeueSize(f, r) ==
    IF f = r THEN 0 ELSE UsedPiece(GetFrontBufferPtr(f), r)

-----------------------------------------------------------------------------
(* The pieces of Enqueue and MoveRear for n bytes, and iRear afterwards *)

EnqFirst(f, r, n) == Lesser(n, DirectEnqueueSize(f, r))

EnqWrap(f, r) == (GetRearBufferPtr(r) + DirectEnqueueSize(f, r)) % iTotalSize

EnqSecondNone(f, r, n) == 0   \* faulty variant
EnqSecond(f, r, n) ==
    IF \/ GetRearBufferPtr(r) = f
       \/ n <= DirectEnqueueSize(f, r)
       \/ EnqWrap(f, r) = f
    THEN 0
    ELSE Lesser(n - DirectEnqueueSize(f, r), FreePiece(f, EnqWrap(f, r)))

EnqSize(f, r, n) == EnqFirst(f, r, n) + EnqSecond(f, r, n)

EnqRearNext(f, r, n) == GetRearBufferPtr(r) + EnqSize(f, r, n)   \* faulty variant
EnqRear(f, r, n) ==
    IF GetRearBufferPtr(r) = f THEN r
    ELSE IF EnqSecond(f, r, n) > 0
         THEN EnqWrap(f, r) + EnqSecond(f, r, n) - 1
         ELSE GetRearBufferPtr(r) + EnqFirst(f, r, n) - 1

(* the pieces of Dequeue, Peek and MoveFront, and iFront afterwards *)

DeqFirst(f, r, n) == Lesser(n, DirectDequeueSize(f, r))

DeqWrap(f, r) == (GetFrontBufferPtr(f) + DirectDequeueSize(f, r)) % iTotalSize

DeqSecond(f, r, n) ==
    IF \/ f = r
       \/ n <= DirectDequeueSize(f, r)
       \/ GetFrontBufferPtr(f) + DirectDequeueSize(f, r) - 1 = r
    THEN 0
    ELSE Lesser(n - DirectDequeueSize(f, r), UsedPiece(DeqWrap(f, r), r))

DeqSize(f, r, n) == DeqFirst(f, r, n) + DeqSecond(f, r, n)

DeqFront(f, r, n) ==
    IF f = r THEN f
    ELSE IF DeqSecond(f, r, n) > 0
         THEN DeqWrap(f, r) + DeqSecond(f, r, n) - 1
         ELSE GetFrontBufferPtr(f) + DeqFirst(f, r, n) - 1

-----------------------------------------------------------------------------
(* memcpy_s of data to, and of n bytes from, index b of the array *)

Store(buf, b, data) ==
    [i \in Indexes |-> IF i \in b .. b + Len(data) - 1 THEN data[i - b + 1]
                       ELSE buf[i]]

Load(buf, b, n) == [i \in 1 .. n |-> buf[b + i - 1]]

(* data in two pieces, the first of length k at index b, the rest at index w *)
StorePieces(buf, b, k, w, data) ==
    Store(Store(buf, b, SubSeq(data, 1, k)), w, SubSeq(data, k + 1, Len(data)))

(* the bytes that Dequeue and Peek copy out *)
DeqData(buf, f, r, n) ==
    Load(buf, GetFrontBufferPtr(f), DeqFirst(f, r, n))
        \o Load(buf, DeqWrap(f, r), DeqSecond(f, r, n))

(* the array after Enqueue *)
EnqBuffer(buf, f, r, data) ==
    StorePieces(buf, GetRearBufferPtr(r), EnqFirst(f, r, Len(data)), EnqWrap(f, r),
                SubSeq(data, 1, EnqSize(f, r, Len(data))))
=============================================================================
