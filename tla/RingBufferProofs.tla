-------------------------- MODULE RingBufferProofs --------------------------
(***************************************************************************)
(* For every array size: the indexes of a CRingBuffer stay inside the      *)
(* array, the sizes it reports agree with each other, and it is a bounded  *)
(* FIFO queue of bytes.                                                    *)
(*                                                                         *)
(* The lemmas bound the index that each operation computes; SizesOK then   *)
(* follows from IndexOK alone.  For the refinement the content of the      *)
(* queue is the bytes behind iFront, in order: what an operation puts is   *)
(* behind them (HasBehind), and what it takes are the first of them.       *)
(***************************************************************************)
EXTENDS RingBufferOps, ContainerLemmas

-----------------------------------------------------------------------------
(* Every operation of CRingBuffer keeps iFront and iRear inside the array,   *)
(* for every array size, every size argument and every sequence of calls.    *)
THEOREM IndexesInside == Spec => []IndexOK
<1>1. Init => IndexOK
  BY SizeAssumption DEF Init, IndexOK, Indexes
<1>2. IndexOK /\ [Next]_vars => IndexOK'
  <2> SUFFICES ASSUME IndexOK, [Next]_vars
               PROVE  IndexOK'
    OBVIOUS
  <2>1. ASSUME NEW n \in 1 .. MaxSize, NEW data \in [1 .. n -> Bytes], Enqueue(data)
        PROVE  IndexOK'
    <3>1. Len(data) = n /\ n \in Nat \ {0}
      BY <2>1, MaxSizeAssumption
    <3> QED
      BY <2>1, <3>1, EnqRearIndex DEF IndexOK, Enqueue
  <2>2. ASSUME NEW n \in 1 .. MaxSize, MoveRear(n)
        PROVE  IndexOK'
    BY <2>2, EnqRearIndex, MaxSizeAssumption DEF IndexOK, MoveRear
  <2>3. ASSUME NEW n \in 1 .. MaxSize, Dequeue(n) \/ MoveFront(n)
        PROVE  IndexOK'
    BY <2>3, DeqFrontIndex, MaxSizeAssumption DEF IndexOK, Dequeue, MoveFront
  <2>4. ASSUME NEW n \in 1 .. MaxSize, Peek(n)
        PROVE  IndexOK'
    BY <2>4 DEF IndexOK, Peek
  <2>5. CASE ClearBuffer
    BY <2>5, SizeAssumption DEF IndexOK, ClearBuffer, Indexes
  <2>6. CASE UNCHANGED vars
    BY <2>6 DEF IndexOK, vars
  <2> QED
    BY <2>1, <2>2, <2>3, <2>4, <2>5, <2>6 DEF Next
<1> QED
  BY <1>1, <1>2, PTL DEF Spec

(* The sizes agree for all indexes inside the array. *)
LEMMA SizesAgree == IndexOK => SizesOK
<1> SUFFICES ASSUME IndexOK
             PROVE  SizesOK
  OBVIOUS
<1>1. iFront \in Indexes /\ iRear \in Indexes
  BY DEF IndexOK
<1>2. GetUseSize(iFront, iRear) + GetFreeSize(iFront, iRear) = GetBufferSize
  BY <1>1, SizeAssumption DEF GetUseSize, GetFreeSize, GetBufferSize, Indexes
<1>3. /\ DirectEnqueueSize(iFront, iRear) \in 0 .. GetFreeSize(iFront, iRear)
      /\ GetFreeSize(iFront, iRear) > 0 => DirectEnqueueSize(iFront, iRear) > 0
  BY <1>1, NextIndex, SizeAssumption
     DEF DirectEnqueueSize, GetRearBufferPtr, FreePiece, GetFreeSize, Indexes
<1>4. DirectDequeueSize(iFront, iRear) \in 0 .. GetUseSize(iFront, iRear)
  BY <1>1, NextIndex, SizeAssumption
     DEF DirectDequeueSize, GetFrontBufferPtr, UsedPiece, GetUseSize, Indexes
<1> QED
  BY <1>2, <1>3, <1>4 DEF SizesOK

(* GetUseSize, GetFreeSize, DirectEnqueueSize and DirectDequeueSize agree in *)
(* every reachable state: a free byte is always reachable by a direct write. *)
THEOREM SizesCorrect == Spec => []SizesOK
  BY IndexesInside, SizesAgree, PTL

-----------------------------------------------------------------------------
(* A byte queue's operations on its contents, index by index. *)
LEMMA SeqEqual ==
    ASSUME NEW B, NEW g \in Seq(B), NEW h \in Seq(B), Len(g) = Len(h),
           \A i \in 1 .. Len(g) : g[i] = h[i]
    PROVE  g = h
  OBVIOUS

LEMMA EnqueueAppends ==
    ASSUME NEW B, NEW c \in Seq(B), NEW s \in Seq(B), NEW g \in Seq(B),
           Len(g) = Len(c) + Len(s),
           \A i \in 1 .. Len(c) : g[i] = c[i],
           \A i \in Len(c) + 1 .. Len(c) + Len(s) : g[i] = s[i - Len(c)]
    PROVE  g = c \o s
<1> DEFINE h == c \o s
<1>1. /\ h \in Seq(B) /\ Len(h) = Len(c) + Len(s)
      /\ \A i \in 1 .. Len(h) : h[i] = IF i <= Len(c) THEN c[i] ELSE s[i - Len(c)]
  OBVIOUS
<1> HIDE DEF h
<1>2. Len(c) \in Nat /\ Len(s) \in Nat
  OBVIOUS
<1>3. \A i \in 1 .. Len(g) : g[i] = h[i]
  <2> SUFFICES ASSUME NEW i \in 1 .. Len(g)
               PROVE  g[i] = h[i]
    OBVIOUS
  <2>1. h[i] = IF i <= Len(c) THEN c[i] ELSE s[i - Len(c)]
    BY <1>1
  <2>2. CASE i <= Len(c)
    BY <1>2, <2>1, <2>2
  <2>3. CASE ~(i <= Len(c))
    <3>1. i \in Len(c) + 1 .. Len(c) + Len(s)
      BY <1>2, <2>3
    <3> QED
      BY <2>1, <2>3, <3>1
  <2> QED
    BY <2>2, <2>3
<1>4. g = h
  <2>1. Len(g) = Len(h) /\ h \in Seq(B)
    BY <1>1
  <2> QED
    BY <1>3, <2>1, SeqEqual
<1> QED
  BY <1>4 DEF h

LEMMA Split ==
    ASSUME NEW B, NEW u \in Nat, NEW c \in [1 .. u -> B], NEW k \in 0 .. u
    PROVE  /\ SubSeq(c, 1, k) = [i \in 1 .. k |-> c[i]]
           /\ SubSeq(c, k + 1, Len(c)) = [i \in 1 .. u - k |-> c[k + i]]
<1>1. Len(c) = u
  OBVIOUS
<1>2. SubSeq(c, 1, k) = [i \in 1 .. k |-> c[i]]
  OBVIOUS
<1>3. SubSeq(c, k + 1, u) = [i \in 1 .. u - k |-> c[k + i]]
  <2>1. SubSeq(c, k + 1, u) = [i \in 1 .. u - (k + 1) + 1 |-> c[i + (k + 1) - 1]]
    OBVIOUS
  <2>2. u - (k + 1) + 1 = u - k
    OBVIOUS
  <2>3. \A i \in 1 .. u - k : i + (k + 1) - 1 = k + i
    OBVIOUS
  <2> QED
    BY <2>1, <2>2, <2>3
<1> QED
  BY <1>1, <1>2, <1>3

(* The array holds bytes: what the refinement needs beside IndexOK. *)
RingInv == IndexOK /\ buffer \in [Indexes -> Bytes]

(* the bytes between iFront and iRear are a sequence of GetUseSize bytes *)
LEMMA ContentType ==
    ASSUME RingInv
    PROVE  /\ GetUseSize(iFront, iRear) \in 0 .. GetBufferSize
           /\ Content \in [1 .. GetUseSize(iFront, iRear) -> Bytes]
           /\ Len(Content) = GetUseSize(iFront, iRear)
<1>1. GetUseSize(iFront, iRear) \in 0 .. GetBufferSize /\ GetBufferSize \in Nat
  BY UseAndFree, SizeAssumption DEF RingInv, IndexOK, GetBufferSize
<1> DEFINE u == GetUseSize(iFront, iRear)
<1>2. Content = [i \in 1 .. u |-> buffer[(iFront + i) % iTotalSize]]
  BY DEF Content
<1> HIDE DEF u
<1>3. u \in Nat
  BY <1>1 DEF u
<1>4. ASSUME NEW i \in 1 .. u
      PROVE  buffer[(iFront + i) % iTotalSize] \in Bytes
  <2>1. iFront + i \in Int
    BY <1>3, <1>4, SizeAssumption DEF RingInv, IndexOK, Indexes
  <2>2. (iFront + i) % iTotalSize \in Indexes
    BY <2>1, SizeAssumption DEF Indexes
  <2> QED
    BY <2>2 DEF RingInv
<1>5. Content \in [1 .. u -> Bytes]
  BY <1>2, <1>4
<1> QED
  BY <1>1, <1>3, <1>5 DEF u

(* What Enqueue and MoveRear do to the contents: with data as the bytes that *)
(* are behind iRear afterwards, as many as fit are appended.                 *)
LEMMA RefinePut ==
    ASSUME RingInv, NEW n \in 1 .. MaxSize, NEW data, data \in [1 .. n -> Bytes],
           iFront' = iFront, iRear' = EnqRear(iFront, iRear, n),
           out' = [ret |-> EnqSize(iFront, iRear, n), data |-> << >>],
           HasBehind(buffer', buffer, iFront, iRear, n, data)
    PROVE  Queue!Put(data)
<1> DEFINE u == GetUseSize(iFront, iRear)
           k == EnqSize(iFront, iRear, n)
           c == Content
           g == Content'
<1>1. n \in Nat \ {0} /\ n \in Nat
  BY MaxSizeAssumption
<1>2. u \in 0 .. GetBufferSize /\ c \in [1 .. u -> Bytes] /\ Len(c) = u
  BY ContentType
<1>3. k = Lesser(n, GetBufferSize - u)
  BY <1>1, EnqResult, UseAndFree DEF RingInv, IndexOK
<1>4. GetUseSize(iFront, EnqRear(iFront, iRear, n)) = u + k
  BY <1>1, EnqUse DEF RingInv, IndexOK
<1>5. g = [i \in 1 .. u + k |-> buffer'[(iFront + i) % iTotalSize]]
  BY <1>4 DEF Content
<1>6. c = [i \in 1 .. u |-> buffer[(iFront + i) % iTotalSize]]
  BY DEF Content
<1>7. GetBufferSize \in Nat
  BY SizeAssumption DEF GetBufferSize
<1>8. Len(data) = n
  BY <1>1
<1> HIDE DEF u, k, c, g
<1>9. u \in Nat /\ k \in 0 .. n
  BY <1>1, <1>2, <1>3, <1>7 DEF Lesser
<1>10. \A i \in 1 .. u : g[i] = c[i]
  <2> SUFFICES ASSUME NEW i \in 1 .. u
               PROVE  g[i] = c[i]
    OBVIOUS
  <2>1. i \in 1 .. u + k
    BY <1>9
  <2>2. g[i] = buffer'[(iFront + i) % iTotalSize]
    BY <1>5, <2>1
  <2>3. buffer'[(iFront + i) % iTotalSize] = buffer[(iFront + i) % iTotalSize]
    BY DEF u, HasBehind
  <2> QED
    BY <1>6, <2>2, <2>3
<1>11. \A i \in u + 1 .. u + k : g[i] = data[i - u]
  <2> SUFFICES ASSUME NEW i \in u + 1 .. u + k
               PROVE  g[i] = data[i - u]
    OBVIOUS
  <2>1. i \in 1 .. u + k
    BY <1>9
  <2>2. g[i] = buffer'[(iFront + i) % iTotalSize]
    BY <1>5, <2>1
  <2>3. buffer'[(iFront + i) % iTotalSize] = data[i - u]
    BY DEF u, k, HasBehind
  <2> QED
    BY <2>2, <2>3
<1> DEFINE s == SubSeq(data, 1, k)
<1>12. s \in Seq(Bytes) /\ Len(s) = k /\ \A i \in 1 .. k : s[i] = data[i]
  BY <1>1, <1>9
<1> HIDE DEF s
<1>13. g \in Seq(Bytes) /\ Len(g) = u + k
  <2>1. ASSUME NEW i \in 1 .. u + k
        PROVE  g[i] \in Bytes
    <3>1. CASE i <= u
      <4>1. i \in 1 .. u
        BY <1>9, <2>1, <3>1
      <4> QED
        BY <1>2, <1>10, <4>1
    <3>2. CASE ~(i <= u)
      <4>1. i \in u + 1 .. u + k /\ i - u \in 1 .. n
        BY <1>9, <2>1, <3>2
      <4> QED
        BY <1>11, <4>1
    <3> QED
      BY <3>1, <3>2
  <2>2. g \in [1 .. u + k -> Bytes]
    BY <1>5, <2>1
  <2>3. u + k \in Nat
    BY <1>9
  <2> QED
    BY <2>2, <2>3
<1>15. g = c \o s
  <2>1. c \in Seq(Bytes)
    BY <1>2, <1>9
  <2>2. \A i \in u + 1 .. u + k : i - u \in 1 .. k /\ g[i] = s[i - u]
    BY <1>9, <1>11, <1>12
  <2> QED
    BY <1>2, <1>10, <1>12, <1>13, <2>1, <2>2, EnqueueAppends
<1>14. k = Queue!Fit(Len(data), GetBufferSize - Len(c))
  BY <1>2, <1>3, <1>8 DEF Lesser, Queue!Fit
<1> QED
  BY <1>14, <1>15 DEF Queue!Put, c, g, k, s

(* what Dequeue and MoveFront do to the contents *)
LEMMA RefineShift ==
    ASSUME RingInv, NEW n \in 1 .. MaxSize,
           iFront' = DeqFront(iFront, iRear, n), iRear' = iRear, buffer' = buffer
    PROVE  LET k == Queue!Fit(n, Len(Content)) IN
           /\ Content' = SubSeq(Content, k + 1, Len(Content))
           /\ DeqSize(iFront, iRear, n) = k
<1> DEFINE u == GetUseSize(iFront, iRear)
           k == DeqSize(iFront, iRear, n)
           f == DeqFront(iFront, iRear, n)
           c == Content
           g == Content'
<1>1. n \in Nat \ {0} /\ n \in Nat
  BY MaxSizeAssumption
<1>2. u \in 0 .. GetBufferSize /\ c \in [1 .. u -> Bytes] /\ Len(c) = u
  BY ContentType
<1>3. k = Lesser(n, u) /\ f = Wrapped(iFront + k)
  BY <1>1, DeqResult DEF RingInv, IndexOK
<1>4. GetUseSize(f, iRear) = u - k
  BY <1>1, DeqUse DEF RingInv, IndexOK
<1>5. g = [i \in 1 .. u - k |-> buffer[(f + i) % iTotalSize]]
  BY <1>4 DEF Content
<1>6. c = [i \in 1 .. u |-> buffer[(iFront + i) % iTotalSize]]
  BY DEF Content
<1>7. u < iTotalSize /\ u \in Nat
  BY <1>2, SizeAssumption DEF GetBufferSize
<1> HIDE DEF u, k, f, c, g
<1>8. k \in 0 .. u /\ k \in Nat
  BY <1>1, <1>3, <1>7 DEF Lesser
<1>9. ASSUME NEW i \in 1 .. u - k
      PROVE  buffer[(f + i) % iTotalSize] = c[k + i]
  <2>1. i \in Nat /\ k + i \in 1 .. u
    BY <1>7, <1>8, <1>9
  <2>2. k + i < iTotalSize
    BY <1>7, <1>8, <2>1, SizeAssumption
  <2>3. iFront \in Indexes
    BY DEF RingInv, IndexOK
  <2>4. (f + i) % iTotalSize = (iFront + (k + i)) % iTotalSize
    BY <1>3, <1>8, <2>1, <2>2, <2>3, ShiftedIndex
  <2> QED
    BY <1>6, <2>1, <2>4
<1>10. g = [i \in 1 .. u - k |-> c[k + i]]
  BY <1>5, <1>9
<1>11. SubSeq(c, k + 1, Len(c)) = [i \in 1 .. u - k |-> c[k + i]]
  BY <1>2, <1>7, <1>8, Split
<1>12. k = Queue!Fit(n, Len(c))
  BY <1>2, <1>3 DEF Lesser, Queue!Fit
<1> QED
  BY <1>10, <1>11, <1>12 DEF c, g, k

(* what Dequeue and Peek copy out *)
LEMMA RefineCopy ==
    ASSUME RingInv, NEW n \in 1 .. MaxSize
    PROVE  LET k == Queue!Fit(n, Len(Content)) IN
           /\ DeqData(buffer, iFront, iRear, n) = SubSeq(Content, 1, k)
           /\ DeqSize(iFront, iRear, n) = k
<1> DEFINE u == GetUseSize(iFront, iRear)
           k == Lesser(n, u)
           c == Content
<1>1. n \in Nat \ {0} /\ n \in Nat
  BY MaxSizeAssumption
<1>2. u \in 0 .. GetBufferSize /\ c \in [1 .. u -> Bytes] /\ Len(c) = u
  BY ContentType
<1>3. DeqSize(iFront, iRear, n) = k
  BY <1>1, DeqResult DEF RingInv, IndexOK
<1>4. DeqData(buffer, iFront, iRear, n) =
        [i \in 1 .. k |-> buffer[(iFront + i) % iTotalSize]]
  BY <1>1, DeqCopies DEF RingInv, IndexOK
<1>5. c = [i \in 1 .. u |-> buffer[(iFront + i) % iTotalSize]]
  BY DEF Content
<1>6. u \in Nat
  BY <1>2, SizeAssumption DEF GetBufferSize
<1>7. k = Queue!Fit(n, Len(c))
  BY <1>2 DEF Lesser, Queue!Fit
<1>8. k \in 0 .. u
  BY <1>1, <1>6 DEF Lesser
<1> HIDE DEF u, k, c
<1>9. SubSeq(c, 1, k) = [i \in 1 .. k |-> c[i]]
  BY <1>2, <1>6, <1>8, Split
<1>10. \A i \in 1 .. k : c[i] = buffer[(iFront + i) % iTotalSize]
  BY <1>5, <1>6, <1>8
<1> QED
  BY <1>3, <1>4, <1>7, <1>9, <1>10 DEF c

(* RingInv is inductive *)
LEMMA RingStep ==
    ASSUME RingInv, [Next]_vars, IndexOK'
    PROVE  RingInv'
<1>1. ASSUME NEW n \in 1 .. MaxSize, NEW data \in [1 .. n -> Bytes], Enqueue(data)
      PROVE  buffer' \in [Indexes -> Bytes]
  <2>1. Len(data) = n /\ n \in Nat \ {0}
    BY <1>1, MaxSizeAssumption
  <2>2. buffer' = EnqBuffer(buffer, iFront, iRear, data)
    BY <1>1 DEF Enqueue
  <2> QED
    BY <2>1, <2>2, EnqCopies DEF RingInv, IndexOK
<1> QED
  BY <1>1 DEF Next, MoveRear, Dequeue, Peek, MoveFront, ClearBuffer, vars, RingInv

(* every operation of CRingBuffer is one of a byte queue *)
LEMMA RefineStep ==
    ASSUME RingInv, [Next]_vars
    PROVE  Queue!Next \/ UNCHANGED Queue!vars
<1>0. iFront \in Indexes /\ iRear \in Indexes /\ buffer \in [Indexes -> Bytes]
  BY DEF RingInv, IndexOK
<1>1. ASSUME NEW n \in 1 .. MaxSize, NEW data \in [1 .. n -> Bytes], Enqueue(data)
      PROVE  Queue!Next
  <2>1. Len(data) = n /\ n \in Nat \ {0}
    BY <1>1, MaxSizeAssumption
  <2>2. /\ buffer' = EnqBuffer(buffer, iFront, iRear, data)
        /\ iFront' = iFront /\ iRear' = EnqRear(iFront, iRear, n)
        /\ out' = [ret |-> EnqSize(iFront, iRear, n), data |-> << >>]
    BY <1>1, <2>1 DEF Enqueue
  <2>3. HasBehind(buffer', buffer, iFront, iRear, n, data)
    BY <1>0, <1>1, <2>1, <2>2, EnqCopies
  <2>4. Queue!Put(data)
    BY <2>2, <2>3, RefinePut
  <2> QED
    BY <2>4 DEF Queue!Next
<1>2. ASSUME NEW n \in 1 .. MaxSize, MoveRear(n)
      PROVE  Queue!Next
  <2> DEFINE u == GetUseSize(iFront, iRear)
             data == [i \in 1 .. n |-> buffer'[(iFront + (u + i)) % iTotalSize]]
  <2>1. n \in Nat \ {0} /\ u \in Nat /\ EnqSize(iFront, iRear, n) \in 0 .. n
    BY <1>0, <1>2, MaxSizeAssumption, EnqResult, UseAndFree, SizeAssumption
       DEF GetBufferSize, Lesser
  <2>2. /\ buffer' \in [Indexes -> Bytes]
        /\ \A i \in 1 .. u :
              buffer'[(iFront + i) % iTotalSize] = buffer[(iFront + i) % iTotalSize]
    BY <1>2 DEF MoveRear, UsedIndexes
  <2>3. /\ iFront' = iFront /\ iRear' = EnqRear(iFront, iRear, n)
        /\ out' = [ret |-> EnqSize(iFront, iRear, n), data |-> << >>]
    BY <1>2 DEF MoveRear
  <2>4. data \in [1 .. n -> Bytes]
    <3> HIDE DEF u
    <3>1. ASSUME NEW i \in 1 .. n
          PROVE  (iFront + (u + i)) % iTotalSize \in Indexes
      <4>1. iFront + (u + i) \in Int
        BY <1>0, <2>1, <3>1, SizeAssumption DEF Indexes
      <4> QED
        BY <4>1, SizeAssumption DEF Indexes
    <3> QED
      BY <2>2, <3>1
  <2>5. ASSUME NEW i \in u + 1 .. u + EnqSize(iFront, iRear, n)
        PROVE  buffer'[(iFront + i) % iTotalSize] = data[i - u]
    <3> HIDE DEF u
    <3>1. i - u \in 1 .. n /\ u + (i - u) = i
      BY <2>1, <2>5
    <3>2. data[i - u] = buffer'[(iFront + (u + (i - u))) % iTotalSize]
      BY <3>1
    <3> QED
      BY <3>1, <3>2
  <2> HIDE DEF data
  <2>6. HasBehind(buffer', buffer, iFront, iRear, n, data)
    BY <2>2, <2>5 DEF HasBehind
  <2>7. Queue!Put(data)
    BY <2>3, <2>4, <2>6, RefinePut
  <2> QED
    BY <2>4, <2>7 DEF Queue!Next
<1>3. ASSUME NEW n \in 1 .. MaxSize, Dequeue(n)
      PROVE  Queue!Next
  <2>1. Queue!Get(n)
    BY <1>3, RefineShift, RefineCopy DEF Dequeue, Queue!Get
  <2> QED
    BY <2>1 DEF Queue!Next
<1>4. ASSUME NEW n \in 1 .. MaxSize, Peek(n)
      PROVE  Queue!Next
  <2>1. Content' = Content
    BY <1>4 DEF Peek, Content
  <2>2. Queue!Look(n)
    BY <1>4, <2>1, RefineCopy DEF Peek, Queue!Look
  <2> QED
    BY <2>2 DEF Queue!Next
<1>5. ASSUME NEW n \in 1 .. MaxSize, MoveFront(n)
      PROVE  Queue!Next
  <2>1. Queue!Drop(n)
    BY <1>5, RefineShift DEF MoveFront, Queue!Drop
  <2> QED
    BY <2>1 DEF Queue!Next
<1>6. CASE ClearBuffer
  <2>1. Content' = << >>
    BY <1>6 DEF ClearBuffer, Content, GetUseSize
  <2>2. Queue!Clear
    BY <1>6, <2>1 DEF ClearBuffer, Queue!Clear
  <2> QED
    BY <2>2 DEF Queue!Next
<1>7. CASE UNCHANGED vars
  BY <1>7 DEF vars, Queue!vars, Content
<1> QED
  BY <1>1, <1>2, <1>3, <1>4, <1>5, <1>6, <1>7 DEF Next

(* CRingBuffer is a FIFO queue of bytes, for every array size, every size    *)
(* argument and every sequence of calls: the copies in two pieces around the *)
(* end of the array lose, repeat and reorder nothing, and every return value *)
(* is what fits.                                                             *)
THEOREM RingIsByteQueue == Spec => ImplementsByteQueue
<1>1. Init => Queue!Init
  <2> SUFFICES ASSUME Init
               PROVE  Queue!Init
    OBVIOUS
  <2>1. Content = << >>
    BY DEF Init, Content, GetUseSize
  <2> QED
    BY <2>1 DEF Init, Queue!Init
<1>2. Init => RingInv
  BY SizeAssumption DEF Init, RingInv, IndexOK, Indexes
<1>3. RingInv /\ [Next]_vars /\ IndexOK' => RingInv'
  BY RingStep
<1>4. RingInv /\ [Next]_vars => [Queue!Next]_(Queue!vars)
  BY RefineStep
<1> QED
  BY <1>1, <1>2, <1>3, <1>4, IndexesInside, PTL
     DEF Spec, ImplementsByteQueue, Queue!Spec
=============================================================================
