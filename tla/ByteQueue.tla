----------------------------- MODULE ByteQueue ------------------------------
(***************************************************************************)
(* What CRingBuffer promises: a FIFO queue of at most Capacity bytes whose *)
(* operations do as much as fits and report how much that was.             *)
(***************************************************************************)
EXTENDS Integers, Sequences

CONSTANTS Bytes, Capacity, MaxSize

VARIABLES content,  \* the bytes in the queue
          out       \* the last operation's return value and bytes copied out

vars == <<content, out>>

Init == content = << >> /\ out = [ret |-> 0, data |-> << >>]

Fit(a, b) == IF a > b THEN b ELSE a

(* as many bytes of data as there is room for *)
Put(data) ==
    LET k == Fit(Len(data), Capacity - Len(content)) IN
    /\ content' = content \o SubSeq(data, 1, k)
    /\ out' = [ret |-> k, data |-> << >>]

(* up to n bytes are removed; Look leaves them, Drop does not copy them *)
Get(n) ==
    LET k == Fit(n, Len(content)) IN
    /\ content' = SubSeq(content, k + 1, Len(content))
    /\ out' = [ret |-> k, data |-> SubSeq(content, 1, k)]

Look(n) ==
    LET k == Fit(n, Len(content)) IN
    /\ out' = [ret |-> k, data |-> SubSeq(content, 1, k)]
    /\ UNCHANGED content

Drop(n) ==
    LET k == Fit(n, Len(content)) IN
    /\ content' = SubSeq(content, k + 1, Len(content))
    /\ out' = [ret |-> k, data |-> << >>]

Clear == content' = << >> /\ out' = [ret |-> 0, data |-> << >>]

Next == \/ \E n \in 1 .. MaxSize :
              \/ \E data \in [1 .. n -> Bytes] : Put(data)
              \/ Get(n) \/ Look(n) \/ Drop(n)
        \/ Clear

Spec == Init /\ [][Next]_vars
=============================================================================
