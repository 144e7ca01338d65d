--------------------------- MODULE CLockFreeQueue ---------------------------
(***************************************************************************)
(* CLockFreeQueue (src/LoginServer_Chat/CLockFreeQueue.h), the send queue  *)
(* of a session.  _head and _tail are node pointers with a tag in their    *)
(* upper 17 bits; the last node's next field holds _myCode.  _size is      *)
(* decremented before a Dequeue looks for its element and incremented      *)
(* after an Enqueue has linked its own.  Nodes return to a pool and come   *)
(* out of it again with their old fields.                                  *)
(*                                                                         *)
(* One step is one access to memory that another thread may access too.    *)
(* The pool is atomic, and which of its nodes Alloc returns is open.       *)
(* Operators marked "faulty variant" are not part of the specification.    *)
(***************************************************************************)
EXTENDS Integers, FiniteSets, Sequences, LinkedList

CONSTANTS Threads,
          Nodes,        \* bound: the nodes the pool can hand out
          Values,       \* what callers enqueue
          Dummy,        \* &_dummy, a member of the queue itself
          Code,         \* _myCode
          Null,         \* nullptr
          MaxTag        \* bound: no Enqueue is called past this tail tag

ASSUME QueueAssumption ==
    /\ IsFiniteSet(Nodes) /\ IsFiniteSet(Threads)
    /\ Dummy \notin Nodes
    /\ Code # Null /\ {Code, Null} \cap (Nodes \cup {Dummy}) = {}
    /\ Null \notin Values
    /\ MaxTag \in 0 .. 2 ^ 17 - 1

VARIABLES
    head, tail,         \* _head and _tail, a node and a tag each
    size,               \* _size
    next, data,         \* the fields of the nodes
    pool,               \* the nodes in poolManager
    pc,                 \* where each thread is
    loc                 \* the local variables of each thread

queueVars == <<head, tail, size>>
nodeVars == <<next, data>>
vars == <<queueVars, nodeVars, pool, pc, loc>>

Unlinked  == {"EnqInit", "EnqTail", "EnqNext", "EnqLink", "EnqHelp"}
Linked    == {"EnqSwing", "EnqCount"}
Enqueuing == Unlinked \cup Linked
Searching == {"DeqHead", "DeqNext", "DeqCheck", "DeqTail", "DeqTailNext",
              "DeqHelp", "DeqRead", "DeqCas"}

Pointer(n, tag) == [ptr |-> n, tag |-> tag]

(* node is newNode; head, tail, next and tailNext are bkHead, bkTail, bkNext *)
(* and bkTailNext; val is what Dequeue read from the node                    *)
NoLocals == [node |-> Null, head |-> Pointer(Null, 0), tail |-> Pointer(Null, 0),
             next |-> Null, tailNext |-> Null, val |-> Null]

Init ==
    /\ head = Pointer(Dummy, 0)
    /\ tail = Pointer(Dummy, 0)
    /\ size = 0
    /\ next = [n \in Nodes \cup {Dummy} |-> IF n = Dummy THEN Code ELSE Null]
    /\ data = [n \in Nodes |-> Null]
    /\ pool = Nodes
    /\ pc = [t \in Threads |-> "idle"]
    /\ loc = [t \in Threads |-> NoLocals]

(* thread t goes on; or it returns, and its local variables are gone, as those *)
(* of a round of Dequeue's loop are in the next                                *)
Goto(t, here, there) == pc[t] = here /\ pc' = [pc EXCEPT ![t] = there]

Forget(t) == loc' = [loc EXCEPT ![t] = NoLocals]

Return(t, here) == Goto(t, here, "idle") /\ Forget(t)

(* the exchange of _tail that any thread may do for a slow Enqueue *)
CasTail(t, n) ==
    tail' = IF tail = loc[t].tail THEN Pointer(n, tail.tag + 1) ELSE tail

-----------------------------------------------------------------------------
(* Enqueue *)

(* Alloc may return any node of the pool *)
Enqueue(t, v, n) ==
    /\ Goto(t, "idle", "EnqInit")
    /\ tail.tag + Cardinality({u \in Threads : pc[u] \in Enqueuing}) < MaxTag
    /\ n \in pool
    /\ pool' = pool \ {n}
    /\ data' = [data EXCEPT ![n] = v]
    /\ loc' = [loc EXCEPT ![t].node = n]
    /\ UNCHANGED <<queueVars, next>>

EnqInit(t) ==
    /\ Goto(t, "EnqInit", "EnqTail")
    /\ next' = [next EXCEPT ![loc[t].node] = Code]
    /\ UNCHANGED <<queueVars, data, pool, loc>>

EnqTail(t) ==
    /\ Goto(t, "EnqTail", "EnqNext")
    /\ loc' = [loc EXCEPT ![t].tail = tail]
    /\ UNCHANGED <<queueVars, nodeVars, pool>>

(* bkRealTail->next, whoever owns that node by now *)
EnqNext(t) ==
    LET n == next[loc[t].tail.ptr]
    IN  /\ Goto(t, "EnqNext", IF n = Code THEN "EnqLink" ELSE "EnqHelp")
        /\ loc' = [loc EXCEPT ![t].next = n]
        /\ UNCHANGED <<queueVars, nodeVars, pool>>

(* faulty variant: the loop repeats the exchange with the old tail *)
EnqRetryNoReload == "EnqLink"

(* where the loop continues when another thread linked its node first *)
EnqRetry == "EnqTail"

EnqLink(t) ==
    LET last == loc[t].tail.ptr
    IN  /\ \/ /\ Goto(t, "EnqLink", "EnqSwing")
              /\ next[last] = Code
              /\ next' = [next EXCEPT ![last] = loc[t].node]
           \/ /\ Goto(t, "EnqLink", EnqRetry)
              /\ next[last] # Code
              /\ UNCHANGED next
        /\ UNCHANGED <<queueVars, data, pool, loc>>

EnqHelp(t) ==
    /\ Goto(t, "EnqHelp", "EnqTail")
    /\ CasTail(t, loc[t].next)
    /\ UNCHANGED <<head, size, nodeVars, pool, loc>>

EnqSwing(t) ==
    /\ Goto(t, "EnqSwing", "EnqCount")
    /\ CasTail(t, loc[t].node)
    /\ UNCHANGED <<head, size, nodeVars, pool, loc>>

EnqCount(t) ==
    /\ Return(t, "EnqCount")
    /\ size' = size + 1
    /\ UNCHANGED <<head, tail, nodeVars, pool>>

-----------------------------------------------------------------------------
(* Dequeue *)

(* the decrement of _size is the call's first step *)
Dequeue(t) ==
    /\ Goto(t, "idle", IF size - 1 < 0 THEN "DeqRefuse" ELSE "DeqHead")
    /\ size' = size - 1
    /\ UNCHANGED <<head, tail, nodeVars, pool, loc>>

(* faulty variant: what was decremented is not incremented again *)
DeqRefuseKeeps(t) ==
    /\ Return(t, "DeqRefuse")
    /\ UNCHANGED <<queueVars, nodeVars, pool>>

DeqRefuse(t) ==
    /\ Return(t, "DeqRefuse")
    /\ size' = size + 1
    /\ UNCHANGED <<head, tail, nodeVars, pool>>

DeqHead(t) ==
    /\ Goto(t, "DeqHead", "DeqNext")
    /\ loc' = [loc EXCEPT ![t].head = head]
    /\ UNCHANGED <<queueVars, nodeVars, pool>>

DeqNext(t) ==
    LET n == next[loc[t].head.ptr]
    IN  /\ Goto(t, "DeqNext", IF n = Code THEN "DeqCheck" ELSE "DeqTail")
        /\ loc' = [loc EXCEPT ![t].next = n]
        /\ UNCHANGED <<queueVars, nodeVars, pool>>

(* bkHead == _head: Dequeue returns false and keeps its reservation *)
DeqCheck(t) ==
    /\ Goto(t, "DeqCheck", IF head = loc[t].head THEN "idle" ELSE "DeqHead")
    /\ Forget(t)
    /\ UNCHANGED <<queueVars, nodeVars, pool>>

DeqTail(t) ==
    /\ Goto(t, "DeqTail", "DeqTailNext")
    /\ loc' = [loc EXCEPT ![t].tail = tail]
    /\ UNCHANGED <<queueVars, nodeVars, pool>>

DeqTailNext(t) ==
    LET n == next[loc[t].tail.ptr]
    IN  /\ Goto(t, "DeqTailNext", IF n = Code THEN "DeqRead" ELSE "DeqHelp")
        /\ loc' = [loc EXCEPT ![t].tailNext = n]
        /\ UNCHANGED <<queueVars, nodeVars, pool>>

DeqHelp(t) ==
    /\ Goto(t, "DeqHelp", "DeqHead")
    /\ CasTail(t, loc[t].tailNext)
    /\ Forget(t)
    /\ UNCHANGED <<head, size, nodeVars, pool>>

(* bkTail is not used again *)
DeqRead(t) ==
    /\ Goto(t, "DeqRead", "DeqCas")
    /\ loc' = [loc EXCEPT ![t].val = data[loc[t].next],
                          ![t].tail = NoLocals.tail]
    /\ UNCHANGED <<queueVars, nodeVars, pool>>

(* faulty variant: the tag of _head stays as it is *)
NewHeadUntagged(t) == Pointer(loc[t].next, head.tag)

NewHead(t) == Pointer(loc[t].next, head.tag + 1)

DeqCas(t) ==
    /\ \/ /\ head = loc[t].head
          /\ Goto(t, "DeqCas", "DeqFree")
          /\ head' = NewHead(t)
          /\ UNCHANGED loc
       \/ /\ head # loc[t].head
          /\ Goto(t, "DeqCas", "DeqHead")
          /\ Forget(t)
          /\ UNCHANGED head
    /\ UNCHANGED <<tail, size, nodeVars, pool>>

(* faulty variant: the pool takes whatever it is given *)
FreeUnmarked(n) == {n}

(* MemoryPoolTLS::Free compares the words before and behind the node.  A node *)
(* of the pool in use has the pool's marks there; around _dummy they are      *)
(* _tail and _myCode, which differ, so that Free refuses it.                  *)
Free(n) == {n} \ {Dummy}

DeqFree(t) ==
    /\ Return(t, "DeqFree")
    /\ pool' = pool \cup Free(loc[t].head.ptr)
    /\ UNCHANGED <<queueVars, nodeVars>>

-----------------------------------------------------------------------------
Step(t) ==
    \/ EnqInit(t) \/ EnqTail(t) \/ EnqNext(t) \/ EnqLink(t) \/ EnqHelp(t)
    \/ EnqSwing(t) \/ EnqCount(t)
    \/ DeqRefuse(t) \/ DeqHead(t) \/ DeqNext(t) \/ DeqCheck(t) \/ DeqTail(t)
    \/ DeqTailNext(t) \/ DeqHelp(t) \/ DeqRead(t) \/ DeqCas(t) \/ DeqFree(t)

(* A rule on callers, which the class does not enforce: the node that one    *)
(* Enqueue has read as the tail is not handed out to another one before the  *)
(* exchange of line 98, which compares _myCode and no tag.  Without it two   *)
(* enqueuers can lose a node.  Callers that take turns keep it, because      *)
(* nobody is inside Enqueue when one of them calls it (OneEnqueuer of        *)
(* QueueProofs), and SendPacket's do in LoginServer: it is called by the one *)
(* thread that handles a message of the session (CNetServer!SingleReceiver). *)
Usable == pool \ {loc[u].tail.ptr : u \in {w \in Threads : pc[w] \in Enqueuing}}

Next == \E t \in Threads :
            \/ \E v \in Values, n \in Usable : Enqueue(t, v, n)
            \/ Dequeue(t)
            \/ Step(t)

(* a thread inside Enqueue or Dequeue goes on *)
Fairness == \A t \in Threads : WF_vars(Step(t))

Spec == Init /\ [][Next]_vars /\ Fairness

-----------------------------------------------------------------------------
(* the nodes from _head on; the list ends at the node whose next is Code *)
List == Walk(head.ptr, next, Nodes \cup {Dummy}, Code)

Depth == Length(List, Nodes \cup {Dummy}) - 1

InList == Listed(List, Nodes \cup {Dummy})

Content == [i \in 1 .. Depth |-> data[List[i]]]

Owned(t) == IF pc[t] \in Unlinked THEN {loc[t].node}
            ELSE IF pc[t] = "DeqFree" THEN {loc[t].head.ptr} \ {Dummy} ELSE {}

(***************************************************************************)
(* Every node is in the pool, or linked in the queue once, or owned by one *)
(* thread inside Enqueue or Dequeue; _dummy, the first node, is part of    *)
(* the queue and never comes out of the pool (CLockFreeQueue.h:48, 148).   *)
(***************************************************************************)
NodesAccounted ==
    /\ Cardinality(InList) = Depth + 1
    /\ Dummy \notin pool
    /\ pool \cup InList \cup UNION {Owned(t) : t \in Threads} \in {Nodes, Nodes \cup {Dummy}}
    /\ pool \cap InList = {}
    /\ \A t \in Threads :
           /\ Owned(t) \cap (pool \cup InList) = {}
           /\ \A u \in Threads \ {t} : Owned(t) \cap Owned(u) = {}

(***************************************************************************)
(* _size, the number SendPost reads as the number of elements it can take  *)
(* (CNetServer.cpp:445-475), counts the linked elements that are counted   *)
(* and not reserved; it is below that only for Dequeue calls that are just *)
(* being refused.                                                          *)
(***************************************************************************)
Holding(where) == Cardinality({t \in Threads : pc[t] \in where})

SizeCountsElements ==
    size = Depth - Holding(Linked) - Holding(Searching) - Holding({"DeqRefuse"})

(***************************************************************************)
(* Refinement of TicketQueue.  An Enqueue takes effect when its node is    *)
(* linked and is published when _size counts it; a Dequeue reserves with   *)
(* its decrement and takes its element when it exchanges _head.            *)
(***************************************************************************)
Operation(t) ==
    CASE pc[t] = "idle" -> [kind |-> "idle"]
      [] pc[t] \in Unlinked -> [kind |-> "enqueue", val |-> data[loc[t].node]]
      [] pc[t] \in Linked -> [kind |-> "publish"]
      [] pc[t] = "DeqRefuse" -> [kind |-> "refused"]
      [] pc[t] \in Searching -> [kind |-> "reserved"]
      [] pc[t] = "DeqFree" -> [kind |-> "took", val |-> loc[t].val]

Abstract == INSTANCE TicketQueue
                WITH content <- Content,
                     tickets <- size + Holding({"DeqRefuse"}),
                     op <- [t \in Threads |-> Operation(t)]

(* CLockFreeQueue implements TicketQueue. *)
ImplementsTicketQueue == Abstract!Spec

(***************************************************************************)
(* The loops of Enqueue and Dequeue end (lines 89-105, 120-151): one makes *)
(* another round only because some other exchange succeeded, so as long as *)
(* finitely many elements are enqueued, every call returns.                *)
(***************************************************************************)
EveryCallReturns == \A t \in Threads : pc[t] # "idle" ~> pc[t] = "idle"

-----------------------------------------------------------------------------
(* The inductive invariant *)

All == Nodes \cup {Dummy}
Codes == Nodes \cup {Code, Null}
Tagged == [ptr : All \cup {Null}, tag : Nat]

TypeOK ==
    /\ head \in [ptr : All, tag : Nat] /\ tail \in [ptr : All, tag : Nat]
    /\ size \in Int
    /\ next \in [All -> Codes]
    /\ data \in [Nodes -> Values \cup {Null}]
    /\ pool \subseteq Nodes
    /\ pc \in [Threads -> {"idle", "DeqRefuse", "DeqFree"} \cup Enqueuing \cup Searching]
    /\ loc \in [Threads -> [node : Nodes \cup {Null}, head : Tagged, tail : Tagged,
                            next : Codes, tailNext : Codes, val : Values \cup {Null}]]

(* The list ends.  _tail points to its last node, or to the one before while  *)
(* an Enqueue has linked its node and nobody has moved _tail yet.             *)
ListOK ==
    /\ HasChain(head.ptr, next, All, Code)
    /\ tail.ptr \in InList
    /\ next[tail.ptr] # Code => next[next[tail.ptr]] = Code
    /\ \A n \in InList \ {head.ptr} : data[n] \in Values

(* The node an Enqueue has read as the tail is not being enqueued again; as   *)
(* long as its next field holds the code it is still the tail.                *)
EnqOK(t) ==
    /\ pc[t] \in Unlinked \ {"EnqInit"} => next[loc[t].node] = Code
    /\ pc[t] \in Unlinked => data[loc[t].node] \in Values
    /\ pc[t] \in {"EnqNext", "EnqLink"} =>
          /\ loc[t].tail.ptr \in All
          /\ \A u \in Threads : pc[u] \in Unlinked => loc[t].tail.ptr # loc[u].node
          /\ next[loc[t].tail.ptr] = Code => tail = loc[t].tail

(* who may move _tail to which node *)
Swings(t, where, n) ==
    pc[t] = where /\ tail = loc[t].tail => next[tail.ptr] # Code /\ next[tail.ptr] = n

TailReaders == {"EnqNext", "EnqLink", "EnqHelp", "EnqSwing", "DeqTailNext", "DeqHelp"}
TailOK(t) ==
    /\ pc[t] \in TailReaders => loc[t].tail.tag =< tail.tag
    /\ pc[t] \in TailReaders /\ loc[t].tail.tag = tail.tag => loc[t].tail = tail
    /\ Swings(t, "EnqHelp", loc[t].next)
    /\ Swings(t, "EnqSwing", loc[t].node)
    /\ Swings(t, "DeqHelp", loc[t].tailNext)

(* A Dequeue that finds _head as it has read it has seen no other one: the    *)
(* successor it has read is still the second node of the list.                *)
DeqOK(t) ==
    /\ pc[t] \in Searching \ {"DeqHead"} => loc[t].head.tag =< head.tag
    /\ pc[t] \in Searching \ {"DeqHead"} /\ loc[t].head.tag = head.tag => loc[t].head = head
    /\ pc[t] = "DeqNext" => loc[t].head.ptr \in All /\ next[loc[t].head.ptr] # Null
    /\ pc[t] = "DeqCheck" => loc[t].head.tag # head.tag
    /\ pc[t] = "DeqTailNext" => loc[t].tail.ptr \in All
    /\ pc[t] \in {"DeqTail", "DeqTailNext", "DeqHelp", "DeqRead", "DeqCas"} =>
          loc[t].next \in Nodes
    /\ pc[t] \in {"DeqTail", "DeqTailNext", "DeqRead", "DeqCas"} /\ loc[t].head = head =>
          next[head.ptr] = loc[t].next
    /\ pc[t] = "DeqTailNext" /\ loc[t].head = head /\ tail.ptr = head.ptr =>
          loc[t].tail = tail
    /\ pc[t] \in {"DeqRead", "DeqCas"} /\ loc[t].head = head => tail.ptr # head.ptr
    /\ pc[t] = "DeqCas" /\ loc[t].head = head => loc[t].val = data[loc[t].next]
    /\ pc[t] = "DeqFree" => loc[t].val \in Values /\ loc[t].head.ptr \in All

(* whoever decremented _size below 0 is about to put it right *)
TicketsOK == size + Holding({"DeqRefuse"}) >= 0

QueueInv ==
    /\ TypeOK /\ ListOK
    /\ \A t \in Threads : EnqOK(t) /\ TailOK(t) /\ DeqOK(t)
    /\ TicketsOK /\ SizeCountsElements
    /\ NodesAccounted
=============================================================================
