---------------------------- MODULE QueueProofs -----------------------------
(***************************************************************************)
(* CLockFreeQueue, for any threads, any finite set of nodes and any        *)
(* values: no node is lost or shared, _size counts what a Dequeue can      *)
(* take, and the queue implements TicketQueue.                             *)
(*                                                                         *)
(* QueueInv is inductive.  The exchange that links a node compares no tag, *)
(* so it needs that the next field of a node somebody has read as the tail *)
(* never becomes the code again: only a node out of the pool gets it, and  *)
(* Usable keeps those apart.  Whoever moves _tail or _head has the tag.    *)
(* OthersNode, OthersEnq, OthersTail and OthersDeq show once, for every    *)
(* action, that a step of one thread leaves what the others know.          *)
(***************************************************************************)
EXTENDS CLockFreeQueue, ContainerLemmas

Pcs == {"idle", "DeqRefuse", "DeqFree"} \cup Enqueuing \cup Searching
Locals == [node : Nodes \cup {Null}, head : Tagged, tail : Tagged,
           next : Codes, tailNext : Codes, val : Values \cup {Null}]

(* Callers that take turns keep the rule of Usable: when nobody is inside    *)
(* Enqueue, it leaves Alloc every node of the pool.                          *)
LEMMA OneEnqueuer ==
    ASSUME \A u \in Threads : pc[u] \notin Enqueuing
    PROVE  Usable = pool
  BY DEF Usable

LEMMA PointerType ==
    \A p \in All \cup {Null} : \A k \in Nat :
        Pointer(p, k) \in Tagged /\ Pointer(p, k).ptr = p /\ Pointer(p, k).tag = k
  BY DEF Pointer, Tagged

LEMMA NoLocalsType == NoLocals \in Locals /\ NoLocals.tail \in Tagged
<1>1. Pointer(Null, 0) \in Tagged
  BY PointerType
<1> QED
  BY <1>1 DEF NoLocals, Locals, Codes

-----------------------------------------------------------------------------
(* A step of thread t: the others stay where they are; a next field changes  *)
(* in a node t is about to link, or from the code to a node in the last one; *)
(* _head and _tail change together with their tags, _tail to the node behind *)
(* it; and a node t takes out of the pool is nobody's tail.                  *)
OnlyThread(t) == \A u \in Threads \ {t} : pc'[u] = pc[u] /\ loc'[u] = loc[u]

NextStep(t) ==
    \A x \in All : next'[x] # next[x] =>
        /\ next'[x] # Null
        /\ \/ pc[t] \in Unlinked /\ x = loc[t].node
           \/ /\ next[x] = Code /\ next'[x] # Code
              /\ \A w \in Threads : pc[w] \in Unlinked => x # loc[w].node

DataStep == \A x \in Nodes : data'[x] # data[x] => x \in pool

TailStep == \/ tail' = tail
            \/ tail'.tag = tail.tag + 1 /\ next[tail.ptr] # Code /\ tail'.ptr = next[tail.ptr]

HeadStep == head' = head \/ head'.tag = head.tag + 1

NodeStep(t) ==
    pc'[t] \in Unlinked => \/ pc[t] \in Unlinked /\ loc'[t].node = loc[t].node
                           \/ loc'[t].node \in Usable

LEMMA GotoOnly ==
    ASSUME TypeOK, NEW t \in Threads, NEW here, NEW there, Goto(t, here, there)
    PROVE  /\ pc[t] = here /\ pc'[t] = there
           /\ \A u \in Threads \ {t} : pc'[u] = pc[u]
           /\ there \in Pcs => pc' \in [Threads -> Pcs]
  BY DEF TypeOK, Goto, Pcs

LEMMA ForgetOnly ==
    ASSUME TypeOK, NEW t \in Threads, Forget(t)
    PROVE  /\ loc'[t] = NoLocals
           /\ \A u \in Threads \ {t} : loc'[u] = loc[u]
           /\ loc' \in [Threads -> Locals]
  BY NoLocalsType DEF TypeOK, Locals, Forget

LEMMA ReturnOnly ==
    ASSUME TypeOK, NEW t \in Threads, NEW here, Return(t, here)
    PROVE  /\ pc[t] = here /\ pc'[t] = "idle" /\ loc'[t] = NoLocals /\ OnlyThread(t)
           /\ pc' \in [Threads -> Pcs] /\ loc' \in [Threads -> Locals]
<1>1. Goto(t, here, "idle") /\ Forget(t)
  BY DEF Return
<1>2. /\ pc[t] = here /\ pc'[t] = "idle"
      /\ \A u \in Threads \ {t} : pc'[u] = pc[u]
      /\ pc' \in [Threads -> Pcs]
  BY <1>1, GotoOnly DEF Pcs
<1>3. /\ loc'[t] = NoLocals
      /\ \A u \in Threads \ {t} : loc'[u] = loc[u]
      /\ loc' \in [Threads -> Locals]
  BY <1>1, ForgetOnly
<1> QED
  BY <1>2, <1>3 DEF OnlyThread

(* a local variable is assigned *)
LEMMA LocNode ==
    ASSUME TypeOK, NEW t \in Threads, NEW x \in Nodes \cup {Null}, loc' = [loc EXCEPT ![t].node = x]
    PROVE  /\ loc'[t].node = x
           /\ loc'[t].head = loc[t].head /\ loc'[t].tail = loc[t].tail
           /\ loc'[t].next = loc[t].next /\ loc'[t].tailNext = loc[t].tailNext
           /\ loc'[t].val = loc[t].val
           /\ \A u \in Threads \ {t} : loc'[u] = loc[u]
           /\ loc' \in [Threads -> Locals]
<1>1. loc[t] \in Locals
  BY DEF TypeOK, Locals
<1> QED
  BY <1>1 DEF TypeOK, Locals

LEMMA LocHead ==
    ASSUME TypeOK, NEW t \in Threads, NEW x \in Tagged, loc' = [loc EXCEPT ![t].head = x]
    PROVE  /\ loc'[t].head = x
           /\ loc'[t].node = loc[t].node /\ loc'[t].tail = loc[t].tail
           /\ loc'[t].next = loc[t].next /\ loc'[t].tailNext = loc[t].tailNext
           /\ loc'[t].val = loc[t].val
           /\ \A u \in Threads \ {t} : loc'[u] = loc[u]
           /\ loc' \in [Threads -> Locals]
<1>1. loc[t] \in Locals
  BY DEF TypeOK, Locals
<1> QED
  BY <1>1 DEF TypeOK, Locals

LEMMA LocTail ==
    ASSUME TypeOK, NEW t \in Threads, NEW x \in Tagged, loc' = [loc EXCEPT ![t].tail = x]
    PROVE  /\ loc'[t].tail = x
           /\ loc'[t].node = loc[t].node /\ loc'[t].head = loc[t].head
           /\ loc'[t].next = loc[t].next /\ loc'[t].tailNext = loc[t].tailNext
           /\ loc'[t].val = loc[t].val
           /\ \A u \in Threads \ {t} : loc'[u] = loc[u]
           /\ loc' \in [Threads -> Locals]
<1>1. loc[t] \in Locals
  BY DEF TypeOK, Locals
<1> QED
  BY <1>1 DEF TypeOK, Locals

LEMMA LocNext ==
    ASSUME TypeOK, NEW t \in Threads, NEW x \in Codes, loc' = [loc EXCEPT ![t].next = x]
    PROVE  /\ loc'[t].next = x
           /\ loc'[t].node = loc[t].node /\ loc'[t].head = loc[t].head
           /\ loc'[t].tail = loc[t].tail /\ loc'[t].tailNext = loc[t].tailNext
           /\ loc'[t].val = loc[t].val
           /\ \A u \in Threads \ {t} : loc'[u] = loc[u]
           /\ loc' \in [Threads -> Locals]
<1>1. loc[t] \in Locals
  BY DEF TypeOK, Locals
<1> QED
  BY <1>1 DEF TypeOK, Locals

LEMMA LocTailNext ==
    ASSUME TypeOK, NEW t \in Threads, NEW x \in Codes, loc' = [loc EXCEPT ![t].tailNext = x]
    PROVE  /\ loc'[t].tailNext = x
           /\ loc'[t].node = loc[t].node /\ loc'[t].head = loc[t].head
           /\ loc'[t].tail = loc[t].tail /\ loc'[t].next = loc[t].next
           /\ loc'[t].val = loc[t].val
           /\ \A u \in Threads \ {t} : loc'[u] = loc[u]
           /\ loc' \in [Threads -> Locals]
<1>1. loc[t] \in Locals
  BY DEF TypeOK, Locals
<1> QED
  BY <1>1 DEF TypeOK, Locals

LEMMA LocData ==
    ASSUME TypeOK, NEW t \in Threads, NEW x \in Values \cup {Null},
           loc' = [loc EXCEPT ![t].val = x, ![t].tail = NoLocals.tail]
    PROVE  /\ loc'[t].val = x /\ loc'[t].node = loc[t].node
           /\ loc'[t].head = loc[t].head /\ loc'[t].next = loc[t].next
           /\ \A u \in Threads \ {t} : loc'[u] = loc[u]
           /\ loc' \in [Threads -> Locals]
<1>1. loc[t] \in Locals /\ NoLocals.tail \in Tagged
  BY NoLocalsType DEF TypeOK, Locals
<1> QED
  BY <1>1 DEF TypeOK, Locals

-----------------------------------------------------------------------------
(* the list, in terms of walks *)
LEMMA TheNodes == /\ IsFiniteSet(All) /\ Code \notin All /\ Null \notin All
                  /\ Code # Null /\ Dummy \notin Nodes /\ Nodes \subseteq All
  BY QueueAssumption, FS_AddElement DEF All

LEMMA TheList ==
    ASSUME QueueInv
    PROVE  /\ HasChain(head.ptr, next, All, Code)
           /\ InList = Listed(Walk(head.ptr, next, All, Code), All)
           /\ InList \subseteq All
           /\ head.ptr \in InList /\ head.ptr \in All
           /\ Depth = Cardinality(InList) - 1
           /\ Cardinality(InList) \in Nat \ {0}
<1>1. HasChain(head.ptr, next, All, Code) /\ head.ptr \in All
  BY DEF QueueInv, ListOK, TypeOK
<1>2. /\ InList = Listed(Walk(head.ptr, next, All, Code), All)
      /\ Depth = Length(Walk(head.ptr, next, All, Code), All) - 1
  BY DEF InList, Depth, List, All
<1>3. /\ Length(Walk(head.ptr, next, All, Code), All) =
            Cardinality(Listed(Walk(head.ptr, next, All, Code), All))
      /\ Listed(Walk(head.ptr, next, All, Code), All) \subseteq All
      /\ head.ptr \in Listed(Walk(head.ptr, next, All, Code), All)
  BY <1>1, TheNodes, ListCounted
<1>4. IsFiniteSet(InList) /\ head.ptr \in InList
  BY <1>2, <1>3, TheNodes, FS_Subset
<1>5. Cardinality(InList) \in Nat \ {0}
  BY <1>4, FS_CardinalityType, FS_EmptySet
<1> QED
  BY <1>1, <1>2, <1>3, <1>5

LEMMA TheNext ==
    ASSUME QueueInv, NEW x \in InList
    PROVE  /\ next[x] # Code => next[x] \in InList /\ next[x] \in Nodes
           /\ next[x] # head.ptr
           /\ x \notin pool /\ \A u \in Threads : x \notin Owned(u)
<1>1. /\ next[x] # Code => next[x] \in InList
      /\ next[x] # head.ptr
  BY TheList, TheNodes, Successor
<1>2. next[x] \in Codes /\ InList \subseteq All
  BY TheList DEF QueueInv, TypeOK
<1>3. next[x] # Code => next[x] \in Nodes
  BY <1>1, <1>2, TheNodes DEF Codes
<1> QED
  BY <1>1, <1>3 DEF QueueInv, NodesAccounted

LEMMA BehindHead ==
    ASSUME QueueInv, NEW x \in InList, x # head.ptr
    PROVE  x \in Nodes /\ data[x] \in Values
<1>1. PICK y \in InList : next[y] = x
  BY TheList, TheNodes, Predecessor
<1>2. next[y] # Code
  BY <1>1, TheList, TheNodes
<1> QED
  BY <1>1, <1>2, TheNext DEF QueueInv, ListOK

(* t moves nodes between the pool, the list and itself *)
Moves(t) ==
    /\ pool' \cup InList' \cup Owned(t)' \cup {Dummy} =
          pool \cup InList \cup Owned(t) \cup {Dummy}
    /\ Dummy \notin pool'
    /\ pool' \cap InList' = {}
    /\ Owned(t)' \cap (pool' \cup InList') = {}
    /\ Dummy \notin Owned(t)'

LEMMA NothingElse ==
    ASSUME QueueInv
    PROVE  /\ pool \subseteq Nodes
           /\ \A u \in Threads : Owned(u) \subseteq Nodes
           /\ {Dummy} \cup pool \cup InList \cup UNION {Owned(u) : u \in Threads} = All
<1>1. pool \cup InList \cup UNION {Owned(u) : u \in Threads} \in {Nodes, Nodes \cup {Dummy}}
  BY DEF QueueInv, NodesAccounted
<1>2. \A u \in Threads : Owned(u) \subseteq All
  BY <1>1 DEF All
<1>3. ASSUME NEW u \in Threads
      PROVE  Dummy \notin Owned(u)
  <2>1. loc[u].node \in Nodes \cup {Null} /\ Dummy \notin Nodes \cup {Null}
    BY TheNodes DEF QueueInv, TypeOK, All
  <2> QED
    BY <2>1 DEF Owned
<1>4. pool \subseteq Nodes /\ \A u \in Threads : Owned(u) \subseteq Nodes
  BY <1>2, <1>3 DEF QueueInv, TypeOK, All
<1>5. {Dummy} \cup pool \cup InList \cup UNION {Owned(u) : u \in Threads} = All
  <2> DEFINE S == pool \cup InList \cup UNION {Owned(u) : u \in Threads}
  <2>1. S \in {Nodes, Nodes \cup {Dummy}}
    BY <1>1
  <2> HIDE DEF S
  <2>2. S \cup {Dummy} = All
    BY <2>1 DEF All
  <2> QED
    BY <2>2 DEF S
<1> QED
  BY <1>4, <1>5

LEMMA AccountStep ==
    ASSUME QueueInv, NEW t \in Threads, OnlyThread(t), Moves(t), ListOK', head'.ptr \in All
    PROVE  NodesAccounted'
<1> DEFINE Mine == pool \cup InList \cup Owned(t)
           Others == UNION {Owned(u) : u \in Threads \ {t}}
<1>1. Cardinality(InList)' = Depth' + 1
  <2>1. HasChain(head'.ptr, next', All, Code)
    BY DEF ListOK
  <2>2. Length(Walk(head'.ptr, next', All, Code), All) =
          Cardinality(Listed(Walk(head'.ptr, next', All, Code), All))
    BY <2>1, TheNodes, ListCounted
  <2>3. Length(Walk(head'.ptr, next', All, Code), All) \in Nat
    BY <2>1, TheNodes, WalkListed
  <2>4. /\ Depth' = Length(Walk(head'.ptr, next', All, Code), All) - 1
        /\ Cardinality(InList)' = Cardinality(Listed(Walk(head'.ptr, next', All, Code), All))
    BY DEF Depth, InList, List, All
  <2> QED
    BY <2>2, <2>3, <2>4
<1>2. \A u \in Threads \ {t} : Owned(u)' = Owned(u)
  BY DEF OnlyThread, Owned
<1>3. \A u \in Threads :
         /\ Owned(u) \subseteq Nodes
         /\ Owned(u) \cap (pool \cup InList) = {}
         /\ \A v \in Threads \ {u} : Owned(u) \cap Owned(v) = {}
  BY NothingElse DEF QueueInv, NodesAccounted
<1>4. UNION {Owned(u) : u \in Threads} = Owned(t) \cup Others
  OBVIOUS
<1>5. Mine \cup Others \cup {Dummy} = All
  <2> DEFINE S == UNION {Owned(u) : u \in Threads}
  <2>1. {Dummy} \cup pool \cup InList \cup S = All /\ S = Owned(t) \cup Others
    BY <1>4, NothingElse
  <2> HIDE DEF S, Others
  <2> QED
    BY <2>1
<1>6. \A u \in Threads \ {t} : Owned(u) \cap Mine = {} /\ Dummy \notin Owned(u)
  BY <1>3, TheNodes
<1>7. pool' \cup InList' \cup Owned(t)' \cup {Dummy} = Mine \cup {Dummy}
  BY DEF Moves
<1>8. UNION {Owned(u)' : u \in Threads} = Owned(t)' \cup Others
  BY <1>2
<1>9. {Dummy} \cup pool' \cup InList' \cup UNION {Owned(u)' : u \in Threads} = All
  <2> DEFINE S == UNION {Owned(u)' : u \in Threads}
  <2>1. S = Owned(t)' \cup Others
    BY <1>8
  <2> HIDE DEF Mine, Others, S
  <2>2. {Dummy} \cup pool' \cup InList' \cup S = All
    BY <1>5, <1>7, <2>1
  <2> QED
    BY <2>2 DEF S
<1>10. pool' \cup InList' \cup UNION {Owned(u)' : u \in Threads} \in {Nodes, Nodes \cup {Dummy}}
  <2> DEFINE S == pool' \cup InList' \cup UNION {Owned(u)' : u \in Threads}
  <2>1. S \cup {Dummy} = All
    BY <1>9
  <2> HIDE DEF S
  <2>2. S = Nodes \/ S = Nodes \cup {Dummy}
    BY <2>1, TheNodes DEF All
  <2> QED
    BY <2>2 DEF S
<1>11. \A u \in Threads \ {t} :
          /\ Owned(u)' \cap (pool' \cup InList') = {}
          /\ Owned(u)' \cap Owned(t)' = {}
  <2> HIDE DEF Mine
  <2> QED
    BY <1>2, <1>6, <1>7
<1>12. \A u \in Threads : \A v \in Threads \ {u} : Owned(u)' \cap Owned(v)' = {}
  BY <1>2, <1>3, <1>11
<1>13. \A u \in Threads : Owned(u)' \cap (pool' \cup InList') = {}
  BY <1>11 DEF Moves
<1> QED
  BY <1>1, <1>10, <1>12, <1>13 DEF NodesAccounted, Moves

(* how many threads are where *)
LEMMA HoldingStep ==
    ASSUME NEW t \in Threads, \A u \in Threads \ {t} : pc'[u] = pc[u], NEW W
    PROVE  /\ Holding(W) \in Nat /\ Holding(W)' \in Nat
           /\ (pc[t] \in W <=> pc'[t] \in W) => Holding(W)' = Holding(W)
           /\ pc[t] \notin W /\ pc'[t] \in W => Holding(W)' = Holding(W) + 1
           /\ pc[t] \in W /\ pc'[t] \notin W => Holding(W)' = Holding(W) - 1
<1> DEFINE A == {u \in Threads : pc[u] \in W}
           B == {u \in Threads : pc'[u] \in W}
<1>1. IsFiniteSet(A) /\ IsFiniteSet(B)
  BY QueueAssumption, FS_Subset
<1>2. Cardinality(A) \in Nat /\ Cardinality(B) \in Nat
  BY <1>1, FS_CardinalityType
<1>3. (pc[t] \in W <=> pc'[t] \in W) => B = A
  OBVIOUS
<1>4. pc[t] \notin W /\ pc'[t] \in W => B = A \cup {t} /\ t \notin A
  OBVIOUS
<1>5. pc[t] \in W /\ pc'[t] \notin W => A = B \cup {t} /\ t \notin B
  OBVIOUS
<1>6. Holding(W) = Cardinality(A) /\ Holding(W)' = Cardinality(B)
  BY DEF Holding
<1> HIDE DEF A, B
<1>7. pc[t] \notin W /\ pc'[t] \in W => Cardinality(B) = Cardinality(A) + 1
  BY <1>1, <1>4, FS_AddElement
<1>8. pc[t] \in W /\ pc'[t] \notin W => Cardinality(A) = Cardinality(B) + 1
  BY <1>1, <1>5, FS_AddElement
<1> QED
  BY <1>2, <1>3, <1>6, <1>7, <1>8

(* t keeps its reservation, or has none before and after *)
SameClass(t) ==
    /\ pc[t] \in Linked <=> pc'[t] \in Linked
    /\ pc[t] \in Searching <=> pc'[t] \in Searching
    /\ pc[t] \in {"DeqRefuse"} <=> pc'[t] \in {"DeqRefuse"}

LEMMA CountFrame ==
    ASSUME QueueInv, NEW t \in Threads, \A u \in Threads \ {t} : pc'[u] = pc[u],
           SameClass(t), size' = size, Depth' = Depth
    PROVE  TicketsOK' /\ SizeCountsElements'
<1>1. /\ Holding(Linked)' = Holding(Linked)
      /\ Holding(Searching)' = Holding(Searching)
      /\ Holding({"DeqRefuse"})' = Holding({"DeqRefuse"})
  BY HoldingStep DEF SameClass
<1> QED
  BY <1>1 DEF QueueInv, TicketsOK, SizeCountsElements

-----------------------------------------------------------------------------
(* what the other threads rely on *)
LEMMA OthersNode ==
    ASSUME QueueInv, NEW t \in Threads, NextStep(t), DataStep,
           NEW u \in Threads \ {t}, pc[u] \in Unlinked
    PROVE  /\ next'[loc[u].node] = next[loc[u].node]
           /\ data'[loc[u].node] = data[loc[u].node]
<1> DEFINE n == loc[u].node
<1>1. Owned(u) = {n}
  BY DEF Owned
<1>2. n \in Nodes /\ n \notin pool
  BY <1>1, NothingElse DEF QueueInv, NodesAccounted
<1>3. pc[t] \in Unlinked => n # loc[t].node
  <2>1. pc[t] \in Unlinked => Owned(t) = {loc[t].node}
    BY DEF Owned
  <2>2. Owned(u) \cap Owned(t) = {}
    BY DEF QueueInv, NodesAccounted
  <2> QED
    BY <1>1, <2>1, <2>2
<1>4. n \in All
  BY <1>2 DEF All
<1>5. next'[n] = next[n]
  BY <1>3, <1>4 DEF NextStep
<1> QED
  BY <1>2, <1>5 DEF DataStep

LEMMA OthersEnq ==
    ASSUME QueueInv, NEW t \in Threads, OnlyThread(t), NextStep(t), DataStep, TailStep,
           NodeStep(t), NEW u \in Threads \ {t}
    PROVE  EnqOK(u)'
<1>1. pc'[u] = pc[u] /\ loc'[u] = loc[u]
  BY DEF OnlyThread
<1>2. EnqOK(u) /\ EnqOK(t)
  BY DEF QueueInv
<1>3. pc[u] \in Unlinked => /\ next'[loc[u].node] = next[loc[u].node]
                            /\ data'[loc[u].node] = data[loc[u].node]
  BY OthersNode
<1>4. ASSUME pc[u] \in {"EnqNext", "EnqLink"}
      PROVE  /\ loc[u].tail.ptr \in All
             /\ \A w \in Threads : pc'[w] \in Unlinked => loc[u].tail.ptr # loc'[w].node
             /\ next'[loc[u].tail.ptr] = Code => tail' = loc[u].tail
  <2> DEFINE p == loc[u].tail.ptr
  <2>1. /\ p \in All
        /\ \A w \in Threads : pc[w] \in Unlinked => p # loc[w].node
        /\ next[p] = Code => tail = loc[u].tail
    BY <1>2, <1>4 DEF EnqOK
  <2>2. ASSUME NEW w \in Threads, pc'[w] \in Unlinked
        PROVE  p # loc'[w].node
    <3>1. CASE w # t
      BY <2>1, <2>2, <3>1 DEF OnlyThread
    <3>2. CASE w = t /\ pc[t] \in Unlinked /\ loc'[t].node = loc[t].node
      BY <2>1, <3>2
    <3>3. CASE w = t /\ loc'[t].node \in Usable
      BY <1>4, <3>3 DEF Usable, Enqueuing, Unlinked
    <3> QED
      BY <2>2, <3>1, <3>2, <3>3 DEF NodeStep
  <2>3. ASSUME next'[p] = Code
        PROVE  tail' = loc[u].tail
    <3>1. next[p] = Code
      BY <2>1, <2>3 DEF NextStep
    <3>2. tail = loc[u].tail
      BY <2>1, <3>1
    <3> QED
      BY <3>1, <3>2 DEF TailStep
  <2> QED
    BY <2>1, <2>2, <2>3
<1> QED
  BY <1>1, <1>2, <1>3, <1>4 DEF EnqOK

LEMMA OthersTail ==
    ASSUME QueueInv, NEW t \in Threads, OnlyThread(t), NextStep(t), TailStep, TypeOK',
           NEW u \in Threads \ {t}
    PROVE  TailOK(u)'
<1>1. pc'[u] = pc[u] /\ loc'[u] = loc[u]
  BY DEF OnlyThread
<1>2. TailOK(u)
  BY DEF QueueInv
<1>3. tail.tag \in Nat /\ tail'.tag \in Nat /\ loc[u].tail.tag \in Nat
  BY DEF QueueInv, TypeOK, Tagged
<1>4. tail.tag <= tail'.tag /\ (tail'.tag = tail.tag => tail' = tail)
  BY <1>3 DEF TailStep
<1>5. ASSUME pc[u] \in TailReaders
      PROVE  /\ loc[u].tail.tag <= tail'.tag
             /\ loc[u].tail.tag = tail'.tag => loc[u].tail = tail' /\ tail' = tail
  <2>1. loc[u].tail.tag <= tail.tag /\ (loc[u].tail.tag = tail.tag => loc[u].tail = tail)
    BY <1>2, <1>5 DEF TailOK
  <2>2. loc[u].tail.tag <= tail'.tag
    BY <1>3, <1>4, <2>1
  <2>3. loc[u].tail.tag = tail'.tag => loc[u].tail.tag = tail.tag /\ tail'.tag = tail.tag
    BY <1>3, <1>4, <2>1
  <2> QED
    BY <1>4, <2>1, <2>2, <2>3
<1>6. tail.ptr \in InList /\ tail.ptr \in All
  BY TheList DEF QueueInv, ListOK
<1>7. next[tail.ptr] # Code => next'[tail.ptr] = next[tail.ptr]
  <2>1. pc[t] \in Unlinked => Owned(t) = {loc[t].node}
    BY DEF Owned
  <2>2. tail.ptr \notin Owned(t)
    BY <1>6, TheNext
  <2> QED
    BY <1>6, <2>1, <2>2 DEF NextStep
<1>8. ASSUME NEW where \in TailReaders, NEW n, Swings(u, where, n)
      PROVE  pc'[u] = where /\ tail' = loc'[u].tail => next'[tail'.ptr] # Code /\ next'[tail'.ptr] = n
  BY <1>1, <1>5, <1>7, <1>8 DEF Swings
<1>9. {"EnqHelp", "EnqSwing", "DeqHelp"} \subseteq TailReaders
  BY DEF TailReaders
<1>10. Swings(u, "EnqHelp", loc[u].next)'
  BY <1>1, <1>2, <1>8, <1>9 DEF TailOK, Swings
<1>11. Swings(u, "EnqSwing", loc[u].node)'
  BY <1>1, <1>2, <1>8, <1>9 DEF TailOK, Swings
<1>12. Swings(u, "DeqHelp", loc[u].tailNext)'
  BY <1>1, <1>2, <1>8, <1>9 DEF TailOK, Swings
<1> QED
  BY <1>1, <1>5, <1>10, <1>11, <1>12 DEF TailOK

LEMMA OthersDeq ==
    ASSUME QueueInv, NEW t \in Threads, OnlyThread(t), NextStep(t), DataStep, TailStep,
           HeadStep, TypeOK', NEW u \in Threads \ {t}
    PROVE  DeqOK(u)'
<1>1. pc'[u] = pc[u] /\ loc'[u] = loc[u]
  BY DEF OnlyThread
<1>2. DeqOK(u)
  BY DEF QueueInv
<1>3. head.tag \in Nat /\ head'.tag \in Nat /\ loc[u].head.tag \in Nat
  BY DEF QueueInv, TypeOK, Tagged
<1>4. head.tag <= head'.tag /\ (head'.tag = head.tag => head' = head)
  BY <1>3 DEF HeadStep
<1>5. ASSUME pc[u] \in Searching \ {"DeqHead"}
      PROVE  /\ loc[u].head.tag <= head'.tag
             /\ loc[u].head.tag = head'.tag => loc[u].head = head' /\ head' = head
  <2>1. loc[u].head.tag <= head.tag /\ (loc[u].head.tag = head.tag => loc[u].head = head)
    BY <1>2, <1>5 DEF DeqOK
  <2>2. loc[u].head.tag <= head'.tag
    BY <1>3, <1>4, <2>1
  <2>3. loc[u].head.tag = head'.tag => loc[u].head.tag = head.tag /\ head'.tag = head.tag
    BY <1>3, <1>4, <2>1
  <2> QED
    BY <1>4, <2>1, <2>2, <2>3
<1>6. pc[u] = "DeqNext" => loc[u].head.ptr \in All /\ next'[loc[u].head.ptr] # Null
  BY <1>2 DEF DeqOK, NextStep
<1>7. pc[u] = "DeqCheck" => loc[u].head.tag # head'.tag
  <2>1. pc[u] = "DeqCheck" => loc[u].head.tag # head.tag /\ loc[u].head.tag <= head.tag
    BY <1>2 DEF DeqOK, Searching
  <2> QED
    BY <1>3, <1>4, <2>1
<1>8. head.ptr \in InList /\ head.ptr \in All /\ tail.ptr \in InList
  BY TheList DEF QueueInv, ListOK
<1>9. next[head.ptr] # Code => next'[head.ptr] = next[head.ptr]
  <2>1. pc[t] \in Unlinked => Owned(t) = {loc[t].node}
    BY DEF Owned
  <2>2. head.ptr \notin Owned(t)
    BY <1>8, TheNext
  <2> QED
    BY <1>8, <2>1, <2>2 DEF NextStep
<1>10. tail'.ptr = head.ptr => tail' = tail
  BY <1>8, TheNext DEF TailStep
<1>11. ASSUME pc[u] \in {"DeqTail", "DeqTailNext", "DeqRead", "DeqCas"}, loc[u].head = head'
       PROVE  /\ head' = head /\ next'[head'.ptr] = loc[u].next
              /\ next[head.ptr] = loc[u].next /\ loc[u].next \in Nodes
              /\ loc[u].next \in InList
  <2>1. head' = head
    BY <1>5, <1>11 DEF Searching
  <2>2. next[head.ptr] = loc[u].next /\ loc[u].next \in Nodes
    BY <1>2, <1>11, <2>1 DEF DeqOK
  <2>3. next[head.ptr] # Code
    BY <2>2, TheNodes
  <2> QED
    BY <1>8, <1>9, <2>1, <2>2, <2>3, TheNext
<1>12. ASSUME pc[u] = "DeqTailNext", loc[u].head = head', tail'.ptr = head'.ptr
       PROVE  loc[u].tail = tail'
  BY <1>2, <1>10, <1>11, <1>12 DEF DeqOK
<1>13. ASSUME pc[u] \in {"DeqRead", "DeqCas"}, loc[u].head = head'
       PROVE  tail'.ptr # head'.ptr
  BY <1>2, <1>10, <1>11, <1>13 DEF DeqOK
<1>14. ASSUME pc[u] = "DeqCas", loc[u].head = head'
       PROVE  loc[u].val = data'[loc[u].next]
  <2>1. loc[u].next \in Nodes /\ loc[u].next \in InList /\ head' = head
    BY <1>11, <1>14
  <2>2. data'[loc[u].next] = data[loc[u].next]
    BY <2>1, TheNext DEF DataStep
  <2> QED
    BY <1>2, <1>14, <2>1, <2>2 DEF DeqOK
<1> QED
  BY <1>1, <1>2, <1>5, <1>6, <1>7, <1>11, <1>12, <1>13, <1>14 DEF DeqOK

(* what is left to show of a step *)
LEMMA StepInv ==
    ASSUME QueueInv, NEW t \in Threads, OnlyThread(t), NextStep(t), DataStep, TailStep,
           HeadStep, NodeStep(t), Moves(t), TypeOK', ListOK',
           EnqOK(t)', TailOK(t)', DeqOK(t)', TicketsOK', SizeCountsElements'
    PROVE  QueueInv'
<1>1. NodesAccounted'
  BY AccountStep DEF TypeOK
<1>2. \A u \in Threads : EnqOK(u)'
  BY OthersEnq
<1>3. \A u \in Threads : TailOK(u)'
  BY OthersTail
<1>4. \A u \in Threads : DeqOK(u)'
  BY OthersDeq
<1> QED
  BY <1>1, <1>2, <1>3, <1>4 DEF QueueInv

(* a step that leaves the listed nodes and _head alone *)
LEMMA ListFrame ==
    ASSUME QueueInv, NEW t \in Threads, head' = head, DataStep, TailStep,
           \A x \in InList : next'[x] = next[x]
    PROVE  List' = List /\ InList' = InList /\ Depth' = Depth /\ ListOK'
<1>1. /\ HasChain(head.ptr, next, All, Code)
      /\ InList = Listed(Walk(head.ptr, next, All, Code), All)
      /\ InList \subseteq All
  BY TheList
<1>2. \A x \in Listed(Walk(head.ptr, next, All, Code), All) : next'[x] = next[x]
  BY <1>1
<1>3. /\ HasChain(head.ptr, next', All, Code)
      /\ Walk(head.ptr, next', All, Code) = Walk(head.ptr, next, All, Code)
  BY <1>1, <1>2, TheNodes, SameList
<1>4. List' = List /\ InList' = InList /\ Depth' = Depth
  BY <1>3 DEF List, InList, Depth, All
<1>5. tail.ptr \in InList /\ (next[tail.ptr] # Code => next[next[tail.ptr]] = Code)
  BY DEF QueueInv, ListOK
<1>6. /\ tail'.ptr \in InList
      /\ next'[tail'.ptr] # Code => next'[next'[tail'.ptr]] = Code
  <2>1. CASE tail' = tail
    <3>1. next[tail.ptr] # Code => next[tail.ptr] \in InList
      BY <1>5, TheNext
    <3> QED
      BY <1>5, <2>1, <3>1
  <2>2. CASE next[tail.ptr] # Code /\ tail'.ptr = next[tail.ptr]
    <3>1. next[tail.ptr] \in InList
      BY <1>5, <2>2, TheNext
    <3> QED
      BY <1>5, <2>2, <3>1
  <2> QED
    BY <2>1, <2>2 DEF TailStep
<1>7. \A n \in InList \ {head.ptr} : data'[n] \in Values
  <2> SUFFICES ASSUME NEW n \in InList \ {head.ptr}
               PROVE  data'[n] \in Values
    OBVIOUS
  <2>1. data[n] \in Values /\ n \notin pool /\ n \in Nodes
    BY TheNext, BehindHead
  <2> QED
    BY <2>1 DEF DataStep
<1> QED
  BY <1>3, <1>4, <1>6, <1>7 DEF ListOK

-----------------------------------------------------------------------------
(* The steps of Enqueue and Dequeue *)

(* a step that moves no node *)
LEMMA FrameStep ==
    ASSUME QueueInv, NEW t \in Threads, OnlyThread(t), UNCHANGED <<head, next, data, pool>>,
           TailStep, Owned(t)' = Owned(t),
           pc'[t] \in Unlinked => pc[t] \in Unlinked /\ loc'[t].node = loc[t].node,
           TypeOK', EnqOK(t)', TailOK(t)', DeqOK(t)',
           Depth' = Depth => TicketsOK' /\ SizeCountsElements'
    PROVE  QueueInv'
<1>1. NextStep(t) /\ DataStep /\ HeadStep /\ NodeStep(t)
  BY DEF NextStep, DataStep, HeadStep, NodeStep
<1>2. InList' = InList /\ Depth' = Depth /\ ListOK'
  BY <1>1, ListFrame
<1>3. Dummy \notin Owned(t)
  BY NothingElse, TheNodes
<1>4. Moves(t)
  BY <1>2, <1>3 DEF Moves, QueueInv, NodesAccounted
<1> QED
  BY <1>1, <1>2, <1>4, StepInv

(* a step that changes nothing but _tail and t's own variables *)
LEMMA QuietStep ==
    ASSUME QueueInv, NEW t \in Threads, OnlyThread(t),
           UNCHANGED <<head, size, next, data, pool>>, TailStep, SameClass(t),
           Owned(t)' = Owned(t),
           pc'[t] \in Unlinked => pc[t] \in Unlinked /\ loc'[t].node = loc[t].node,
           TypeOK', EnqOK(t)', TailOK(t)', DeqOK(t)'
    PROVE  QueueInv'
<1>1. Depth' = Depth => TicketsOK' /\ SizeCountsElements'
  BY CountFrame DEF OnlyThread
<1> QED
  BY <1>1, FrameStep

LEMMA EnqTailInv ==
    ASSUME QueueInv, NEW t \in Threads, EnqTail(t)
    PROVE  QueueInv'
<1>1. TypeOK /\ EnqOK(t)
  BY DEF QueueInv
<1>2. /\ Goto(t, "EnqTail", "EnqNext")
      /\ loc' = [loc EXCEPT ![t].tail = tail]
      /\ UNCHANGED <<head, tail, size, next, data, pool>>
  BY DEF EnqTail, queueVars, nodeVars
<1>3. /\ pc[t] = "EnqTail" /\ pc'[t] = "EnqNext"
      /\ \A u \in Threads \ {t} : pc'[u] = pc[u]
      /\ pc' \in [Threads -> Pcs]
  BY <1>1, <1>2, GotoOnly DEF Pcs, Enqueuing, Unlinked
<1>4. tail \in Tagged /\ tail.ptr \in All
  BY <1>1 DEF TypeOK, Tagged
<1>5. /\ loc'[t].tail = tail /\ loc'[t].node = loc[t].node
      /\ \A u \in Threads \ {t} : loc'[u] = loc[u]
      /\ loc' \in [Threads -> Locals]
  BY <1>1, <1>2, <1>4, LocTail
<1>6. TypeOK'
  BY <1>1, <1>2, <1>3, <1>5 DEF TypeOK, Pcs, Locals
<1>7. OnlyThread(t) /\ SameClass(t) /\ Owned(t)' = Owned(t) /\ TailStep
  BY <1>2, <1>3, <1>5 DEF OnlyThread, SameClass, Owned, TailStep, Unlinked, Linked, Searching
<1>8. pc[t] \in Unlinked
  BY <1>3 DEF Unlinked
<1>9. ASSUME NEW u \in Threads, pc'[u] \in Unlinked
      PROVE  tail.ptr # loc'[u].node
  <2>1. pc[u] \in Unlinked /\ loc'[u].node = loc[u].node
    BY <1>3, <1>5, <1>8, <1>9
  <2>2. loc[u].node \in Owned(u)
    BY <2>1 DEF Owned
  <2>3. tail.ptr \in InList
    BY DEF QueueInv, ListOK
  <2> QED
    BY <2>1, <2>2, <2>3, TheNext
<1>10. EnqOK(t)'
  BY <1>1, <1>2, <1>3, <1>4, <1>5, <1>9 DEF EnqOK, Unlinked
<1>11. TailOK(t)'
  <2>1. tail.tag <= tail.tag
    BY <1>1 DEF TypeOK
  <2> QED
    BY <1>2, <1>3, <1>5, <2>1 DEF TailOK, Swings
<1>12. DeqOK(t)'
  BY <1>3 DEF DeqOK, Searching
<1> QED
  BY <1>2, <1>5, <1>6, <1>7, <1>8, <1>10, <1>11, <1>12, QuietStep

LEMMA EnqNextInv ==
    ASSUME QueueInv, NEW t \in Threads, EnqNext(t)
    PROVE  QueueInv'
<1> DEFINE n == next[loc[t].tail.ptr]
<1>1. TypeOK /\ EnqOK(t) /\ TailOK(t)
  BY DEF QueueInv
<1>2. /\ Goto(t, "EnqNext", IF n = Code THEN "EnqLink" ELSE "EnqHelp")
      /\ loc' = [loc EXCEPT ![t].next = n]
      /\ UNCHANGED <<head, tail, size, next, data, pool>>
  BY DEF EnqNext, queueVars, nodeVars
<1>3. /\ pc[t] = "EnqNext" /\ pc'[t] = IF n = Code THEN "EnqLink" ELSE "EnqHelp"
      /\ \A u \in Threads \ {t} : pc'[u] = pc[u]
      /\ pc' \in [Threads -> Pcs]
  BY <1>1, <1>2, GotoOnly DEF Pcs, Enqueuing, Unlinked
<1>4. /\ loc[t].tail.ptr \in All /\ n \in Codes
      /\ \A u \in Threads : pc[u] \in Unlinked => loc[t].tail.ptr # loc[u].node
      /\ n = Code => tail = loc[t].tail
      /\ next[loc[t].node] = Code /\ data[loc[t].node] \in Values
  BY <1>1, <1>3 DEF EnqOK, TypeOK, Unlinked
<1>5. /\ loc'[t].next = n /\ loc'[t].node = loc[t].node /\ loc'[t].tail = loc[t].tail
      /\ \A u \in Threads \ {t} : loc'[u] = loc[u]
      /\ loc' \in [Threads -> Locals]
  BY <1>1, <1>2, <1>4, LocNext
<1>6. TypeOK'
  BY <1>1, <1>2, <1>3, <1>5 DEF TypeOK, Pcs, Locals
<1>7. OnlyThread(t) /\ SameClass(t) /\ Owned(t)' = Owned(t) /\ TailStep
  BY <1>2, <1>3, <1>5 DEF OnlyThread, SameClass, Owned, TailStep, Unlinked, Linked, Searching
<1>8. pc[t] \in Unlinked
  BY <1>3 DEF Unlinked
<1>9. ASSUME NEW u \in Threads, pc'[u] \in Unlinked
      PROVE  loc[t].tail.ptr # loc'[u].node
  BY <1>3, <1>4, <1>5, <1>8, <1>9
<1>10. EnqOK(t)'
  BY <1>2, <1>3, <1>4, <1>5, <1>9 DEF EnqOK
<1>11. TailOK(t)'
  <2>1. /\ loc[t].tail.tag <= tail.tag
        /\ loc[t].tail.tag = tail.tag => loc[t].tail = tail
    BY <1>1, <1>3 DEF TailOK, TailReaders
  <2> QED
    BY <1>2, <1>3, <1>5, <2>1 DEF TailOK, Swings
<1>12. DeqOK(t)'
  BY <1>3 DEF DeqOK, Searching
<1> QED
  BY <1>2, <1>5, <1>6, <1>7, <1>8, <1>10, <1>11, <1>12, QuietStep

(* another thread linked its node first *)
LEMMA EnqLinkFails ==
    ASSUME QueueInv, NEW t \in Threads, EnqLink(t), next[loc[t].tail.ptr] # Code
    PROVE  QueueInv'
<1>1. TypeOK /\ EnqOK(t)
  BY DEF QueueInv
<1>2. /\ Goto(t, "EnqLink", "EnqTail")
      /\ UNCHANGED <<head, tail, size, next, data, pool, loc>>
  BY DEF EnqLink, EnqRetry, queueVars
<1>3. /\ pc[t] = "EnqLink" /\ pc'[t] = "EnqTail"
      /\ \A u \in Threads \ {t} : pc'[u] = pc[u]
      /\ pc' \in [Threads -> Pcs]
  BY <1>1, <1>2, GotoOnly DEF Pcs, Enqueuing, Unlinked
<1>4. TypeOK'
  BY <1>1, <1>2, <1>3 DEF TypeOK, Pcs, Locals
<1>5. OnlyThread(t) /\ SameClass(t) /\ Owned(t)' = Owned(t) /\ TailStep
  BY <1>2, <1>3 DEF OnlyThread, SameClass, Owned, TailStep, Unlinked, Linked, Searching
<1>6. pc[t] \in Unlinked
  BY <1>3 DEF Unlinked
<1>7. EnqOK(t)'
  BY <1>1, <1>2, <1>3 DEF EnqOK, Unlinked
<1>8. TailOK(t)' /\ DeqOK(t)'
  BY <1>3 DEF TailOK, TailReaders, Swings, DeqOK, Searching
<1> QED
  BY <1>2, <1>4, <1>5, <1>6, <1>7, <1>8, QuietStep

LEMMA DeqHeadInv ==
    ASSUME QueueInv, NEW t \in Threads, DeqHead(t)
    PROVE  QueueInv'
<1>1. TypeOK
  BY DEF QueueInv
<1>2. /\ Goto(t, "DeqHead", "DeqNext")
      /\ loc' = [loc EXCEPT ![t].head = head]
      /\ UNCHANGED <<head, tail, size, next, data, pool>>
  BY DEF DeqHead, queueVars, nodeVars
<1>3. /\ pc[t] = "DeqHead" /\ pc'[t] = "DeqNext"
      /\ \A u \in Threads \ {t} : pc'[u] = pc[u]
      /\ pc' \in [Threads -> Pcs]
  BY <1>1, <1>2, GotoOnly DEF Pcs, Searching
<1>4. head \in Tagged /\ head.ptr \in All
  BY <1>1 DEF TypeOK, Tagged
<1>5. /\ loc'[t].head = head
      /\ \A u \in Threads \ {t} : loc'[u] = loc[u]
      /\ loc' \in [Threads -> Locals]
  BY <1>1, <1>2, <1>4, LocHead
<1>6. TypeOK'
  BY <1>1, <1>2, <1>3, <1>5 DEF TypeOK, Pcs, Locals
<1>7. OnlyThread(t) /\ SameClass(t) /\ Owned(t)' = Owned(t) /\ TailStep
  BY <1>2, <1>3, <1>5 DEF OnlyThread, SameClass, Owned, TailStep, Unlinked, Linked, Searching
<1>8. pc'[t] \notin Unlinked
  BY <1>3 DEF Unlinked
<1>9. next[head.ptr] # Null
  BY TheList, TheNext, TheNodes
<1>10. EnqOK(t)' /\ TailOK(t)'
  BY <1>3 DEF EnqOK, Unlinked, TailOK, TailReaders, Swings
<1>11. DeqOK(t)'
  <2>1. head.tag <= head.tag
    BY <1>1 DEF TypeOK
  <2> QED
    BY <1>2, <1>3, <1>4, <1>5, <1>9, <2>1 DEF DeqOK
<1> QED
  BY <1>2, <1>6, <1>7, <1>8, <1>10, <1>11, QuietStep

(* A Dequeue that has its reservation finds an element: the list it has read *)
(* the head of is not empty.                                                 *)
LEMMA Reserved ==
    ASSUME QueueInv, NEW t \in Threads, pc[t] \in Searching
    PROVE  next[head.ptr] # Code
<1> SUFFICES ASSUME next[head.ptr] = Code PROVE FALSE
  OBVIOUS
<1>1. Depth = 0
  <2>1. Length(Walk(head.ptr, next, All, Code), All) = 1
    BY TheList, TheNodes, SingleNode
  <2> QED
    BY <2>1 DEF Depth, List, All
<1>2. Holding(Searching) \in Nat \ {0} /\ Holding(Linked) \in Nat /\ Holding({"DeqRefuse"}) \in Nat
  <2>1. ASSUME NEW W
        PROVE  /\ IsFiniteSet({u \in Threads : pc[u] \in W})
               /\ Holding(W) = Cardinality({u \in Threads : pc[u] \in W})
               /\ Holding(W) \in Nat
    <3>1. IsFiniteSet({u \in Threads : pc[u] \in W})
      BY QueueAssumption, FS_Subset
    <3> QED
      BY <3>1, FS_CardinalityType DEF Holding
  <2>2. {u \in Threads : pc[u] \in Searching} # {}
    OBVIOUS
  <2>3. Holding(Searching) # 0
    BY <2>1, <2>2, FS_EmptySet
  <2> QED
    BY <2>1, <2>3
<1>3. /\ size = Depth - Holding(Linked) - Holding(Searching) - Holding({"DeqRefuse"})
      /\ size + Holding({"DeqRefuse"}) >= 0
  BY DEF QueueInv, SizeCountsElements, TicketsOK
<1> QED
  BY <1>1, <1>2, <1>3

LEMMA DeqNextInv ==
    ASSUME QueueInv, NEW t \in Threads, DeqNext(t)
    PROVE  QueueInv'
<1> DEFINE n == next[loc[t].head.ptr]
<1>1. TypeOK /\ DeqOK(t)
  BY DEF QueueInv
<1>2. /\ Goto(t, "DeqNext", IF n = Code THEN "DeqCheck" ELSE "DeqTail")
      /\ loc' = [loc EXCEPT ![t].next = n]
      /\ UNCHANGED <<head, tail, size, next, data, pool>>
  BY DEF DeqNext, queueVars, nodeVars
<1>3. /\ pc[t] = "DeqNext" /\ pc'[t] = IF n = Code THEN "DeqCheck" ELSE "DeqTail"
      /\ \A u \in Threads \ {t} : pc'[u] = pc[u]
      /\ pc' \in [Threads -> Pcs]
  BY <1>1, <1>2, GotoOnly DEF Pcs, Searching
<1>4. /\ loc[t].head.ptr \in All /\ n \in Codes /\ n # Null
      /\ loc[t].head.tag <= head.tag
      /\ loc[t].head.tag = head.tag => loc[t].head = head
  BY <1>1, <1>3 DEF DeqOK, TypeOK, Searching
<1>5. /\ loc'[t].next = n /\ loc'[t].head = loc[t].head
      /\ \A u \in Threads \ {t} : loc'[u] = loc[u]
      /\ loc' \in [Threads -> Locals]
  BY <1>1, <1>2, <1>4, LocNext
<1>6. TypeOK'
  BY <1>1, <1>2, <1>3, <1>5 DEF TypeOK, Pcs, Locals
<1>7. OnlyThread(t) /\ SameClass(t) /\ Owned(t)' = Owned(t) /\ TailStep
  BY <1>2, <1>3, <1>5 DEF OnlyThread, SameClass, Owned, TailStep, Unlinked, Linked, Searching
<1>8. pc'[t] \notin Unlinked
  BY <1>3 DEF Unlinked
<1>9. n = Code => loc[t].head.tag # head.tag
  <2>1. next[head.ptr] # Code
    BY <1>3, Reserved DEF Searching
  <2> QED
    BY <1>4, <2>1
<1>10. EnqOK(t)' /\ TailOK(t)'
  BY <1>3 DEF EnqOK, Unlinked, TailOK, TailReaders, Swings
<1>11. DeqOK(t)'
  <2>1. n # Code => n \in Nodes
    BY <1>4 DEF Codes
  <2> QED
    BY <1>2, <1>3, <1>4, <1>5, <1>9, <2>1 DEF DeqOK
<1> QED
  BY <1>2, <1>6, <1>7, <1>8, <1>10, <1>11, QuietStep

(* _head has moved on: Dequeue never gives its reservation up *)
LEMMA DeqCheckInv ==
    ASSUME QueueInv, NEW t \in Threads, DeqCheck(t)
    PROVE  QueueInv' /\ pc[t] = "DeqCheck" /\ pc'[t] = "DeqHead"
<1>1. TypeOK /\ DeqOK(t)
  BY DEF QueueInv
<1>2. pc[t] = "DeqCheck"
  BY DEF DeqCheck, Goto
<1>3. head # loc[t].head
  BY <1>1, <1>2 DEF DeqOK
<1>4. /\ Goto(t, "DeqCheck", "DeqHead") /\ Forget(t)
      /\ UNCHANGED <<head, tail, size, next, data, pool>>
  BY <1>3 DEF DeqCheck, queueVars, nodeVars
<1>5. /\ pc'[t] = "DeqHead"
      /\ \A u \in Threads \ {t} : pc'[u] = pc[u]
      /\ pc' \in [Threads -> Pcs]
  BY <1>1, <1>4, GotoOnly DEF Pcs, Searching
<1>6. /\ \A u \in Threads \ {t} : loc'[u] = loc[u]
      /\ loc' \in [Threads -> Locals]
  BY <1>1, <1>4, ForgetOnly
<1>7. TypeOK'
  BY <1>1, <1>4, <1>5, <1>6 DEF TypeOK, Pcs, Locals
<1>8. OnlyThread(t) /\ SameClass(t) /\ Owned(t)' = Owned(t) /\ TailStep
  BY <1>2, <1>4, <1>5, <1>6 DEF OnlyThread, SameClass, Owned, TailStep, Unlinked, Linked, Searching
<1>9. pc'[t] \notin Unlinked
  BY <1>5 DEF Unlinked
<1>10. EnqOK(t)' /\ TailOK(t)' /\ DeqOK(t)'
  BY <1>5 DEF EnqOK, Unlinked, TailOK, TailReaders, Swings, DeqOK, Searching
<1> QED
  BY <1>2, <1>4, <1>5, <1>7, <1>8, <1>9, <1>10, QuietStep

LEMMA DeqTailInv ==
    ASSUME QueueInv, NEW t \in Threads, DeqTail(t)
    PROVE  QueueInv'
<1>1. TypeOK /\ DeqOK(t)
  BY DEF QueueInv
<1>2. /\ Goto(t, "DeqTail", "DeqTailNext")
      /\ loc' = [loc EXCEPT ![t].tail = tail]
      /\ UNCHANGED <<head, tail, size, next, data, pool>>
  BY DEF DeqTail, queueVars, nodeVars
<1>3. /\ pc[t] = "DeqTail" /\ pc'[t] = "DeqTailNext"
      /\ \A u \in Threads \ {t} : pc'[u] = pc[u]
      /\ pc' \in [Threads -> Pcs]
  BY <1>1, <1>2, GotoOnly DEF Pcs, Searching
<1>4. tail \in Tagged /\ tail.ptr \in All
  BY <1>1 DEF TypeOK, Tagged
<1>5. /\ loc'[t].tail = tail /\ loc'[t].head = loc[t].head /\ loc'[t].next = loc[t].next
      /\ \A u \in Threads \ {t} : loc'[u] = loc[u]
      /\ loc' \in [Threads -> Locals]
  BY <1>1, <1>2, <1>4, LocTail
<1>6. TypeOK'
  BY <1>1, <1>2, <1>3, <1>5 DEF TypeOK, Pcs, Locals
<1>7. OnlyThread(t) /\ SameClass(t) /\ Owned(t)' = Owned(t) /\ TailStep
  BY <1>2, <1>3, <1>5 DEF OnlyThread, SameClass, Owned, TailStep, Unlinked, Linked, Searching
<1>8. pc'[t] \notin Unlinked
  BY <1>3 DEF Unlinked
<1>9. EnqOK(t)'
  BY <1>3 DEF EnqOK, Unlinked
<1>10. TailOK(t)'
  <2>1. tail.tag <= tail.tag
    BY <1>1 DEF TypeOK
  <2> QED
    BY <1>2, <1>3, <1>5, <2>1 DEF TailOK, Swings
<1>11. DeqOK(t)'
  BY <1>1, <1>2, <1>3, <1>4, <1>5 DEF DeqOK, Searching
<1> QED
  BY <1>2, <1>6, <1>7, <1>8, <1>9, <1>10, <1>11, QuietStep

LEMMA DeqTailNextInv ==
    ASSUME QueueInv, NEW t \in Threads, DeqTailNext(t)
    PROVE  QueueInv'
<1> DEFINE n == next[loc[t].tail.ptr]
<1>1. TypeOK /\ DeqOK(t) /\ TailOK(t)
  BY DEF QueueInv
<1>2. /\ Goto(t, "DeqTailNext", IF n = Code THEN "DeqRead" ELSE "DeqHelp")
      /\ loc' = [loc EXCEPT ![t].tailNext = n]
      /\ UNCHANGED <<head, tail, size, next, data, pool>>
  BY DEF DeqTailNext, queueVars, nodeVars
<1>3. /\ pc[t] = "DeqTailNext" /\ pc'[t] = IF n = Code THEN "DeqRead" ELSE "DeqHelp"
      /\ \A u \in Threads \ {t} : pc'[u] = pc[u]
      /\ pc' \in [Threads -> Pcs]
  BY <1>1, <1>2, GotoOnly DEF Pcs, Searching
<1>4. /\ loc[t].tail.ptr \in All /\ n \in Codes /\ loc[t].next \in Nodes
      /\ loc[t].head.tag <= head.tag
      /\ loc[t].head.tag = head.tag => loc[t].head = head
      /\ loc[t].head = head => next[head.ptr] = loc[t].next
      /\ loc[t].head = head /\ tail.ptr = head.ptr => loc[t].tail = tail
  BY <1>1, <1>3 DEF DeqOK, TypeOK, Searching
<1>5. /\ loc'[t].tailNext = n /\ loc'[t].head = loc[t].head
      /\ loc'[t].next = loc[t].next /\ loc'[t].tail = loc[t].tail
      /\ \A u \in Threads \ {t} : loc'[u] = loc[u]
      /\ loc' \in [Threads -> Locals]
  BY <1>1, <1>2, <1>4, LocTailNext
<1>6. TypeOK'
  BY <1>1, <1>2, <1>3, <1>5 DEF TypeOK, Pcs, Locals
<1>7. OnlyThread(t) /\ SameClass(t) /\ Owned(t)' = Owned(t) /\ TailStep
  BY <1>2, <1>3, <1>5 DEF OnlyThread, SameClass, Owned, TailStep, Unlinked, Linked, Searching
<1>8. pc'[t] \notin Unlinked
  BY <1>3 DEF Unlinked
<1>9. EnqOK(t)'
  BY <1>3 DEF EnqOK, Unlinked
<1>10. TailOK(t)'
  <2>1. /\ loc[t].tail.tag <= tail.tag
        /\ loc[t].tail.tag = tail.tag => loc[t].tail = tail
    BY <1>1, <1>3 DEF TailOK, TailReaders
  <2> QED
    BY <1>2, <1>3, <1>5, <2>1 DEF TailOK, Swings
<1>11. n = Code /\ loc[t].head = head => tail.ptr # head.ptr
  BY <1>4, TheNodes
<1>12. DeqOK(t)'
  BY <1>2, <1>3, <1>4, <1>5, <1>11 DEF DeqOK
<1> QED
  BY <1>2, <1>6, <1>7, <1>8, <1>9, <1>10, <1>12, QuietStep

LEMMA DeqReadInv ==
    ASSUME QueueInv, NEW t \in Threads, DeqRead(t)
    PROVE  QueueInv'
<1>1. TypeOK /\ DeqOK(t)
  BY DEF QueueInv
<1>2. /\ Goto(t, "DeqRead", "DeqCas")
      /\ loc' = [loc EXCEPT ![t].val = data[loc[t].next], ![t].tail = NoLocals.tail]
      /\ UNCHANGED <<head, tail, size, next, data, pool>>
  BY DEF DeqRead, queueVars, nodeVars
<1>3. /\ pc[t] = "DeqRead" /\ pc'[t] = "DeqCas"
      /\ \A u \in Threads \ {t} : pc'[u] = pc[u]
      /\ pc' \in [Threads -> Pcs]
  BY <1>1, <1>2, GotoOnly DEF Pcs, Searching
<1>4. loc[t].next \in Nodes /\ data[loc[t].next] \in Values \cup {Null}
  BY <1>1, <1>3 DEF DeqOK, TypeOK
<1>5. /\ loc'[t].val = data[loc[t].next]
      /\ loc'[t].head = loc[t].head /\ loc'[t].next = loc[t].next
      /\ \A u \in Threads \ {t} : loc'[u] = loc[u]
      /\ loc' \in [Threads -> Locals]
  BY <1>1, <1>2, <1>4, LocData
<1>6. TypeOK'
  BY <1>1, <1>2, <1>3, <1>5 DEF TypeOK, Pcs, Locals
<1>7. OnlyThread(t) /\ SameClass(t) /\ Owned(t)' = Owned(t) /\ TailStep
  BY <1>2, <1>3, <1>5 DEF OnlyThread, SameClass, Owned, TailStep, Unlinked, Linked, Searching
<1>8. pc'[t] \notin Unlinked
  BY <1>3 DEF Unlinked
<1>9. EnqOK(t)' /\ TailOK(t)'
  BY <1>3 DEF EnqOK, Unlinked, TailOK, TailReaders, Swings
<1>10. DeqOK(t)'
  BY <1>1, <1>2, <1>3, <1>4, <1>5 DEF DeqOK, Searching
<1> QED
  BY <1>2, <1>6, <1>7, <1>8, <1>9, <1>10, QuietStep

(* another thread took the element first *)
LEMMA DeqCasFails ==
    ASSUME QueueInv, NEW t \in Threads, DeqCas(t), head # loc[t].head
    PROVE  QueueInv'
<1>1. TypeOK
  BY DEF QueueInv
<1>2. /\ Goto(t, "DeqCas", "DeqHead") /\ Forget(t)
      /\ UNCHANGED <<head, tail, size, next, data, pool>>
  BY DEF DeqCas, nodeVars
<1>3. /\ pc[t] = "DeqCas" /\ pc'[t] = "DeqHead"
      /\ \A u \in Threads \ {t} : pc'[u] = pc[u]
      /\ pc' \in [Threads -> Pcs]
  BY <1>1, <1>2, GotoOnly DEF Pcs, Searching
<1>4. /\ \A u \in Threads \ {t} : loc'[u] = loc[u]
      /\ loc' \in [Threads -> Locals]
  BY <1>1, <1>2, ForgetOnly
<1>5. TypeOK'
  BY <1>1, <1>2, <1>3, <1>4 DEF TypeOK, Pcs, Locals
<1>6. OnlyThread(t) /\ SameClass(t) /\ Owned(t)' = Owned(t) /\ TailStep
  BY <1>2, <1>3, <1>4 DEF OnlyThread, SameClass, Owned, TailStep, Unlinked, Linked, Searching
<1>7. pc'[t] \notin Unlinked
  BY <1>3 DEF Unlinked
<1>8. EnqOK(t)' /\ TailOK(t)' /\ DeqOK(t)'
  BY <1>3 DEF EnqOK, Unlinked, TailOK, TailReaders, Swings, DeqOK, Searching
<1> QED
  BY <1>2, <1>5, <1>6, <1>7, <1>8, QuietStep

-----------------------------------------------------------------------------
(* the exchange of _tail moves it to the node behind it *)
LEMMA TailMoves ==
    ASSUME QueueInv, NEW t \in Threads, NEW n, CasTail(t, n),
           tail = loc[t].tail => next[tail.ptr] # Code /\ next[tail.ptr] = n
    PROVE  TailStep /\ tail' \in [ptr : All, tag : Nat]
<1>1. tail \in [ptr : All, tag : Nat] /\ tail.ptr \in InList
  BY DEF QueueInv, TypeOK, ListOK
<1>2. CASE tail # loc[t].tail
  BY <1>1, <1>2 DEF CasTail, TailStep
<1>3. CASE tail = loc[t].tail
  <2>1. next[tail.ptr] = n /\ n \in Nodes /\ next[tail.ptr] # Code
    BY <1>1, <1>3, TheNext
  <2>2. tail' = Pointer(n, tail.tag + 1)
    BY <1>3 DEF CasTail
  <2>3. tail'.ptr = n /\ tail'.tag = tail.tag + 1
    BY <2>2 DEF Pointer
  <2>4. tail' \in [ptr : All, tag : Nat]
    BY <1>1, <2>1, <2>2, TheNodes DEF Pointer
  <2> QED
    BY <2>1, <2>3, <2>4 DEF TailStep
<1> QED
  BY <1>2, <1>3

LEMMA EnqHelpInv ==
    ASSUME QueueInv, NEW t \in Threads, EnqHelp(t)
    PROVE  QueueInv'
<1>1. TypeOK /\ EnqOK(t) /\ TailOK(t)
  BY DEF QueueInv
<1>2. /\ Goto(t, "EnqHelp", "EnqTail") /\ CasTail(t, loc[t].next)
      /\ UNCHANGED <<head, size, next, data, pool, loc>>
  BY DEF EnqHelp, nodeVars
<1>3. /\ pc[t] = "EnqHelp" /\ pc'[t] = "EnqTail"
      /\ \A u \in Threads \ {t} : pc'[u] = pc[u]
      /\ pc' \in [Threads -> Pcs]
  BY <1>1, <1>2, GotoOnly DEF Pcs, Enqueuing, Unlinked
<1>4. TailStep /\ tail' \in [ptr : All, tag : Nat]
  BY <1>1, <1>2, <1>3, TailMoves DEF TailOK, Swings
<1>5. TypeOK'
  BY <1>1, <1>2, <1>3, <1>4 DEF TypeOK, Pcs, Locals
<1>6. OnlyThread(t) /\ SameClass(t) /\ Owned(t)' = Owned(t)
  BY <1>2, <1>3 DEF OnlyThread, SameClass, Owned, Unlinked, Linked, Searching
<1>7. pc[t] \in Unlinked
  BY <1>3 DEF Unlinked
<1>8. EnqOK(t)'
  BY <1>1, <1>2, <1>3 DEF EnqOK, Unlinked
<1>9. TailOK(t)' /\ DeqOK(t)'
  BY <1>3 DEF TailOK, TailReaders, Swings, DeqOK, Searching
<1> QED
  BY <1>2, <1>4, <1>5, <1>6, <1>7, <1>8, <1>9, QuietStep

LEMMA EnqSwingInv ==
    ASSUME QueueInv, NEW t \in Threads, EnqSwing(t)
    PROVE  QueueInv'
<1>1. TypeOK /\ TailOK(t)
  BY DEF QueueInv
<1>2. /\ Goto(t, "EnqSwing", "EnqCount") /\ CasTail(t, loc[t].node)
      /\ UNCHANGED <<head, size, next, data, pool, loc>>
  BY DEF EnqSwing, nodeVars
<1>3. /\ pc[t] = "EnqSwing" /\ pc'[t] = "EnqCount"
      /\ \A u \in Threads \ {t} : pc'[u] = pc[u]
      /\ pc' \in [Threads -> Pcs]
  BY <1>1, <1>2, GotoOnly DEF Pcs, Enqueuing, Linked
<1>4. TailStep /\ tail' \in [ptr : All, tag : Nat]
  BY <1>1, <1>2, <1>3, TailMoves DEF TailOK, Swings
<1>5. TypeOK'
  BY <1>1, <1>2, <1>3, <1>4 DEF TypeOK, Pcs, Locals
<1>6. OnlyThread(t) /\ SameClass(t) /\ Owned(t)' = Owned(t)
  BY <1>2, <1>3 DEF OnlyThread, SameClass, Owned, Unlinked, Linked, Searching
<1>7. pc'[t] \notin Unlinked
  BY <1>3 DEF Unlinked
<1>8. EnqOK(t)' /\ TailOK(t)' /\ DeqOK(t)'
  BY <1>3 DEF EnqOK, Unlinked, TailOK, TailReaders, Swings, DeqOK, Searching
<1> QED
  BY <1>2, <1>4, <1>5, <1>6, <1>7, <1>8, QuietStep

LEMMA DeqHelpInv ==
    ASSUME QueueInv, NEW t \in Threads, DeqHelp(t)
    PROVE  QueueInv'
<1>1. TypeOK /\ TailOK(t)
  BY DEF QueueInv
<1>2. /\ Goto(t, "DeqHelp", "DeqHead") /\ CasTail(t, loc[t].tailNext) /\ Forget(t)
      /\ UNCHANGED <<head, size, next, data, pool>>
  BY DEF DeqHelp, nodeVars
<1>3. /\ pc[t] = "DeqHelp" /\ pc'[t] = "DeqHead"
      /\ \A u \in Threads \ {t} : pc'[u] = pc[u]
      /\ pc' \in [Threads -> Pcs]
  BY <1>1, <1>2, GotoOnly DEF Pcs, Searching
<1>4. /\ \A u \in Threads \ {t} : loc'[u] = loc[u]
      /\ loc' \in [Threads -> Locals]
  BY <1>1, <1>2, ForgetOnly
<1>5. TailStep /\ tail' \in [ptr : All, tag : Nat]
  BY <1>1, <1>2, <1>3, TailMoves DEF TailOK, Swings
<1>6. TypeOK'
  BY <1>1, <1>2, <1>3, <1>4, <1>5 DEF TypeOK, Pcs, Locals
<1>7. OnlyThread(t) /\ SameClass(t) /\ Owned(t)' = Owned(t)
  BY <1>2, <1>3, <1>4 DEF OnlyThread, SameClass, Owned, Unlinked, Linked, Searching
<1>8. pc'[t] \notin Unlinked
  BY <1>3 DEF Unlinked
<1>9. EnqOK(t)' /\ TailOK(t)' /\ DeqOK(t)'
  BY <1>3 DEF EnqOK, Unlinked, TailOK, TailReaders, Swings, DeqOK, Searching
<1> QED
  BY <1>2, <1>5, <1>6, <1>7, <1>8, <1>9, QuietStep

-----------------------------------------------------------------------------
(* the steps that count *)
LEMMA EnqCountInv ==
    ASSUME QueueInv, NEW t \in Threads, EnqCount(t)
    PROVE  QueueInv'
<1>1. TypeOK
  BY DEF QueueInv
<1>2. Return(t, "EnqCount") /\ size' = size + 1 /\ UNCHANGED <<head, tail, next, data, pool>>
  BY DEF EnqCount, nodeVars
<1>3. /\ pc[t] = "EnqCount" /\ pc'[t] = "idle" /\ OnlyThread(t)
      /\ pc' \in [Threads -> Pcs] /\ loc' \in [Threads -> Locals]
  BY <1>1, <1>2, ReturnOnly
<1>4. TypeOK'
  BY <1>1, <1>2, <1>3 DEF TypeOK, Pcs, Locals
<1>5. Owned(t)' = Owned(t) /\ pc'[t] \notin Unlinked /\ TailStep
  BY <1>2, <1>3 DEF Owned, Unlinked, TailStep
<1>6. EnqOK(t)' /\ TailOK(t)' /\ DeqOK(t)'
  BY <1>3 DEF EnqOK, Unlinked, TailOK, TailReaders, Swings, DeqOK, Searching
<1>7. /\ pc[t] \in Linked /\ pc'[t] \notin Linked
      /\ pc[t] \in Searching <=> pc'[t] \in Searching
      /\ pc[t] \in {"DeqRefuse"} <=> pc'[t] \in {"DeqRefuse"}
  BY <1>3 DEF Linked, Searching
<1>8. \A u \in Threads \ {t} : pc'[u] = pc[u]
  BY <1>3 DEF OnlyThread
<1>9. /\ Holding(Linked) \in Nat /\ Holding(Searching) \in Nat /\ Holding({"DeqRefuse"}) \in Nat
      /\ Holding(Linked)' = Holding(Linked) - 1
      /\ Holding(Searching)' = Holding(Searching)
      /\ Holding({"DeqRefuse"})' = Holding({"DeqRefuse"})
  BY <1>7, <1>8, HoldingStep
<1>10. Depth \in Int /\ size \in Int
  BY <1>1, TheList DEF TypeOK
<1>11. /\ size = Depth - Holding(Linked) - Holding(Searching) - Holding({"DeqRefuse"})
       /\ size + Holding({"DeqRefuse"}) >= 0
  BY DEF QueueInv, SizeCountsElements, TicketsOK
<1>12. Depth' = Depth => TicketsOK' /\ SizeCountsElements'
  BY <1>2, <1>9, <1>10, <1>11 DEF TicketsOK, SizeCountsElements
<1> QED
  BY <1>2, <1>3, <1>4, <1>5, <1>6, <1>12, FrameStep

LEMMA DequeueInv ==
    ASSUME QueueInv, NEW t \in Threads, Dequeue(t)
    PROVE  QueueInv'
<1> DEFINE there == IF size - 1 < 0 THEN "DeqRefuse" ELSE "DeqHead"
<1>1. TypeOK
  BY DEF QueueInv
<1>2. /\ Goto(t, "idle", there) /\ size' = size - 1
      /\ UNCHANGED <<head, tail, next, data, pool, loc>>
  BY DEF Dequeue, nodeVars
<1>3. /\ pc[t] = "idle" /\ pc'[t] = there
      /\ \A u \in Threads \ {t} : pc'[u] = pc[u]
      /\ pc' \in [Threads -> Pcs]
  BY <1>1, <1>2, GotoOnly DEF Pcs, Searching
<1>4. TypeOK'
  BY <1>1, <1>2, <1>3 DEF TypeOK, Pcs, Locals
<1>5. OnlyThread(t) /\ Owned(t)' = Owned(t) /\ pc'[t] \notin Unlinked /\ TailStep
  BY <1>2, <1>3 DEF OnlyThread, Owned, Unlinked, TailStep
<1>6. EnqOK(t)' /\ TailOK(t)' /\ DeqOK(t)'
  BY <1>3 DEF EnqOK, Unlinked, TailOK, TailReaders, Swings, DeqOK, Searching
<1>7. Depth \in Int /\ size \in Int
  BY <1>1, TheList DEF TypeOK
<1>8. /\ size = Depth - Holding(Linked) - Holding(Searching) - Holding({"DeqRefuse"})
      /\ size + Holding({"DeqRefuse"}) >= 0
  BY DEF QueueInv, SizeCountsElements, TicketsOK
<1>9. CASE size - 1 < 0
  <2>1. pc'[t] = "DeqRefuse"
    BY <1>3, <1>9
  <2>2. /\ pc[t] \in Linked <=> pc'[t] \in Linked
        /\ pc[t] \in Searching <=> pc'[t] \in Searching
        /\ pc[t] \notin {"DeqRefuse"} /\ pc'[t] \in {"DeqRefuse"}
    BY <1>3, <2>1 DEF Linked, Searching
  <2>3. /\ Holding(Linked) \in Nat /\ Holding(Searching) \in Nat /\ Holding({"DeqRefuse"}) \in Nat
        /\ Holding(Linked)' = Holding(Linked)
        /\ Holding(Searching)' = Holding(Searching)
        /\ Holding({"DeqRefuse"})' = Holding({"DeqRefuse"}) + 1
    BY <1>3, <2>2, HoldingStep
  <2>4. Depth' = Depth => TicketsOK' /\ SizeCountsElements'
    BY <1>2, <1>7, <1>8, <2>3 DEF TicketsOK, SizeCountsElements
  <2> QED
    BY <1>2, <1>4, <1>5, <1>6, <2>4, FrameStep
<1>10. CASE ~(size - 1 < 0)
  <2>1. pc'[t] = "DeqHead"
    BY <1>3, <1>10
  <2>2. /\ pc[t] \in Linked <=> pc'[t] \in Linked
        /\ pc[t] \notin Searching /\ pc'[t] \in Searching
        /\ pc[t] \in {"DeqRefuse"} <=> pc'[t] \in {"DeqRefuse"}
    BY <1>3, <2>1 DEF Linked, Searching
  <2>3. /\ Holding(Linked) \in Nat /\ Holding(Searching) \in Nat /\ Holding({"DeqRefuse"}) \in Nat
        /\ Holding(Linked)' = Holding(Linked)
        /\ Holding(Searching)' = Holding(Searching) + 1
        /\ Holding({"DeqRefuse"})' = Holding({"DeqRefuse"})
    BY <1>3, <2>2, HoldingStep
  <2>4. Depth' = Depth => TicketsOK' /\ SizeCountsElements'
    BY <1>2, <1>7, <1>8, <1>10, <2>3 DEF TicketsOK, SizeCountsElements
  <2> QED
    BY <1>2, <1>4, <1>5, <1>6, <2>4, FrameStep
<1> QED
  BY <1>9, <1>10

LEMMA DeqRefuseInv ==
    ASSUME QueueInv, NEW t \in Threads, DeqRefuse(t)
    PROVE  QueueInv'
<1>1. TypeOK
  BY DEF QueueInv
<1>2. Return(t, "DeqRefuse") /\ size' = size + 1 /\ UNCHANGED <<head, tail, next, data, pool>>
  BY DEF DeqRefuse, nodeVars
<1>3. /\ pc[t] = "DeqRefuse" /\ pc'[t] = "idle" /\ OnlyThread(t)
      /\ pc' \in [Threads -> Pcs] /\ loc' \in [Threads -> Locals]
  BY <1>1, <1>2, ReturnOnly
<1>4. TypeOK'
  BY <1>1, <1>2, <1>3 DEF TypeOK, Pcs, Locals
<1>5. Owned(t)' = Owned(t) /\ pc'[t] \notin Unlinked /\ TailStep
  BY <1>2, <1>3 DEF Owned, Unlinked, TailStep
<1>6. EnqOK(t)' /\ TailOK(t)' /\ DeqOK(t)'
  BY <1>3 DEF EnqOK, Unlinked, TailOK, TailReaders, Swings, DeqOK, Searching
<1>7. /\ pc[t] \in Linked <=> pc'[t] \in Linked
      /\ pc[t] \in Searching <=> pc'[t] \in Searching
      /\ pc[t] \in {"DeqRefuse"} /\ pc'[t] \notin {"DeqRefuse"}
  BY <1>3 DEF Linked, Searching
<1>8. \A u \in Threads \ {t} : pc'[u] = pc[u]
  BY <1>3 DEF OnlyThread
<1>9. /\ Holding(Linked) \in Nat /\ Holding(Searching) \in Nat /\ Holding({"DeqRefuse"}) \in Nat
      /\ Holding(Linked)' = Holding(Linked)
      /\ Holding(Searching)' = Holding(Searching)
      /\ Holding({"DeqRefuse"})' = Holding({"DeqRefuse"}) - 1
  BY <1>7, <1>8, HoldingStep
<1>10. Depth \in Int /\ size \in Int
  BY <1>1, TheList DEF TypeOK
<1>11. /\ size = Depth - Holding(Linked) - Holding(Searching) - Holding({"DeqRefuse"})
       /\ size + Holding({"DeqRefuse"}) >= 0
  BY DEF QueueInv, SizeCountsElements, TicketsOK
<1>12. Depth' = Depth => TicketsOK' /\ SizeCountsElements'
  BY <1>2, <1>9, <1>10, <1>11 DEF TicketsOK, SizeCountsElements
<1> QED
  BY <1>2, <1>3, <1>4, <1>5, <1>6, <1>12, FrameStep

-----------------------------------------------------------------------------
(* the steps that move a node *)
LEMMA EnqueueInv ==
    ASSUME QueueInv, NEW t \in Threads, NEW v \in Values, NEW n \in Usable,
           Enqueue(t, v, n)
    PROVE  QueueInv'
<1>1. TypeOK
  BY DEF QueueInv
<1>2. /\ pool' = pool \ {n}
      /\ data' = [data EXCEPT ![n] = v]
      /\ loc' = [loc EXCEPT ![t].node = n]
  BY DEF Enqueue
<1>3. Goto(t, "idle", "EnqInit") /\ UNCHANGED <<head, tail, size, next>>
  BY DEF Enqueue, queueVars
<1>4. /\ pc[t] = "idle" /\ pc'[t] = "EnqInit"
      /\ \A u \in Threads \ {t} : pc'[u] = pc[u]
      /\ pc' \in [Threads -> Pcs]
  BY <1>1, <1>3, GotoOnly DEF Pcs, Enqueuing, Unlinked
<1>5. n \in pool /\ n \in Nodes
  BY <1>1 DEF Enqueue, TypeOK
<1>6. /\ loc'[t].node = n
      /\ \A u \in Threads \ {t} : loc'[u] = loc[u]
      /\ loc' \in [Threads -> Locals]
  BY <1>1, <1>2, <1>5, LocNode
<1>7. data' \in [Nodes -> Values \cup {Null}] /\ data'[n] = v
      /\ \A x \in Nodes : x # n => data'[x] = data[x]
  BY <1>1, <1>2, <1>5 DEF TypeOK
<1>8. TypeOK'
  BY <1>1, <1>2, <1>3, <1>4, <1>6, <1>7 DEF TypeOK, Pcs, Locals
<1>9. OnlyThread(t) /\ NextStep(t) /\ TailStep /\ HeadStep
  BY <1>3, <1>4, <1>6 DEF OnlyThread, NextStep, TailStep, HeadStep
<1>10. DataStep
  BY <1>5, <1>7 DEF DataStep
<1>11. NodeStep(t)
  BY <1>2, <1>6 DEF NodeStep
<1>12. InList' = InList /\ Depth' = Depth /\ ListOK'
  BY <1>3, <1>9, <1>10, ListFrame
<1>13. Owned(t) = {} /\ Owned(t)' = {n}
  BY <1>4, <1>6 DEF Owned, Unlinked
<1>14. n \notin InList /\ n # Dummy
  BY <1>5, TheNext, TheNodes
<1>15. Moves(t)
  BY <1>2, <1>5, <1>12, <1>13, <1>14 DEF Moves, QueueInv, NodesAccounted
<1>16. EnqOK(t)' /\ TailOK(t)' /\ DeqOK(t)'
  BY <1>4, <1>6, <1>7 DEF EnqOK, Unlinked, TailOK, TailReaders, Swings, DeqOK, Searching
<1>17. SameClass(t)
  BY <1>4 DEF SameClass, Linked, Searching
<1>18. TicketsOK' /\ SizeCountsElements'
  BY <1>3, <1>4, <1>12, <1>17, CountFrame
<1> QED
  BY <1>8, <1>9, <1>10, <1>11, <1>12, <1>15, <1>16, <1>18, StepInv

LEMMA EnqInitInv ==
    ASSUME QueueInv, NEW t \in Threads, EnqInit(t)
    PROVE  QueueInv'
<1> DEFINE n == loc[t].node
<1>1. TypeOK /\ EnqOK(t)
  BY DEF QueueInv
<1>2. /\ Goto(t, "EnqInit", "EnqTail") /\ next' = [next EXCEPT ![n] = Code]
      /\ UNCHANGED <<head, tail, size, data, pool, loc>>
  BY DEF EnqInit, queueVars
<1>3. /\ pc[t] = "EnqInit" /\ pc'[t] = "EnqTail"
      /\ \A u \in Threads \ {t} : pc'[u] = pc[u]
      /\ pc' \in [Threads -> Pcs]
  BY <1>1, <1>2, GotoOnly DEF Pcs, Enqueuing, Unlinked
<1>4. pc[t] \in Unlinked /\ pc'[t] \in Unlinked
  BY <1>3 DEF Unlinked
<1>5. Owned(t) = {n} /\ Owned(t)' = {n}
  BY <1>2, <1>4 DEF Owned
<1>6. n \in Nodes /\ n \notin InList /\ n # Dummy /\ n \in All
  BY <1>5, NothingElse, TheNext, TheNodes
<1>7. /\ next' \in [All -> Codes] /\ next'[n] = Code
      /\ \A x \in All : x # n => next'[x] = next[x]
  BY <1>1, <1>2, <1>6 DEF TypeOK, Codes
<1>8. TypeOK'
  BY <1>1, <1>2, <1>3, <1>7 DEF TypeOK, Pcs, Locals
<1>9. OnlyThread(t) /\ DataStep /\ TailStep /\ HeadStep /\ NodeStep(t)
  BY <1>2, <1>3, <1>4 DEF OnlyThread, DataStep, TailStep, HeadStep, NodeStep
<1>10. NextStep(t)
  BY <1>4, <1>7, TheNodes DEF NextStep
<1>11. \A x \in InList : next'[x] = next[x]
  BY <1>6, <1>7, TheList
<1>12. InList' = InList /\ Depth' = Depth /\ ListOK'
  BY <1>2, <1>9, <1>11, ListFrame
<1>13. Moves(t)
  BY <1>2, <1>5, <1>6, <1>12 DEF Moves, QueueInv, NodesAccounted
<1>14. EnqOK(t)'
  BY <1>1, <1>2, <1>3, <1>4, <1>7 DEF EnqOK
<1>15. TailOK(t)' /\ DeqOK(t)'
  BY <1>3 DEF TailOK, TailReaders, Swings, DeqOK, Searching
<1>16. SameClass(t)
  BY <1>3 DEF SameClass, Linked, Searching
<1>17. TicketsOK' /\ SizeCountsElements'
  BY <1>2, <1>3, <1>12, <1>16, CountFrame
<1> QED
  BY <1>8, <1>9, <1>10, <1>12, <1>13, <1>14, <1>15, <1>17, StepInv

(* The exchange that links a node (line 98): the node it was read from is    *)
(* still the tail and the last of the list.                                  *)
LEMMA LinkExchange ==
    ASSUME QueueInv, NEW t \in Threads, EnqLink(t), next[loc[t].tail.ptr] = Code
    PROVE  /\ Goto(t, "EnqLink", "EnqSwing") /\ pc[t] = "EnqLink"
           /\ UNCHANGED <<head, tail, size, data, pool, loc>>
           /\ tail = loc[t].tail /\ tail.ptr \in InList /\ next[tail.ptr] = Code
           /\ loc[t].node \in Nodes /\ loc[t].node \in All /\ loc[t].node \notin InList
           /\ next[loc[t].node] = Code /\ data[loc[t].node] \in Values
           /\ next' = [next EXCEPT ![tail.ptr] = loc[t].node]
           /\ next'[tail.ptr] = loc[t].node /\ next'[loc[t].node] = Code
           /\ next' \in [All -> Codes]
           /\ \A x \in All : x # tail.ptr => next'[x] = next[x]
           /\ \A w \in Threads : pc[w] \in Unlinked => tail.ptr # loc[w].node
<1>1. /\ Goto(t, "EnqLink", "EnqSwing") /\ pc[t] = "EnqLink"
      /\ UNCHANGED <<head, tail, size, data, pool, loc>>
      /\ next' = [next EXCEPT ![loc[t].tail.ptr] = loc[t].node]
  BY DEF EnqLink, Goto, queueVars
<1>2. /\ tail = loc[t].tail /\ next[loc[t].node] = Code /\ data[loc[t].node] \in Values
      /\ \A w \in Threads : pc[w] \in Unlinked => tail.ptr # loc[w].node
  BY <1>1 DEF QueueInv, EnqOK, Unlinked
<1>3. tail.ptr \in InList /\ tail.ptr \in All /\ next[tail.ptr] = Code
  BY <1>2, TheList DEF QueueInv, ListOK
<1>4. Owned(t) = {loc[t].node}
  BY <1>1 DEF Owned, Unlinked
<1>5. loc[t].node \in Nodes /\ loc[t].node \in All /\ loc[t].node \notin InList
  BY <1>4, NothingElse, TheNext, TheNodes
<1>6. /\ next' \in [All -> Codes] /\ next'[tail.ptr] = loc[t].node
      /\ \A x \in All : x # tail.ptr => next'[x] = next[x]
  BY <1>1, <1>2, <1>3, <1>5 DEF QueueInv, TypeOK, Codes
<1>7. next'[loc[t].node] = Code
  BY <1>2, <1>3, <1>5, <1>6
<1> QED
  BY <1>1, <1>2, <1>3, <1>5, <1>6, <1>7

LEMMA LinkedBehind ==
    ASSUME QueueInv, NEW t \in Threads, EnqLink(t), next[loc[t].tail.ptr] = Code
    PROVE  /\ HasChain(head.ptr, next, All, Code)'
           /\ InList' = InList \cup {loc[t].node}
           /\ Depth \in Nat /\ Depth' = Depth + 1
           /\ \A i \in 1 .. Depth + 1 : List'[i - 1] = List[i - 1]
           /\ List'[Depth + 1] = loc[t].node
<1> DEFINE b == head.ptr
           n == loc[t].node
           x == tail.ptr
           g == next'
           m == Length(Walk(b, next, All, Code), All)
<1>1. /\ head' = head /\ x \in InList /\ next[x] = Code /\ n \in All /\ n \notin InList
      /\ g[x] = n /\ g[n] = Code /\ \A z \in All : z # x => g[z] = next[z]
  BY LinkExchange
<1>2. /\ HasChain(b, next, All, Code) /\ InList \subseteq All
      /\ InList = Listed(Walk(b, next, All, Code), All)
  BY TheList
<1>3. /\ x \in Listed(Walk(b, next, All, Code), All)
      /\ n \notin Listed(Walk(b, next, All, Code), All)
      /\ \A z \in Listed(Walk(b, next, All, Code), All) \ {x} : g[z] = next[z]
  BY <1>1, <1>2
<1> HIDE DEF b, n, x, g
<1>4. HasChain(b, g, All, Code)
  BY <1>1, <1>2, <1>3, TheNodes, AppendedList
<1>5. Listed(Walk(b, g, All, Code), All) = Listed(Walk(b, next, All, Code), All) \cup {n}
  BY <1>1, <1>2, <1>3, TheNodes, AppendedList
<1>6. m \in Nat \ {0} /\ Length(Walk(b, g, All, Code), All) = m + 1
  BY <1>1, <1>2, <1>3, TheNodes, AppendedList
<1>7. \A i \in 1 .. m : Walk(b, g, All, Code)[i - 1] = Walk(b, next, All, Code)[i - 1]
  BY <1>1, <1>2, <1>3, TheNodes, AppendedList
<1>8. Walk(b, g, All, Code)[m] = n
  BY <1>1, <1>2, <1>3, TheNodes, AppendedList
<1>9. /\ List = Walk(b, next, All, Code) /\ List' = Walk(b, g, All, Code)
      /\ InList' = Listed(Walk(b, g, All, Code), All)
      /\ Depth = m - 1 /\ Depth' = Length(Walk(b, g, All, Code), All) - 1
  BY <1>1 DEF List, InList, Depth, All, b, g
<1>10. HasChain(head.ptr, next, All, Code)'
  BY <1>1, <1>4 DEF b, g
<1> HIDE DEF m
<1>11. Depth \in Nat /\ Depth' = Depth + 1 /\ Depth + 1 = m
  BY ONLY <1>6, <1>9
<1> QED
  BY <1>2, <1>5, <1>7, <1>8, <1>9, <1>10, <1>11 DEF n

LEMMA EnqLinks ==
    ASSUME QueueInv, NEW t \in Threads, EnqLink(t), next[loc[t].tail.ptr] = Code
    PROVE  QueueInv'
<1> DEFINE n == loc[t].node
<1>1. TypeOK /\ TailOK(t)
  BY DEF QueueInv
<1>2. /\ Goto(t, "EnqLink", "EnqSwing") /\ pc[t] = "EnqLink"
      /\ UNCHANGED <<head, tail, size, data, pool, loc>>
      /\ tail = loc[t].tail /\ tail.ptr \in InList /\ next[tail.ptr] = Code
      /\ n \in Nodes /\ n \in All /\ n \notin InList /\ data[n] \in Values
      /\ next'[tail.ptr] = n /\ next'[n] = Code
      /\ next' \in [All -> Codes]
      /\ \A x \in All : x # tail.ptr => next'[x] = next[x]
      /\ \A w \in Threads : pc[w] \in Unlinked => tail.ptr # loc[w].node
  BY LinkExchange
<1>3. /\ HasChain(head.ptr, next, All, Code)' /\ InList' = InList \cup {n}
      /\ Depth \in Nat /\ Depth' = Depth + 1
  BY LinkedBehind
<1>4. /\ pc'[t] = "EnqSwing"
      /\ \A u \in Threads \ {t} : pc'[u] = pc[u]
      /\ pc' \in [Threads -> Pcs]
  BY <1>1, <1>2, GotoOnly DEF Pcs, Enqueuing, Linked
<1> HIDE DEF n
<1>5. TypeOK'
  BY <1>1, <1>2, <1>4 DEF TypeOK, Pcs, Locals
<1>6. OnlyThread(t) /\ DataStep /\ TailStep /\ HeadStep /\ NodeStep(t)
  BY <1>2, <1>4 DEF OnlyThread, DataStep, TailStep, HeadStep, NodeStep, Unlinked
<1>7. n # Code /\ n # Null
  BY <1>2, TheNodes
<1>8. NextStep(t)
  BY <1>2, <1>7 DEF NextStep
<1>9. ListOK'
  <2>1. \A x \in InList \ {head.ptr} : data[x] \in Values
    BY DEF QueueInv, ListOK
  <2> QED
    BY <1>2, <1>3, <2>1 DEF ListOK
<1>10. Owned(t) = {n} /\ Owned(t)' = {}
  BY <1>2, <1>4 DEF Owned, Unlinked, n
<1>11. Moves(t)
  BY <1>2, <1>3, <1>10 DEF Moves, QueueInv, NodesAccounted
<1>12. EnqOK(t)' /\ DeqOK(t)'
  BY <1>4 DEF EnqOK, Unlinked, DeqOK, Searching
<1>13. TailOK(t)'
  <2>1. tail.tag <= tail.tag
    BY <1>1 DEF TypeOK
  <2> QED
    BY <1>2, <1>4, <1>7, <2>1 DEF TailOK, Swings, n
<1>14. /\ pc[t] \notin Linked /\ pc'[t] \in Linked
       /\ pc[t] \in Searching <=> pc'[t] \in Searching
       /\ pc[t] \in {"DeqRefuse"} <=> pc'[t] \in {"DeqRefuse"}
  BY <1>2, <1>4 DEF Linked, Searching
<1>15. /\ Holding(Linked) \in Nat /\ Holding(Searching) \in Nat /\ Holding({"DeqRefuse"}) \in Nat
       /\ Holding(Linked)' = Holding(Linked) + 1
       /\ Holding(Searching)' = Holding(Searching)
       /\ Holding({"DeqRefuse"})' = Holding({"DeqRefuse"})
  BY <1>4, <1>14, HoldingStep
<1>16. /\ size = Depth - Holding(Linked) - Holding(Searching) - Holding({"DeqRefuse"})
       /\ size + Holding({"DeqRefuse"}) >= 0
  BY DEF QueueInv, SizeCountsElements, TicketsOK
<1>17. TicketsOK' /\ SizeCountsElements'
  BY <1>2, <1>3, <1>15, <1>16 DEF TicketsOK, SizeCountsElements
<1> QED
  BY <1>5, <1>6, <1>8, <1>9, <1>11, <1>12, <1>13, <1>17, StepInv

(* The exchange of _head (line 146): _head and its successor are what they   *)
(* were when they were read, and _tail has left the node that comes out.     *)
LEMMA HeadExchange ==
    ASSUME QueueInv, NEW t \in Threads, DeqCas(t), head = loc[t].head
    PROVE  /\ Goto(t, "DeqCas", "DeqFree") /\ pc[t] = "DeqCas"
           /\ UNCHANGED <<tail, size, next, data, pool, loc>>
           /\ head' = Pointer(loc[t].next, head.tag + 1)
           /\ head'.ptr = loc[t].next /\ head'.tag = head.tag + 1
           /\ next[head.ptr] = head'.ptr /\ loc[t].next \in Nodes
           /\ tail.ptr # head.ptr
           /\ loc[t].val = data[loc[t].next] /\ data[loc[t].next] \in Values
           /\ loc[t].next \in InList /\ loc[t].next # head.ptr
<1>1. /\ Goto(t, "DeqCas", "DeqFree") /\ pc[t] = "DeqCas"
      /\ UNCHANGED <<tail, size, next, data, pool, loc>>
      /\ head' = Pointer(loc[t].next, head.tag + 1)
  BY DEF DeqCas, Goto, nodeVars, NewHead
<1>2. /\ next[head.ptr] = loc[t].next /\ loc[t].next \in Nodes /\ tail.ptr # head.ptr
      /\ loc[t].val = data[loc[t].next]
  BY <1>1 DEF QueueInv, DeqOK
<1>3. head'.ptr = loc[t].next /\ head'.tag = head.tag + 1
  BY <1>1 DEF Pointer
<1>4. loc[t].next # Code
  BY <1>2, TheNodes
<1>5. loc[t].next \in InList /\ loc[t].next # head.ptr
  BY <1>2, <1>4, TheList, TheNext
<1>6. data[loc[t].next] \in Values
  BY <1>5, BehindHead
<1> QED
  BY <1>1, <1>2, <1>3, <1>5, <1>6

LEMMA FirstOut ==
    ASSUME QueueInv, NEW t \in Threads, DeqCas(t), head = loc[t].head
    PROVE  /\ HasChain(head.ptr, next, All, Code)'
           /\ InList' = InList \ {head.ptr}
           /\ Depth' \in Nat /\ Depth = Depth' + 1
           /\ \A i \in 1 .. Depth : List[i] = List'[i - 1]
<1> DEFINE b == head.ptr
           c == next[b]
           m == Length(Walk(c, next, All, Code), All)
<1>1. next' = next /\ head'.ptr = c
  BY HeadExchange
<1>2. /\ HasChain(b, next, All, Code) /\ b \in All
      /\ InList = Listed(Walk(b, next, All, Code), All)
  BY TheList
<1> HIDE DEF b
<1>3. /\ HasChain(c, next, All, Code)
      /\ Listed(Walk(c, next, All, Code), All) = Listed(Walk(b, next, All, Code), All) \ {b}
  BY <1>2, TheNodes, PoppedList
<1>4. /\ m \in Nat /\ Length(Walk(b, next, All, Code), All) = m + 1
      /\ \A i \in 1 .. m : Walk(b, next, All, Code)[i] = Walk(c, next, All, Code)[i - 1]
  BY <1>2, TheNodes, PoppedWalk
<1>5. /\ List = Walk(b, next, All, Code) /\ List' = Walk(c, next, All, Code)
      /\ InList' = Listed(Walk(c, next, All, Code), All)
      /\ Depth = Length(Walk(b, next, All, Code), All) - 1 /\ Depth' = m - 1
  BY <1>1 DEF List, InList, Depth, All, b
<1>6. HasChain(head.ptr, next, All, Code)'
  BY <1>1, <1>3
<1>7. m # 0
  <2>1. c \in Nodes
    BY HeadExchange DEF b
  <2>2. c \in All
    BY <2>1, TheNodes
  <2> HIDE DEF c
  <2>3. /\ m = Cardinality(Listed(Walk(c, next, All, Code), All))
        /\ c \in Listed(Walk(c, next, All, Code), All)
        /\ Listed(Walk(c, next, All, Code), All) \subseteq All
    BY <1>3, <2>2, TheNodes, ListCounted
  <2>4. IsFiniteSet(Listed(Walk(c, next, All, Code), All))
    BY <2>3, TheNodes, FS_Subset
  <2> QED
    BY <2>3, <2>4, FS_EmptySet
<1> HIDE DEF m, c
<1>8. Depth' \in Nat /\ Depth = Depth' + 1 /\ Depth = m
  BY ONLY <1>4, <1>5, <1>7
<1> QED
  BY <1>2, <1>3, <1>4, <1>5, <1>6, <1>8 DEF b

LEMMA DeqTakes ==
    ASSUME QueueInv, NEW t \in Threads, DeqCas(t), head = loc[t].head
    PROVE  QueueInv'
<1>1. TypeOK
  BY DEF QueueInv
<1>2. /\ Goto(t, "DeqCas", "DeqFree") /\ pc[t] = "DeqCas"
      /\ UNCHANGED <<tail, size, next, data, pool, loc>>
      /\ head' = Pointer(loc[t].next, head.tag + 1)
      /\ head'.ptr = loc[t].next /\ head'.tag = head.tag + 1
      /\ loc[t].next \in Nodes /\ tail.ptr # head.ptr
      /\ loc[t].val \in Values
  BY HeadExchange
<1>3. /\ HasChain(head.ptr, next, All, Code)' /\ InList' = InList \ {head.ptr}
      /\ Depth' \in Nat /\ Depth = Depth' + 1
  BY FirstOut
<1>4. /\ pc'[t] = "DeqFree"
      /\ \A u \in Threads \ {t} : pc'[u] = pc[u]
      /\ pc' \in [Threads -> Pcs]
  BY <1>1, <1>2, GotoOnly DEF Pcs
<1>5. head' \in [ptr : All, tag : Nat]
  <2>1. head.tag + 1 \in Nat /\ loc[t].next \in All
    BY <1>1, <1>2, TheNodes DEF TypeOK
  <2> QED
    BY <1>2, <2>1 DEF Pointer
<1>6. TypeOK'
  BY <1>1, <1>2, <1>4, <1>5 DEF TypeOK, Pcs, Locals
<1>7. OnlyThread(t) /\ NextStep(t) /\ DataStep /\ TailStep /\ HeadStep /\ NodeStep(t)
  BY <1>2, <1>4 DEF OnlyThread, NextStep, DataStep, TailStep, HeadStep, NodeStep, Unlinked
<1>8. ListOK'
  <2>1. /\ \A x \in InList \ {head.ptr} : data[x] \in Values
        /\ tail.ptr \in InList
        /\ next[tail.ptr] # Code => next[next[tail.ptr]] = Code
    BY DEF QueueInv, ListOK
  <2> QED
    BY <1>2, <1>3, <2>1 DEF ListOK
<1>9. Owned(t) = {} /\ Owned(t)' = {head.ptr} \ {Dummy}
  BY <1>2, <1>4 DEF Owned, Unlinked
<1>10. head.ptr \in InList
  BY TheList
<1>11. Moves(t)
  BY <1>2, <1>3, <1>9, <1>10 DEF Moves, QueueInv, NodesAccounted
<1>12. EnqOK(t)' /\ TailOK(t)'
  BY <1>4 DEF EnqOK, Unlinked, TailOK, TailReaders, Swings
<1>13. DeqOK(t)'
  <2>1. loc[t].head.ptr \in All
    BY <1>1 DEF TypeOK
  <2> QED
    BY <1>2, <1>4, <2>1 DEF DeqOK, Searching
<1>14. /\ pc[t] \in Linked <=> pc'[t] \in Linked
       /\ pc[t] \in Searching /\ pc'[t] \notin Searching
       /\ pc[t] \in {"DeqRefuse"} <=> pc'[t] \in {"DeqRefuse"}
  BY <1>2, <1>4 DEF Linked, Searching
<1>15. /\ Holding(Linked) \in Nat /\ Holding(Searching) \in Nat /\ Holding({"DeqRefuse"}) \in Nat
       /\ Holding(Linked)' = Holding(Linked)
       /\ Holding(Searching)' = Holding(Searching) - 1
       /\ Holding({"DeqRefuse"})' = Holding({"DeqRefuse"})
  BY <1>4, <1>14, HoldingStep
<1>16. /\ size = Depth - Holding(Linked) - Holding(Searching) - Holding({"DeqRefuse"})
       /\ size + Holding({"DeqRefuse"}) >= 0
  BY DEF QueueInv, SizeCountsElements, TicketsOK
<1>17. TicketsOK' /\ SizeCountsElements'
  BY <1>2, <1>3, <1>15, <1>16 DEF TicketsOK, SizeCountsElements
<1> QED
  BY <1>6, <1>7, <1>8, <1>11, <1>12, <1>13, <1>17, StepInv

LEMMA DeqFreeInv ==
    ASSUME QueueInv, NEW t \in Threads, DeqFree(t)
    PROVE  QueueInv'
<1> DEFINE S == {loc[t].head.ptr} \ {Dummy}
<1>1. TypeOK
  BY DEF QueueInv
<1>2. /\ Return(t, "DeqFree") /\ pool' = pool \cup S
      /\ UNCHANGED <<head, tail, size, next, data>>
  BY DEF DeqFree, Free, queueVars, nodeVars
<1>3. /\ pc[t] = "DeqFree" /\ pc'[t] = "idle" /\ OnlyThread(t)
      /\ pc' \in [Threads -> Pcs] /\ loc' \in [Threads -> Locals]
  BY <1>1, <1>2, ReturnOnly
<1>4. Owned(t) = S /\ Owned(t)' = {}
  BY <1>3 DEF Owned, Unlinked
<1> HIDE DEF S
<1>5. S \subseteq Nodes
  BY <1>4, NothingElse
<1>6. TypeOK'
  BY <1>1, <1>2, <1>3, <1>5 DEF TypeOK, Pcs, Locals
<1>7. NextStep(t) /\ DataStep /\ TailStep /\ HeadStep /\ NodeStep(t)
  BY <1>2, <1>3 DEF NextStep, DataStep, TailStep, HeadStep, NodeStep, Unlinked
<1>8. InList' = InList /\ Depth' = Depth /\ ListOK'
  BY <1>2, <1>7, ListFrame
<1>9. Dummy \notin S /\ S \cap (pool \cup InList) = {}
  BY <1>4, <1>5, TheNodes DEF QueueInv, NodesAccounted
<1>10. Moves(t)
  BY <1>2, <1>4, <1>8, <1>9 DEF Moves, QueueInv, NodesAccounted
<1>11. EnqOK(t)' /\ TailOK(t)' /\ DeqOK(t)'
  BY <1>3 DEF EnqOK, Unlinked, TailOK, TailReaders, Swings, DeqOK, Searching
<1>12. SameClass(t)
  BY <1>3 DEF SameClass, Linked, Searching
<1>13. TicketsOK' /\ SizeCountsElements'
  BY <1>2, <1>3, <1>8, <1>12, CountFrame DEF OnlyThread
<1> QED
  BY <1>3, <1>6, <1>7, <1>8, <1>10, <1>11, <1>13, StepInv

-----------------------------------------------------------------------------
LEMMA InitQueueInv ==
    ASSUME Init
    PROVE  QueueInv
<1>1. TypeOK
  <2>1. Pointer(Dummy, 0) \in [ptr : All, tag : Nat]
    BY DEF Pointer, All
  <2> QED
    BY <2>1, NoLocalsType DEF Init, TypeOK, Locals, All, Codes
<1>2. /\ head.ptr = Dummy /\ tail.ptr = Dummy /\ Dummy \in All /\ next[Dummy] = Code
  BY DEF Init, Pointer, All
<1>3. HasChain(Code, next, All, Code)
  BY TheNodes, EmptyList
<1>4. Listed(Walk(Code, next, All, Code), All) = {}
  BY <1>3, TheNodes, ListCounted
<1>5. /\ HasChain(Dummy, next, All, Code)
      /\ Listed(Walk(Dummy, next, All, Code), All) = {Dummy}
  BY <1>2, <1>3, <1>4, TheNodes, PushedList
<1>6. Length(Walk(Dummy, next, All, Code), All) = 1
  BY <1>2, <1>5, TheNodes, SingleNode
<1>7. InList = {Dummy} /\ Depth = 0
  BY <1>2, <1>5, <1>6 DEF InList, Depth, List, All
<1>8. ListOK
  BY <1>2, <1>5, <1>7 DEF ListOK
<1>9. \A t \in Threads : pc[t] = "idle"
  BY DEF Init
<1>10. \A t \in Threads : EnqOK(t) /\ TailOK(t) /\ DeqOK(t)
  BY <1>9 DEF EnqOK, Unlinked, TailOK, TailReaders, Swings, DeqOK, Searching
<1>11. ASSUME NEW W, "idle" \notin W
       PROVE  Holding(W) = 0
  <2>1. {t \in Threads : pc[t] \in W} = {}
    BY <1>9, <1>11
  <2> QED
    BY <2>1, FS_EmptySet DEF Holding
<1>12. Holding(Linked) = 0 /\ Holding(Searching) = 0 /\ Holding({"DeqRefuse"}) = 0
  BY <1>11 DEF Linked, Searching
<1>13. TicketsOK /\ SizeCountsElements
  BY <1>7, <1>12 DEF TicketsOK, SizeCountsElements, Init
<1>14. \A t \in Threads : Owned(t) = {}
  BY <1>9 DEF Owned, Unlinked
<1>15. NodesAccounted
  <2>1. Cardinality(InList) = Depth + 1
    BY <1>7, FS_Singleton
  <2>2. UNION {Owned(t) : t \in Threads} = {}
    BY <1>14
  <2>3. pool = Nodes /\ Dummy \notin Nodes
    BY TheNodes DEF Init
  <2>4. pool \cup InList \cup UNION {Owned(t) : t \in Threads} = Nodes \cup {Dummy}
    BY <1>7, <2>2, <2>3
  <2> QED
    BY <1>7, <1>14, <2>1, <2>3, <2>4 DEF NodesAccounted
<1> QED
  BY <1>1, <1>8, <1>10, <1>13, <1>15 DEF QueueInv

LEMMA NextQueueInv ==
    ASSUME QueueInv, [Next]_vars
    PROVE  QueueInv'
<1>1. ASSUME NEW t \in Threads, NEW v \in Values, NEW n \in Usable, Enqueue(t, v, n)
      PROVE  QueueInv'
  BY <1>1, EnqueueInv
<1>2. ASSUME NEW t \in Threads, Dequeue(t)
      PROVE  QueueInv'
  BY <1>2, DequeueInv
<1>3. ASSUME NEW t \in Threads, Step(t)
      PROVE  QueueInv'
  <2>1. EnqLink(t) => QueueInv'
    BY EnqLinks, EnqLinkFails
  <2>2. DeqCas(t) => QueueInv'
    BY DeqTakes, DeqCasFails
  <2> QED
    BY <1>3, <2>1, <2>2, EnqInitInv, EnqTailInv, EnqNextInv, EnqHelpInv, EnqSwingInv,
       EnqCountInv, DeqRefuseInv, DeqHeadInv, DeqNextInv, DeqCheckInv, DeqTailInv,
       DeqTailNextInv, DeqHelpInv, DeqReadInv, DeqFreeInv DEF Step
<1>4. CASE UNCHANGED vars
  <2>1. UNCHANGED <<head, tail, size, next, data, pool, pc, loc>>
    BY <1>4 DEF vars, queueVars, nodeVars
  <2>2. List' = List
    BY <2>1 DEF List
  <2>3. InList' = InList /\ Depth' = Depth
    BY <2>2 DEF InList, Depth
  <2>4. \A t \in Threads : Owned(t)' = Owned(t)
    BY <2>1 DEF Owned
  <2>5. TypeOK'
    BY <2>1 DEF QueueInv, TypeOK
  <2>6. ListOK'
    BY <2>1, <2>3 DEF QueueInv, ListOK
  <2>7. \A t \in Threads : EnqOK(t)' /\ TailOK(t)' /\ DeqOK(t)'
    BY <2>1 DEF QueueInv, EnqOK, TailOK, Swings, DeqOK
  <2>8. NodesAccounted'
    BY <2>1, <2>3, <2>4 DEF QueueInv, NodesAccounted
  <2>9. TicketsOK' /\ SizeCountsElements'
    BY <2>1, <2>3 DEF QueueInv, TicketsOK, SizeCountsElements, Holding
  <2> QED
    BY <2>5, <2>6, <2>7, <2>8, <2>9 DEF QueueInv
<1> QED
  BY <1>1, <1>2, <1>3, <1>4 DEF Next

(* The inductive invariant holds of every execution of Enqueue and Dequeue   *)
(* (CLockFreeQueue.h:80-153) whose callers keep the rule of Usable.          *)
THEOREM QueueInvariant == Spec => []QueueInv
<1>1. Init => QueueInv
  BY InitQueueInv
<1>2. QueueInv /\ [Next]_vars => QueueInv'
  BY NextQueueInv
<1> QED
  BY <1>1, <1>2, PTL DEF Spec

(* No node is lost, linked twice or given to two threads, and _dummy never   *)
(* enters the pool, whatever the number of threads: Enqueue links a node     *)
(* with an exchange of _myCode that compares no tag (line 98), and Dequeue   *)
(* frees the node before its element (line 148).                             *)
THEOREM QueueNodesSafe == Spec => []NodesAccounted
<1>1. QueueInv => NodesAccounted
  BY DEF QueueInv
<1> QED
  BY <1>1, QueueInvariant, PTL

(* _size counts the linked elements that nobody has reserved, so a Dequeue   *)
(* that its decrement lets through (line 114) always finds an element.       *)
THEOREM SizeExact == Spec => []SizeCountsElements
<1>1. QueueInv => SizeCountsElements
  BY DEF QueueInv
<1> QED
  BY <1>1, QueueInvariant, PTL

-----------------------------------------------------------------------------
(* Refinement of TicketQueue *)

Tickets == size + Holding({"DeqRefuse"})

(* the elements are the nodes behind the head *)
LEMMA Elements ==
    ASSUME QueueInv
    PROVE  /\ Depth \in Nat /\ List[0] = head.ptr
           /\ \A i \in 1 .. Depth : List[i] \in InList /\ List[i] \in Nodes
           /\ Content \in Seq(Values) /\ Len(Content) = Depth
<1> DEFINE b == head.ptr
           c == next[b]
           m == Length(Walk(c, next, All, Code), All)
<1>1. HasChain(b, next, All, Code) /\ b \in All /\ InList = Listed(Walk(b, next, All, Code), All)
  BY TheList
<1>2. List = Walk(b, next, All, Code) /\ Depth = Length(Walk(b, next, All, Code), All) - 1
  BY DEF List, Depth, All
<1> HIDE DEF b
<1>3. /\ HasChain(c, next, All, Code)
      /\ Listed(Walk(c, next, All, Code), All) = InList \ {b}
  BY <1>1, TheNodes, PoppedList
<1>4. /\ m \in Nat /\ Length(Walk(b, next, All, Code), All) = m + 1
      /\ Walk(b, next, All, Code)[0] = b
      /\ \A i \in 1 .. m : Walk(b, next, All, Code)[i] = Walk(c, next, All, Code)[i - 1]
  BY <1>1, TheNodes, PoppedWalk
<1> HIDE DEF c
<1>5. \A i \in 1 .. m : Walk(c, next, All, Code)[i - 1] \in Listed(Walk(c, next, All, Code), All)
  BY <1>3, TheNodes, WalkListed
<1> HIDE DEF m
<1>6. Depth = m
  BY ONLY <1>2, <1>4
<1>7. ASSUME NEW i \in 1 .. Depth
      PROVE  List[i] \in InList /\ List[i] \in Nodes /\ data[List[i]] \in Values
  <2>1. List[i] \in InList /\ List[i] # b
    BY <1>2, <1>3, <1>4, <1>5, <1>6, <1>7
  <2> QED
    BY <2>1, BehindHead DEF b
<1>8. Content \in Seq(Values) /\ Len(Content) = Depth
  <2>1. Depth \in Nat
    BY <1>4, <1>6
  <2> HIDE DEF Depth, List
  <2>2. Content \in [1 .. Depth -> Values]
    BY <1>7 DEF Content
  <2> QED
    BY <2>1, <2>2
<1> QED
  BY <1>2, <1>4, <1>6, <1>7, <1>8 DEF b

LEMMA SameContent ==
    ASSUME QueueInv, NEW t \in Threads, head' = head, DataStep, TailStep,
           \A x \in InList : next'[x] = next[x]
    PROVE  Content' = Content
<1>1. List' = List /\ Depth' = Depth
  BY ListFrame
<1>2. \A i \in 1 .. Depth : data'[List[i]] = data[List[i]]
  BY Elements, TheNext DEF DataStep
<1> HIDE DEF List, Depth
<1> QED
  BY <1>1, <1>2 DEF Content

(* what the other threads do is what they did *)
LEMMA OthersSame ==
    ASSUME QueueInv, NEW t \in Threads, OnlyThread(t), NextStep(t), DataStep,
           NEW u \in Threads \ {t}
    PROVE  Operation(u)' = Operation(u)
<1>1. pc'[u] = pc[u] /\ loc'[u] = loc[u]
  BY DEF OnlyThread
<1>2. CASE pc[u] \in Unlinked
  <2>1. data'[loc[u].node] = data[loc[u].node]
    BY <1>2, OthersNode
  <2> QED
    BY <1>1, <2>1 DEF Operation
<1>3. CASE pc[u] \notin Unlinked
  BY <1>1, <1>3 DEF Operation
<1> QED
  BY <1>2, <1>3

LEMMA Becomes ==
    ASSUME QueueInv, NEW t \in Threads, OnlyThread(t), NextStep(t), DataStep,
           NEW from, NEW to, Operation(t) = from, Operation(t)' = to
    PROVE  Abstract!Become(t, from, to)
<1>1. \A u \in Threads \ {t} : Operation(u)' = Operation(u)
  BY OthersSame
<1> QED
  BY <1>1 DEF Abstract!Become

(* what a thread does at each place *)
LEMMA Operations ==
    ASSUME NEW t \in Threads
    PROVE  /\ pc[t] = "idle" => Operation(t) = Abstract!Idle
           /\ pc[t] \in Unlinked => Operation(t) = Abstract!Enqueues(data[loc[t].node])
           /\ pc[t] \in Linked => Operation(t) = Abstract!Publishes
           /\ pc[t] = "DeqRefuse" => Operation(t) = Abstract!Refused
           /\ pc[t] \in Searching => Operation(t) = Abstract!Reserved
           /\ pc[t] = "DeqFree" => Operation(t) = Abstract!Took(loc[t].val)
  BY DEF Operation, Unlinked, Linked, Searching, Abstract!Idle, Abstract!Enqueues,
         Abstract!Publishes, Abstract!Refused, Abstract!Reserved, Abstract!Took

LEMMA OperationsAfter ==
    ASSUME NEW t \in Threads
    PROVE  /\ pc'[t] = "idle" => Operation(t)' = Abstract!Idle
           /\ pc'[t] \in Unlinked => Operation(t)' = Abstract!Enqueues(data'[loc'[t].node])
           /\ pc'[t] \in Linked => Operation(t)' = Abstract!Publishes
           /\ pc'[t] = "DeqRefuse" => Operation(t)' = Abstract!Refused
           /\ pc'[t] \in Searching => Operation(t)' = Abstract!Reserved
           /\ pc'[t] = "DeqFree" => Operation(t)' = Abstract!Took(loc'[t].val)
  BY DEF Operation, Unlinked, Linked, Searching, Abstract!Idle, Abstract!Enqueues,
         Abstract!Publishes, Abstract!Refused, Abstract!Reserved, Abstract!Took

(* how many tickets there are after a step *)
LEMMA TicketStep ==
    ASSUME QueueInv, NEW t \in Threads, OnlyThread(t), size' \in Int
    PROVE  /\ Tickets \in Nat
           /\ (pc[t] = "DeqRefuse" <=> pc'[t] = "DeqRefuse") =>
                 Tickets' = size' + Holding({"DeqRefuse"})
           /\ pc[t] # "DeqRefuse" /\ pc'[t] = "DeqRefuse" =>
                 Tickets' = size' + Holding({"DeqRefuse"}) + 1
           /\ pc[t] = "DeqRefuse" /\ pc'[t] # "DeqRefuse" =>
                 Tickets' = size' + Holding({"DeqRefuse"}) - 1
           /\ Holding({"DeqRefuse"}) \in Nat /\ size \in Int
<1> DEFINE W == {"DeqRefuse"}
<1>1. \A u \in Threads \ {t} : pc'[u] = pc[u]
  BY DEF OnlyThread
<1>2. /\ Holding(W) \in Nat /\ Holding(W)' \in Nat
      /\ (pc[t] \in W <=> pc'[t] \in W) => Holding(W)' = Holding(W)
      /\ pc[t] \notin W /\ pc'[t] \in W => Holding(W)' = Holding(W) + 1
      /\ pc[t] \in W /\ pc'[t] \notin W => Holding(W)' = Holding(W) - 1
  BY <1>1, HoldingStep
<1>3. size \in Int /\ size + Holding(W) >= 0
  BY DEF QueueInv, TypeOK, TicketsOK
<1> QED
  BY <1>2, <1>3 DEF Tickets

(* a call of Enqueue *)
LEMMA RefineEnqueue ==
    ASSUME QueueInv, NEW t \in Threads, NEW v \in Values, NEW n, Enqueue(t, v, n)
    PROVE  Abstract!Enqueue(t)
<1>1. TypeOK
  BY DEF QueueInv
<1>2. data' = [data EXCEPT ![n] = v] /\ loc' = [loc EXCEPT ![t].node = n]
  BY DEF Enqueue
<1>3. Goto(t, "idle", "EnqInit") /\ UNCHANGED <<head, tail, size, next>> /\ size' \in Int
  BY DEF Enqueue, queueVars, QueueInv, TypeOK
<1>4. /\ pc[t] = "idle" /\ pc'[t] = "EnqInit"
      /\ \A u \in Threads \ {t} : pc'[u] = pc[u]
  BY <1>1, <1>3, GotoOnly
<1>5. n \in pool /\ n \in Nodes
  BY <1>1 DEF Enqueue, TypeOK
<1>6. loc'[t].node = n /\ \A u \in Threads \ {t} : loc'[u] = loc[u]
  BY <1>1, <1>2, <1>5, LocNode
<1>7. data'[n] = v /\ \A x \in Nodes : x # n => data'[x] = data[x]
  BY <1>1, <1>2, <1>5 DEF TypeOK
<1>8. OnlyThread(t) /\ NextStep(t) /\ TailStep /\ DataStep
  BY <1>3, <1>4, <1>5, <1>6, <1>7 DEF OnlyThread, NextStep, TailStep, DataStep
<1>9. Content' = Content
  BY <1>3, <1>8, SameContent
<1>10. Tickets' = Tickets
  BY <1>3, <1>4, <1>8, TicketStep DEF Tickets
<1>11. Operation(t) = Abstract!Idle /\ Operation(t)' = Abstract!Enqueues(v)
  BY <1>4, <1>6, <1>7, Operations, OperationsAfter DEF Unlinked
<1>12. Abstract!Become(t, Abstract!Idle, Abstract!Enqueues(v))
  BY <1>8, <1>11, Becomes
<1> QED
  BY <1>9, <1>10, <1>12 DEF Abstract!Enqueue, Tickets

(* Enqueue links its node: the element is in the queue *)
LEMMA RefineLink ==
    ASSUME QueueInv, NEW t \in Threads, EnqLink(t), next[loc[t].tail.ptr] = Code
    PROVE  Abstract!Link(t)
<1> DEFINE n == loc[t].node
<1>1. TypeOK
  BY DEF QueueInv
<1>2. /\ Goto(t, "EnqLink", "EnqSwing") /\ pc[t] = "EnqLink"
      /\ UNCHANGED <<head, tail, size, data, pool, loc>>
      /\ next[tail.ptr] = Code /\ n \in Nodes /\ data[n] \in Values
      /\ next'[tail.ptr] = n
      /\ \A x \in All : x # tail.ptr => next'[x] = next[x]
      /\ \A w \in Threads : pc[w] \in Unlinked => tail.ptr # loc[w].node
  BY LinkExchange
<1>3. /\ Depth \in Nat /\ Depth' = Depth + 1
      /\ \A i \in 1 .. Depth + 1 : List'[i - 1] = List[i - 1]
      /\ List'[Depth + 1] = n
  BY LinkedBehind
<1>4. pc'[t] = "EnqSwing" /\ \A u \in Threads \ {t} : pc'[u] = pc[u]
  BY <1>1, <1>2, GotoOnly
<1>5. OnlyThread(t) /\ DataStep
  BY <1>2, <1>4 DEF OnlyThread, DataStep
<1>6. NextStep(t)
  BY <1>2, TheNodes DEF NextStep
<1>7. Operation(t) = Abstract!Enqueues(data[n]) /\ Operation(t)' = Abstract!Publishes
  BY <1>2, <1>4, Operations, OperationsAfter DEF Unlinked, Linked
<1>8. Abstract!Become(t, Abstract!Enqueues(data[n]), Abstract!Publishes)
  BY <1>5, <1>6, <1>7, Becomes
<1>9. Tickets' = Tickets
  <2>1. size' \in Int
    BY <1>1, <1>2 DEF TypeOK
  <2> QED
    BY <1>2, <1>4, <1>5, <2>1, TicketStep DEF Tickets
<1>10. Content' = Append(Content, data[n])
  <2> HIDE DEF n, Depth, List
  <2>1. Content' = [i \in 1 .. Depth + 1 |-> data[List'[i]]]
    BY <1>2, <1>3 DEF Content
  <2>2. Content \in Seq(Values) /\ Len(Content) = Depth
    BY Elements
  <2>3. Append(Content, data[n]) \in Seq(Values) /\ Len(Append(Content, data[n])) = Depth + 1
    BY <1>2, <2>2
  <2>4. ASSUME NEW i \in 1 .. Depth
        PROVE  data[List'[i]] = Append(Content, data[n])[i]
    <3>1. i + 1 \in 1 .. Depth + 1 /\ (i + 1) - 1 = i
      BY <1>3, <2>4
    <3>2. List'[i] = List[i]
      BY <1>3, <3>1
    <3>3. Append(Content, data[n])[i] = Content[i]
      BY <1>2, <2>2, <2>4
    <3>4. Content[i] = data[List[i]]
      BY <2>4 DEF Content
    <3> QED
      BY <3>2, <3>3, <3>4
  <2>5. data[List'[Depth + 1]] = Append(Content, data[n])[Depth + 1]
    BY <1>2, <1>3, <2>2
  <2>6. \A i \in 1 .. Depth + 1 : data[List'[i]] = Append(Content, data[n])[i]
    <3> SUFFICES ASSUME NEW i \in 1 .. Depth + 1
                 PROVE  data[List'[i]] = Append(Content, data[n])[i]
      OBVIOUS
    <3>1. i \in 1 .. Depth \/ i = Depth + 1
      BY <1>3
    <3> QED
      BY <2>4, <2>5, <3>1
  <2>7. Append(Content, data[n]) = [i \in 1 .. Depth + 1 |-> Append(Content, data[n])[i]]
    BY <1>3, <2>3
  <2> QED
    BY <2>1, <2>6, <2>7
<1> QED
  BY <1>2, <1>8, <1>9, <1>10 DEF Abstract!Link, Tickets

(* Enqueue counts its element *)
LEMMA RefinePublish ==
    ASSUME QueueInv, NEW t \in Threads, EnqCount(t)
    PROVE  Abstract!Publish(t)
<1>1. TypeOK
  BY DEF QueueInv
<1>2. Return(t, "EnqCount") /\ size' = size + 1 /\ UNCHANGED <<head, tail, next, data>>
  BY DEF EnqCount, nodeVars
<1>3. pc[t] = "EnqCount" /\ pc'[t] = "idle" /\ OnlyThread(t)
  BY <1>1, <1>2, ReturnOnly
<1>4. NextStep(t) /\ DataStep /\ TailStep
  BY <1>2 DEF NextStep, DataStep, TailStep
<1>5. Content' = Content
  BY <1>2, <1>4, SameContent
<1>6. Tickets' = Tickets + 1
  <2>1. size' \in Int
    BY <1>1, <1>2 DEF TypeOK
  <2> QED
    BY <1>2, <1>3, <2>1, TicketStep DEF Tickets
<1>7. Operation(t) = Abstract!Publishes /\ Operation(t)' = Abstract!Idle
  BY <1>3, Operations, OperationsAfter DEF Linked
<1>8. Abstract!Become(t, Abstract!Publishes, Abstract!Idle)
  BY <1>3, <1>4, <1>7, Becomes
<1> QED
  BY <1>5, <1>6, <1>8 DEF Abstract!Publish, Tickets

(* a call of Dequeue reserves an element, or is refused *)
LEMMA RefineDequeue ==
    ASSUME QueueInv, NEW t \in Threads, Dequeue(t)
    PROVE  Abstract!Reserve(t) \/ Abstract!Refuse(t)
<1> DEFINE there == IF size - 1 < 0 THEN "DeqRefuse" ELSE "DeqHead"
<1>1. TypeOK
  BY DEF QueueInv
<1>2. /\ Goto(t, "idle", there) /\ size' = size - 1
      /\ UNCHANGED <<head, tail, next, data, loc>> /\ size' \in Int
  BY DEF Dequeue, nodeVars, QueueInv, TypeOK
<1>3. /\ pc[t] = "idle" /\ pc'[t] = there
      /\ \A u \in Threads \ {t} : pc'[u] = pc[u]
  BY <1>1, <1>2, GotoOnly
<1>4. OnlyThread(t) /\ NextStep(t) /\ DataStep /\ TailStep
  BY <1>2, <1>3 DEF OnlyThread, NextStep, DataStep, TailStep
<1>5. Content' = Content
  BY <1>2, <1>4, SameContent
<1>6. Operation(t) = Abstract!Idle
  BY <1>3, Operations
<1>7. CASE size - 1 < 0
  <2>1. pc'[t] = "DeqRefuse"
    BY <1>3, <1>7
  <2>2. Operation(t)' = Abstract!Refused
    BY <2>1, OperationsAfter
  <2>3. Abstract!Become(t, Abstract!Idle, Abstract!Refused)
    BY <1>4, <1>6, <2>2, Becomes
  <2>4. Tickets' = Tickets
    BY <1>2, <1>3, <1>4, <2>1, TicketStep DEF Tickets
  <2>5. Tickets = 0 \/ Holding({"DeqRefuse"}) # 0
    BY <1>2, <1>4, <1>7, TicketStep DEF Tickets
  <2>6. Holding({"DeqRefuse"}) # 0 => \E u \in Threads \ {t} : Operation(u) = Abstract!Refused
    <3> SUFFICES ASSUME Holding({"DeqRefuse"}) # 0
                 PROVE  \E u \in Threads \ {t} : Operation(u) = Abstract!Refused
      OBVIOUS
    <3>1. {u \in Threads : pc[u] \in {"DeqRefuse"}} # {}
      BY FS_EmptySet DEF Holding
    <3>2. PICK u \in Threads : pc[u] = "DeqRefuse"
      BY <3>1
    <3> QED
      BY <1>3, <3>2, Operations
  <2>7. Abstract!Refuse(t)
    BY <1>5, <2>3, <2>4, <2>5, <2>6 DEF Abstract!Refuse, Tickets
  <2> QED
    BY <2>7
<1>8. CASE ~(size - 1 < 0)
  <2>1. pc'[t] = "DeqHead"
    BY <1>3, <1>8
  <2>2. Operation(t)' = Abstract!Reserved
    BY <2>1, OperationsAfter DEF Searching
  <2>3. Abstract!Become(t, Abstract!Idle, Abstract!Reserved)
    BY <1>4, <1>6, <2>2, Becomes
  <2>4. Tickets > 0 /\ Tickets' = Tickets - 1
    BY <1>2, <1>3, <1>4, <1>8, <2>1, TicketStep DEF Tickets
  <2>5. Abstract!Reserve(t)
    BY <1>5, <2>3, <2>4 DEF Abstract!Reserve, Tickets
  <2> QED
    BY <2>5
<1> QED
  BY <1>7, <1>8

LEMMA FirstAndRest ==
    ASSUME NEW S, NEW s \in Seq(S), NEW k \in Nat, Len(s) = k + 1
    PROVE  /\ s # << >> /\ Head(s) = s[1]
           /\ Tail(s) = [i \in 1 .. k |-> s[i + 1]]
<1>1. s # << >> /\ Head(s) = s[1]
  OBVIOUS
<1>2. /\ Tail(s) \in Seq(S) /\ Len(Tail(s)) = k
      /\ \A i \in 1 .. k : Tail(s)[i] = s[i + 1]
  BY <1>1
<1>3. Tail(s) = [i \in 1 .. k |-> Tail(s)[i]]
  <2> DEFINE h == Tail(s)
  <2>1. h \in Seq(S) /\ Len(h) = k
    BY <1>2
  <2> HIDE DEF h
  <2>2. h = [i \in 1 .. k |-> h[i]]
    BY <2>1
  <2> QED
    BY <2>2 DEF h
<1> QED
  BY <1>1, <1>2, <1>3

(* the exchange of _head takes the first element *)
LEMMA RefineTake ==
    ASSUME QueueInv, NEW t \in Threads, DeqCas(t), head = loc[t].head
    PROVE  Abstract!Take(t)
<1>1. TypeOK
  BY DEF QueueInv
<1>2. /\ Goto(t, "DeqCas", "DeqFree") /\ pc[t] = "DeqCas"
      /\ UNCHANGED <<tail, size, next, data, pool, loc>>
      /\ head'.ptr = loc[t].next /\ loc[t].val = data[loc[t].next]
  BY HeadExchange
<1>3. /\ Depth' \in Nat /\ Depth = Depth' + 1
      /\ \A i \in 1 .. Depth : List[i] = List'[i - 1]
  BY FirstOut
<1>4. pc'[t] = "DeqFree" /\ \A u \in Threads \ {t} : pc'[u] = pc[u]
  BY <1>1, <1>2, GotoOnly
<1>5. OnlyThread(t) /\ NextStep(t) /\ DataStep
  BY <1>2, <1>4 DEF OnlyThread, NextStep, DataStep
<1>6. Operation(t) = Abstract!Reserved /\ Operation(t)' = Abstract!Took(loc[t].val)
  BY <1>2, <1>4, Operations, OperationsAfter DEF Searching
<1>7. Abstract!Become(t, Abstract!Reserved, Abstract!Took(loc[t].val))
  BY <1>5, <1>6, Becomes
<1>8. Tickets' = Tickets
  <2>1. size' \in Int
    BY <1>1, <1>2 DEF TypeOK
  <2> QED
    BY <1>2, <1>4, <1>5, <2>1, TicketStep DEF Tickets
<1>9. List'[0] = loc[t].next
  <2>1. HasChain(head'.ptr, next, All, Code) /\ head'.ptr \in All
    BY <1>2, FirstOut, HeadExchange, TheNodes
  <2>2. Walk(head'.ptr, next, All, Code)[0] = head'.ptr
    <3> DEFINE c == head'.ptr
    <3>1. HasChain(c, next, All, Code) /\ c \in All
      BY <2>1
    <3> HIDE DEF c
    <3>2. Walk(c, next, All, Code)[0] = c
      BY <3>1, TheNodes, PoppedWalk
    <3> QED
      BY <3>2 DEF c
  <2> QED
    BY <1>2, <2>2 DEF List, All
<1>10. /\ Content # << >> /\ Head(Content) = loc[t].val
       /\ Content' = Tail(Content)
  <2> DEFINE k == Depth'
             d == Depth
             w == List'
  <2>1. /\ k \in Nat /\ d = k + 1 /\ \A i \in 1 .. d : List[i] = w[i - 1]
        /\ w[0] = loc[t].next
    BY <1>3, <1>9
  <2>2. /\ Content \in Seq(Values) /\ Len(Content) = d
        /\ Content = [i \in 1 .. d |-> data[List[i]]]
    BY Elements DEF Content
  <2>3. Content' = [i \in 1 .. k |-> data[w[i]]]
    BY <1>2 DEF Content
  <2> HIDE DEF k, d, w, List
  <2>4. /\ Content # << >> /\ Head(Content) = Content[1]
        /\ Tail(Content) = [i \in 1 .. k |-> Content[i + 1]]
    BY <2>1, <2>2, FirstAndRest
  <2>5. Content[1] = loc[t].val
    <3>1. 1 \in 1 .. d /\ 1 - 1 = 0
      BY <2>1
    <3>2. List[1] = w[0]
      BY <2>1, <3>1
    <3> QED
      BY <1>2, <2>1, <2>2, <3>1, <3>2
  <2>6. ASSUME NEW i \in 1 .. k
        PROVE  data[w[i]] = Content[i + 1]
    <3>1. i + 1 \in 1 .. d /\ (i + 1) - 1 = i
      BY <2>1, <2>6
    <3>2. Content[i + 1] = data[List[i + 1]] /\ List[i + 1] = w[i]
      BY <2>1, <2>2, <3>1
    <3> QED
      BY <3>2
  <2> QED
    BY <2>3, <2>4, <2>5, <2>6
<1> QED
  BY <1>7, <1>8, <1>10 DEF Abstract!Take, Tickets

(* a Dequeue returns, with the element it has taken or refused *)
LEMMA RefineReturn ==
    ASSUME QueueInv, NEW t \in Threads, DeqRefuse(t) \/ DeqFree(t)
    PROVE  Abstract!Return(t)
<1>1. TypeOK /\ DeqOK(t)
  BY DEF QueueInv
<1>2. UNCHANGED <<head, tail, next, data>>
  BY DEF DeqRefuse, DeqFree, queueVars, nodeVars
<1>3. NextStep(t) /\ DataStep /\ TailStep
  BY <1>2 DEF NextStep, DataStep, TailStep
<1>4. Content' = Content
  BY <1>2, <1>3, SameContent
<1>5. CASE DeqRefuse(t)
  <2>1. Return(t, "DeqRefuse") /\ size' = size + 1
    BY <1>5 DEF DeqRefuse
  <2>2. pc[t] = "DeqRefuse" /\ pc'[t] = "idle" /\ OnlyThread(t) /\ size' \in Int
    BY <1>1, <2>1, ReturnOnly DEF TypeOK
  <2>3. Tickets' = Tickets
    BY <2>1, <2>2, TicketStep DEF Tickets
  <2>4. Operation(t) = Abstract!Refused /\ Operation(t)' = Abstract!Idle
    BY <2>2, Operations, OperationsAfter
  <2>5. Abstract!Become(t, Abstract!Refused, Abstract!Idle)
    BY <1>3, <2>2, <2>4, Becomes
  <2> QED
    BY <1>4, <2>3, <2>5 DEF Abstract!Return, Tickets
<1>6. CASE DeqFree(t)
  <2>1. Return(t, "DeqFree") /\ size' = size
    BY <1>6 DEF DeqFree, queueVars
  <2>2. pc[t] = "DeqFree" /\ pc'[t] = "idle" /\ OnlyThread(t) /\ size' \in Int
    BY <1>1, <2>1, ReturnOnly DEF TypeOK
  <2>3. Tickets' = Tickets
    BY <2>1, <2>2, TicketStep DEF Tickets
  <2>4. loc[t].val \in Values
    BY <1>1, <2>2 DEF DeqOK
  <2>5. Operation(t) = Abstract!Took(loc[t].val) /\ Operation(t)' = Abstract!Idle
    BY <2>2, Operations, OperationsAfter
  <2>6. Abstract!Become(t, Abstract!Took(loc[t].val), Abstract!Idle)
    BY <1>3, <2>2, <2>5, Becomes
  <2> QED
    BY <1>4, <2>3, <2>4, <2>6 DEF Abstract!Return, Tickets
<1> QED
  BY <1>5, <1>6

(* a step that the abstract queue does not see *)
LEMMA Unseen ==
    ASSUME QueueInv, NEW t \in Threads, OnlyThread(t), NextStep(t), TailStep,
           UNCHANGED <<head, size, data>>, \A x \in InList : next'[x] = next[x],
           \/ pc[t] \in Unlinked /\ pc'[t] \in Unlinked /\ loc'[t].node = loc[t].node
           \/ pc[t] \in Linked /\ pc'[t] \in Linked
           \/ pc[t] \in Searching /\ pc'[t] \in Searching
    PROVE  UNCHANGED Abstract!vars
<1>1. DataStep
  BY DEF DataStep
<1>2. Operation(t)' = Operation(t)
  BY Operations, OperationsAfter
<1>3. \A u \in Threads : Operation(u)' = Operation(u)
  BY <1>1, <1>2, OthersSame
<1>4. Content' = Content
  BY <1>1, SameContent
<1>5. Tickets' = Tickets
  <2>1. size' \in Int
    BY DEF QueueInv, TypeOK
  <2>2. pc[t] # "DeqRefuse" /\ pc'[t] # "DeqRefuse"
    BY DEF Unlinked, Linked, Searching
  <2> QED
    BY <2>1, <2>2, TicketStep DEF Tickets
<1> QED
  BY <1>3, <1>4, <1>5 DEF Abstract!vars, Tickets

LEMMA RefineHiddenEnqueue ==
    ASSUME QueueInv, NEW t \in Threads,
           \/ EnqInit(t) \/ EnqTail(t) \/ EnqNext(t) \/ EnqHelp(t) \/ EnqSwing(t)
           \/ EnqLink(t) /\ next[loc[t].tail.ptr] # Code
    PROVE  UNCHANGED Abstract!vars
<1>1. TypeOK /\ EnqOK(t) /\ TailOK(t)
  BY DEF QueueInv
<1>2. CASE EnqInit(t)
  <2> DEFINE n == loc[t].node
  <2>1. /\ Goto(t, "EnqInit", "EnqTail") /\ next' = [next EXCEPT ![n] = Code]
        /\ UNCHANGED <<head, tail, size, data, loc>>
    BY <1>2 DEF EnqInit, queueVars
  <2>2. /\ pc[t] = "EnqInit" /\ pc'[t] = "EnqTail"
        /\ \A u \in Threads \ {t} : pc'[u] = pc[u]
    BY <1>1, <2>1, GotoOnly
  <2>3. pc[t] \in Unlinked /\ pc'[t] \in Unlinked
    BY <2>2 DEF Unlinked
  <2>4. Owned(t) = {n}
    BY <2>3 DEF Owned
  <2>5. n \notin InList /\ n \in All
    BY <2>4, NothingElse, TheNext, TheNodes
  <2>6. next'[n] = Code /\ \A x \in All : x # n => next'[x] = next[x]
    BY <1>1, <2>1, <2>5 DEF TypeOK
  <2>7. NextStep(t)
    BY <2>3, <2>6, TheNodes DEF NextStep
  <2>8. \A x \in InList : next'[x] = next[x]
    BY <2>5, <2>6, TheList
  <2>9. OnlyThread(t) /\ TailStep
    BY <2>1, <2>2 DEF OnlyThread, TailStep
  <2> QED
    BY <2>1, <2>3, <2>7, <2>8, <2>9, Unseen
<1>3. CASE EnqTail(t)
  <2>1. /\ Goto(t, "EnqTail", "EnqNext") /\ loc' = [loc EXCEPT ![t].tail = tail]
        /\ UNCHANGED <<head, tail, size, next, data>>
    BY <1>3 DEF EnqTail, queueVars, nodeVars
  <2>2. /\ pc[t] = "EnqTail" /\ pc'[t] = "EnqNext"
        /\ \A u \in Threads \ {t} : pc'[u] = pc[u]
    BY <1>1, <2>1, GotoOnly
  <2>3. tail \in Tagged
    BY <1>1 DEF TypeOK, Tagged
  <2>4. loc'[t].node = loc[t].node /\ \A u \in Threads \ {t} : loc'[u] = loc[u]
    BY <1>1, <2>1, <2>3, LocTail
  <2>5. OnlyThread(t) /\ NextStep(t) /\ TailStep
    BY <2>1, <2>2, <2>4 DEF OnlyThread, NextStep, TailStep
  <2>6. pc[t] \in Unlinked /\ pc'[t] \in Unlinked
    BY <2>2 DEF Unlinked
  <2> QED
    BY <2>1, <2>4, <2>5, <2>6, Unseen
<1>4. CASE EnqNext(t)
  <2> DEFINE n == next[loc[t].tail.ptr]
  <2>1. /\ Goto(t, "EnqNext", IF n = Code THEN "EnqLink" ELSE "EnqHelp")
        /\ loc' = [loc EXCEPT ![t].next = n]
        /\ UNCHANGED <<head, tail, size, next, data>>
    BY <1>4 DEF EnqNext, queueVars, nodeVars
  <2>2. /\ pc[t] = "EnqNext" /\ pc'[t] = IF n = Code THEN "EnqLink" ELSE "EnqHelp"
        /\ \A u \in Threads \ {t} : pc'[u] = pc[u]
    BY <1>1, <2>1, GotoOnly
  <2>3. n \in Codes
    BY <1>1, <2>2 DEF TypeOK, EnqOK
  <2>4. loc'[t].node = loc[t].node /\ \A u \in Threads \ {t} : loc'[u] = loc[u]
    BY <1>1, <2>1, <2>3, LocNext
  <2>5. OnlyThread(t) /\ NextStep(t) /\ TailStep
    BY <2>1, <2>2, <2>4 DEF OnlyThread, NextStep, TailStep
  <2>6. pc[t] \in Unlinked /\ pc'[t] \in Unlinked
    BY <2>2 DEF Unlinked
  <2> QED
    BY <2>1, <2>4, <2>5, <2>6, Unseen
<1>5. CASE EnqLink(t) /\ next[loc[t].tail.ptr] # Code
  <2>1. Goto(t, "EnqLink", "EnqTail") /\ UNCHANGED <<head, tail, size, next, data, loc>>
    BY <1>5 DEF EnqLink, EnqRetry, queueVars
  <2>2. /\ pc[t] = "EnqLink" /\ pc'[t] = "EnqTail"
        /\ \A u \in Threads \ {t} : pc'[u] = pc[u]
    BY <1>1, <2>1, GotoOnly
  <2>3. OnlyThread(t) /\ NextStep(t) /\ TailStep
    BY <2>1, <2>2 DEF OnlyThread, NextStep, TailStep
  <2>4. pc[t] \in Unlinked /\ pc'[t] \in Unlinked
    BY <2>2 DEF Unlinked
  <2> QED
    BY <2>1, <2>3, <2>4, Unseen
<1>6. CASE EnqHelp(t)
  <2>1. /\ Goto(t, "EnqHelp", "EnqTail") /\ CasTail(t, loc[t].next)
        /\ UNCHANGED <<head, size, next, data, loc>>
    BY <1>6 DEF EnqHelp, nodeVars
  <2>2. /\ pc[t] = "EnqHelp" /\ pc'[t] = "EnqTail"
        /\ \A u \in Threads \ {t} : pc'[u] = pc[u]
    BY <1>1, <2>1, GotoOnly
  <2>3. TailStep
    BY <1>1, <2>1, <2>2, TailMoves DEF TailOK, Swings
  <2>4. OnlyThread(t) /\ NextStep(t)
    BY <2>1, <2>2 DEF OnlyThread, NextStep
  <2>5. pc[t] \in Unlinked /\ pc'[t] \in Unlinked
    BY <2>2 DEF Unlinked
  <2> QED
    BY <2>1, <2>3, <2>4, <2>5, Unseen
<1>7. CASE EnqSwing(t)
  <2>1. /\ Goto(t, "EnqSwing", "EnqCount") /\ CasTail(t, loc[t].node)
        /\ UNCHANGED <<head, size, next, data, loc>>
    BY <1>7 DEF EnqSwing, nodeVars
  <2>2. /\ pc[t] = "EnqSwing" /\ pc'[t] = "EnqCount"
        /\ \A u \in Threads \ {t} : pc'[u] = pc[u]
    BY <1>1, <2>1, GotoOnly
  <2>3. TailStep
    BY <1>1, <2>1, <2>2, TailMoves DEF TailOK, Swings
  <2>4. OnlyThread(t) /\ NextStep(t)
    BY <2>1, <2>2 DEF OnlyThread, NextStep
  <2>5. pc[t] \in Linked /\ pc'[t] \in Linked
    BY <2>2 DEF Linked
  <2> QED
    BY <2>1, <2>3, <2>4, <2>5, Unseen
<1> QED
  BY <1>2, <1>3, <1>4, <1>5, <1>6, <1>7

LEMMA RefineHiddenDequeue ==
    ASSUME QueueInv, NEW t \in Threads,
           \/ DeqHead(t) \/ DeqNext(t) \/ DeqCheck(t) \/ DeqTail(t) \/ DeqTailNext(t)
           \/ DeqHelp(t) \/ DeqRead(t)
           \/ DeqCas(t) /\ head # loc[t].head
    PROVE  UNCHANGED Abstract!vars
<1>1. TypeOK /\ DeqOK(t) /\ TailOK(t)
  BY DEF QueueInv
<1>2. UNCHANGED <<head, size, next, data>>
  BY DEF DeqHead, DeqNext, DeqCheck, DeqTail, DeqTailNext, DeqHelp, DeqRead, DeqCas,
         queueVars, nodeVars
<1>3. NextStep(t) /\ \A x \in InList : next'[x] = next[x]
  BY <1>2 DEF NextStep
<1>4. ASSUME NEW here, NEW there, Goto(t, here, there), here \in Searching, there \in Searching,
             TailStep, \A u \in Threads \ {t} : loc'[u] = loc[u]
      PROVE  UNCHANGED Abstract!vars
  <2>1. /\ pc[t] = here /\ pc'[t] = there
        /\ \A u \in Threads \ {t} : pc'[u] = pc[u]
    BY <1>1, <1>4, GotoOnly
  <2>2. OnlyThread(t)
    BY <1>4, <2>1 DEF OnlyThread
  <2> QED
    BY <1>2, <1>3, <1>4, <2>1, <2>2, Unseen
<1>5. CASE DeqHead(t)
  <2>1. Goto(t, "DeqHead", "DeqNext") /\ loc' = [loc EXCEPT ![t].head = head] /\ tail' = tail
    BY <1>5 DEF DeqHead, queueVars
  <2>2. TailStep /\ \A u \in Threads \ {t} : loc'[u] = loc[u]
    BY <1>1, <2>1 DEF TailStep, TypeOK
  <2> QED
    BY <1>4, <2>1, <2>2 DEF Searching
<1>6. CASE DeqNext(t)
  <2> DEFINE n == next[loc[t].head.ptr]
             there == IF n = Code THEN "DeqCheck" ELSE "DeqTail"
  <2>1. Goto(t, "DeqNext", there) /\ loc' = [loc EXCEPT ![t].next = n] /\ tail' = tail
    BY <1>6 DEF DeqNext, queueVars
  <2>2. TailStep /\ \A u \in Threads \ {t} : loc'[u] = loc[u]
    BY <1>1, <2>1 DEF TailStep, TypeOK
  <2>3. there \in Searching /\ "DeqNext" \in Searching
    BY DEF Searching
  <2> HIDE DEF there
  <2> QED
    BY <1>4, <2>1, <2>2, <2>3
<1>7. CASE DeqCheck(t)
  <2>1. pc[t] = "DeqCheck" /\ tail' = tail /\ Forget(t)
    BY <1>7 DEF DeqCheck, Goto, queueVars
  <2>2. head # loc[t].head
    BY <1>1, <2>1 DEF DeqOK
  <2>3. Goto(t, "DeqCheck", "DeqHead")
    BY <1>7, <2>2 DEF DeqCheck
  <2>4. TailStep /\ \A u \in Threads \ {t} : loc'[u] = loc[u]
    BY <1>1, <2>1, ForgetOnly DEF TailStep
  <2> QED
    BY <1>4, <2>3, <2>4 DEF Searching
<1>8. CASE DeqTail(t)
  <2>1. Goto(t, "DeqTail", "DeqTailNext") /\ loc' = [loc EXCEPT ![t].tail = tail] /\ tail' = tail
    BY <1>8 DEF DeqTail, queueVars
  <2>2. TailStep /\ \A u \in Threads \ {t} : loc'[u] = loc[u]
    BY <1>1, <2>1 DEF TailStep, TypeOK
  <2> QED
    BY <1>4, <2>1, <2>2 DEF Searching
<1>9. CASE DeqTailNext(t)
  <2> DEFINE n == next[loc[t].tail.ptr]
             there == IF n = Code THEN "DeqRead" ELSE "DeqHelp"
  <2>1. Goto(t, "DeqTailNext", there) /\ loc' = [loc EXCEPT ![t].tailNext = n] /\ tail' = tail
    BY <1>9 DEF DeqTailNext, queueVars
  <2>2. TailStep /\ \A u \in Threads \ {t} : loc'[u] = loc[u]
    BY <1>1, <2>1 DEF TailStep, TypeOK
  <2>3. there \in Searching /\ "DeqTailNext" \in Searching
    BY DEF Searching
  <2> HIDE DEF there
  <2> QED
    BY <1>4, <2>1, <2>2, <2>3
<1>10. CASE DeqHelp(t)
  <2>1. Goto(t, "DeqHelp", "DeqHead") /\ CasTail(t, loc[t].tailNext) /\ Forget(t)
    BY <1>10 DEF DeqHelp
  <2>2. pc[t] = "DeqHelp"
    BY <2>1 DEF Goto
  <2>3. TailStep
    BY <1>1, <2>1, <2>2, TailMoves DEF TailOK, Swings
  <2>4. \A u \in Threads \ {t} : loc'[u] = loc[u]
    BY <1>1, <2>1, ForgetOnly
  <2> QED
    BY <1>4, <2>1, <2>3, <2>4 DEF Searching
<1>11. CASE DeqRead(t)
  <2>1. /\ Goto(t, "DeqRead", "DeqCas") /\ tail' = tail
        /\ loc' = [loc EXCEPT ![t].val = data[loc[t].next], ![t].tail = NoLocals.tail]
    BY <1>11 DEF DeqRead, queueVars
  <2>2. TailStep /\ \A u \in Threads \ {t} : loc'[u] = loc[u]
    BY <1>1, <2>1 DEF TailStep, TypeOK
  <2> QED
    BY <1>4, <2>1, <2>2 DEF Searching
<1>12. CASE DeqCas(t) /\ head # loc[t].head
  <2>1. Goto(t, "DeqCas", "DeqHead") /\ Forget(t) /\ tail' = tail
    BY <1>12 DEF DeqCas
  <2>2. TailStep /\ \A u \in Threads \ {t} : loc'[u] = loc[u]
    BY <1>1, <2>1, ForgetOnly DEF TailStep
  <2> QED
    BY <1>4, <2>1, <2>2 DEF Searching
<1> QED
  BY <1>5, <1>6, <1>7, <1>8, <1>9, <1>10, <1>11, <1>12

LEMMA RefineStep ==
    ASSUME QueueInv, [Next]_vars
    PROVE  Abstract!Next \/ UNCHANGED Abstract!vars
<1>1. ASSUME NEW t \in Threads, NEW v \in Values, NEW n \in Usable, Enqueue(t, v, n)
      PROVE  Abstract!Next
  BY <1>1, RefineEnqueue DEF Abstract!Next
<1>2. ASSUME NEW t \in Threads, Dequeue(t)
      PROVE  Abstract!Next
  BY <1>2, RefineDequeue DEF Abstract!Next
<1>3. ASSUME NEW t \in Threads, Step(t)
      PROVE  Abstract!Next \/ UNCHANGED Abstract!vars
  <2>1. EnqLink(t) => Abstract!Next \/ UNCHANGED Abstract!vars
    BY RefineLink, RefineHiddenEnqueue DEF Abstract!Next
  <2>2. DeqCas(t) => Abstract!Next \/ UNCHANGED Abstract!vars
    BY RefineTake, RefineHiddenDequeue DEF Abstract!Next
  <2>3. EnqCount(t) => Abstract!Next
    BY RefinePublish DEF Abstract!Next
  <2>4. DeqRefuse(t) \/ DeqFree(t) => Abstract!Next
    BY RefineReturn DEF Abstract!Next
  <2>5. \/ EnqInit(t) \/ EnqTail(t) \/ EnqNext(t) \/ EnqHelp(t) \/ EnqSwing(t)
        => UNCHANGED Abstract!vars
    BY RefineHiddenEnqueue
  <2>6. \/ DeqHead(t) \/ DeqNext(t) \/ DeqCheck(t) \/ DeqTail(t) \/ DeqTailNext(t)
        \/ DeqHelp(t) \/ DeqRead(t)
        => UNCHANGED Abstract!vars
    BY RefineHiddenDequeue
  <2> QED
    BY <1>3, <2>1, <2>2, <2>3, <2>4, <2>5, <2>6 DEF Step
<1>4. CASE UNCHANGED vars
  <2>1. UNCHANGED <<head, size, next, data, pc, loc>>
    BY <1>4 DEF vars, queueVars, nodeVars
  <2>2. Content' = Content
    BY <2>1 DEF Content, Depth, List
  <2>3. \A t \in Threads : Operation(t)' = Operation(t)
    BY <2>1 DEF Operation
  <2>4. Tickets' = Tickets
    BY <2>1 DEF Tickets, Holding
  <2> QED
    BY <2>2, <2>3, <2>4 DEF Abstract!vars, Tickets
<1> QED
  BY <1>1, <1>2, <1>3, <1>4 DEF Next

(* CLockFreeQueue implements TicketQueue for every number of threads and     *)
(* nodes: elements come out in the order in which they were linked           *)
(* (CLockFreeQueue.h:98, 146), each of them once, and a Dequeue that its     *)
(* decrement of _size lets through never returns without one, which SendPost *)
(* relies on when it ignores what Dequeue returns (CNetServer.cpp:472).      *)
THEOREM QueueIsFifo == Spec => ImplementsTicketQueue
<1>1. Init => Abstract!Init
  <2> SUFFICES ASSUME Init
               PROVE  Abstract!Init
    OBVIOUS
  <2>1. QueueInv /\ head.ptr = Dummy /\ next[Dummy] = Code
    BY InitQueueInv DEF Init, Pointer
  <2>2. Depth = 0
    <3>1. Length(Walk(head.ptr, next, All, Code), All) = 1
      BY <2>1, TheList, TheNodes, SingleNode
    <3> QED
      BY <3>1 DEF Depth, List, All
  <2>3. Content = << >>
    BY <2>2 DEF Content
  <2>4. \A t \in Threads : pc[t] = "idle"
    BY DEF Init
  <2>5. \A t \in Threads : Operation(t) = Abstract!Idle
    BY <2>4, Operations
  <2>6. Tickets = 0
    <3>1. {t \in Threads : pc[t] \in {"DeqRefuse"}} = {}
      BY <2>4
    <3>2. Holding({"DeqRefuse"}) = 0
      BY <3>1, FS_EmptySet DEF Holding
    <3> QED
      BY <3>2 DEF Tickets, Init
  <2> QED
    BY <2>3, <2>5, <2>6 DEF Abstract!Init, Tickets
<1>2. QueueInv /\ [Next]_vars => [Abstract!Next]_(Abstract!vars)
  BY RefineStep
<1> QED
  BY <1>1, <1>2, QueueInvariant, PTL DEF Spec, ImplementsTicketQueue, Abstract!Spec
=============================================================================
