---------------------------- MODULE StackProofs -----------------------------
(***************************************************************************)
(* CLockFreeStack, for any threads, any finite set of nodes and any        *)
(* values: no node is lost or shared, and the stack is linearizable.       *)
(*                                                                         *)
(* StackInv is inductive.  Between the read of _uniqIdx and the exchange   *)
(* of a Pop no other Pop succeeded if _uniqIdx is the same, so the list    *)
(* has only grown on top of the node that was read, and nobody writes the  *)
(* _next field of a listed node.  Of another thread a step of t disturbs   *)
(* nothing but this (OthersOK); most steps move no node (QuietStep).       *)
(***************************************************************************)
EXTENDS CLockFreeStack, ContainerLemmas

Pcs == {"idle"} \cup Pushing \cup Popping \cup Taking
Ends == Nodes \cup {Dummy}
Locals == [node : Pointers, idx : Nat, other : Pointers, val : Values \cup {Empty}]

LEMMA NoLocalsType == NoLocals \in Locals
  BY DEF NoLocals, Locals, Pointers

-----------------------------------------------------------------------------
(* A step of thread t: the others stay where they are, a _next field changes *)
(* only in the node t owns and never to nullptr, a _data field only in a     *)
(* node of the pool.                                                         *)
OnlyThread(t) == \A u \in Threads \ {t} : pc'[u] = pc[u] /\ loc'[u] = loc[u]

OwnNext(t) == \A x \in Ends : next'[x] # next[x] => x \in Owned(t) /\ next'[x] # Null

OwnData == \A x \in Nodes : data'[x] # data[x] => x \in pool

LEMMA GotoOnly ==
    ASSUME TypeOK, NEW t \in Threads, NEW here, NEW there, Goto(t, here, there)
    PROVE  /\ pc[t] = here /\ pc'[t] = there
           /\ \A u \in Threads \ {t} : pc'[u] = pc[u]
           /\ there \in Pcs => pc' \in [Threads -> Pcs]
  BY DEF TypeOK, Goto, Pcs

LEMMA LocOnly ==
    ASSUME TypeOK, NEW t \in Threads, NEW l, loc' = [loc EXCEPT ![t] = l]
    PROVE  /\ loc'[t] = l
           /\ \A u \in Threads \ {t} : loc'[u] = loc[u]
           /\ l \in Locals => loc' \in [Threads -> Locals]
  BY DEF TypeOK, Locals

LEMMA ReturnOnly ==
    ASSUME TypeOK, NEW t \in Threads, NEW here, Return(t, here)
    PROVE  /\ pc[t] = here /\ pc'[t] = "idle" /\ OnlyThread(t)
           /\ pc' \in [Threads -> Pcs] /\ loc' \in [Threads -> Locals]
<1>1. Goto(t, here, "idle") /\ loc' = [loc EXCEPT ![t] = NoLocals]
  BY DEF Return
<1>2. /\ pc[t] = here /\ pc'[t] = "idle"
      /\ \A u \in Threads \ {t} : pc'[u] = pc[u]
      /\ pc' \in [Threads -> Pcs]
  BY <1>1, GotoOnly DEF Pcs
<1>3. (\A u \in Threads \ {t} : loc'[u] = loc[u]) /\ loc' \in [Threads -> Locals]
  BY <1>1, LocOnly, NoLocalsType
<1> QED
  BY <1>2, <1>3 DEF OnlyThread

(* a local variable is assigned *)
LEMMA LocField ==
    ASSUME TypeOK, NEW t \in Threads
    PROVE  \A x : /\ loc' = [loc EXCEPT ![t].node = x] =>
                        /\ loc'[t].node = x /\ loc'[t].idx = loc[t].idx
                        /\ \A u \in Threads \ {t} : loc'[u] = loc[u]
                        /\ x \in Pointers => loc' \in [Threads -> Locals]
                  /\ loc' = [loc EXCEPT ![t].idx = x] =>
                        /\ loc'[t].idx = x
                        /\ \A u \in Threads \ {t} : loc'[u] = loc[u]
                        /\ x \in Nat => loc' \in [Threads -> Locals]
                  /\ loc' = [loc EXCEPT ![t].other = x] =>
                        /\ loc'[t].other = x /\ loc'[t].node = loc[t].node
                        /\ loc'[t].idx = loc[t].idx
                        /\ \A u \in Threads \ {t} : loc'[u] = loc[u]
                        /\ x \in Pointers => loc' \in [Threads -> Locals]
                  /\ loc' = [loc EXCEPT ![t].val = x] =>
                        /\ loc'[t].val = x /\ loc'[t].node = loc[t].node
                        /\ \A u \in Threads \ {t} : loc'[u] = loc[u]
                        /\ x \in Values \cup {Empty} => loc' \in [Threads -> Locals]
<1>1. loc[t] \in Locals
  BY DEF TypeOK, Locals
<1>2. ASSUME NEW x, loc' = [loc EXCEPT ![t].node = x]
      PROVE  /\ loc'[t].node = x /\ loc'[t].idx = loc[t].idx
             /\ \A u \in Threads \ {t} : loc'[u] = loc[u]
             /\ x \in Pointers => loc' \in [Threads -> Locals]
  BY <1>1, <1>2 DEF TypeOK, Locals
<1>3. ASSUME NEW x, loc' = [loc EXCEPT ![t].idx = x]
      PROVE  /\ loc'[t].idx = x
             /\ \A u \in Threads \ {t} : loc'[u] = loc[u]
             /\ x \in Nat => loc' \in [Threads -> Locals]
  BY <1>1, <1>3 DEF TypeOK, Locals
<1>4. ASSUME NEW x, loc' = [loc EXCEPT ![t].other = x]
      PROVE  /\ loc'[t].other = x /\ loc'[t].node = loc[t].node
             /\ loc'[t].idx = loc[t].idx
             /\ \A u \in Threads \ {t} : loc'[u] = loc[u]
             /\ x \in Pointers => loc' \in [Threads -> Locals]
  BY <1>1, <1>4 DEF TypeOK, Locals
<1>5. ASSUME NEW x, loc' = [loc EXCEPT ![t].val = x]
      PROVE  /\ loc'[t].val = x /\ loc'[t].node = loc[t].node
             /\ \A u \in Threads \ {t} : loc'[u] = loc[u]
             /\ x \in Values \cup {Empty} => loc' \in [Threads -> Locals]
  BY <1>1, <1>5 DEF TypeOK, Locals
<1> QED
  BY <1>2, <1>3, <1>4, <1>5

-----------------------------------------------------------------------------
(* the list, in terms of walks *)
LEMMA TheList ==
    ASSUME StackInv
    PROVE  /\ Linked = Listed(Walk(top, next, Nodes, Dummy), Nodes)
           /\ Linked \subseteq Nodes
           /\ top \in Nodes => top \in Linked
           /\ top \notin Nodes => top = Dummy /\ Linked = {}
           /\ Depth = Cardinality(Linked)
<1>1. HasChain(top, next, Nodes, Dummy) /\ IsFiniteSet(Nodes) /\ Dummy \notin Nodes
  BY StackAssumption DEF StackInv, ListOK
<1>2. Linked = Listed(Walk(top, next, Nodes, Dummy), Nodes)
  BY DEF Linked, List
<1>3. /\ Listed(Walk(top, next, Nodes, Dummy), Nodes) \subseteq Nodes
      /\ top \in Nodes => top \in Listed(Walk(top, next, Nodes, Dummy), Nodes)
      /\ top \notin Nodes => top = Dummy /\ Listed(Walk(top, next, Nodes, Dummy), Nodes) = {}
  BY <1>1, ListCounted
<1> QED
  BY <1>2, <1>3 DEF StackInv, NodesAccounted

(* t moves nodes between the pool, the list and itself *)
Moves(t) ==
    /\ pool' \cup Linked' \cup Owned(t)' = pool \cup Linked \cup Owned(t)
    /\ pool' \cap Linked' = {}
    /\ Owned(t)' \cap (pool' \cup Linked') = {}

LEMMA AccountStep ==
    ASSUME NodesAccounted, NEW t \in Threads, OnlyThread(t), Moves(t), ListOK'
    PROVE  NodesAccounted'
<1> DEFINE Mine == pool \cup Linked \cup Owned(t)
           Others == UNION {Owned(u) : u \in Threads \ {t}}
<1>1. Depth' = Cardinality(Linked)'
  <2>1. HasChain(top', next', Nodes, Dummy)
    BY DEF ListOK
  <2>2. Length(Walk(top', next', Nodes, Dummy), Nodes) =
          Cardinality(Listed(Walk(top', next', Nodes, Dummy), Nodes))
    BY <2>1, StackAssumption, ListCounted
  <2> QED
    BY <2>2 DEF Depth, Linked, List
<1>2. \A u \in Threads \ {t} : Owned(u)' = Owned(u)
  BY DEF OnlyThread, Owned
<1>3. /\ pool \cup Linked \cup UNION {Owned(u) : u \in Threads} = Nodes
      /\ \A u \in Threads :
           /\ Owned(u) \cap (pool \cup Linked) = {}
           /\ \A v \in Threads \ {u} : Owned(u) \cap Owned(v) = {}
  BY DEF NodesAccounted
<1>4. UNION {Owned(u) : u \in Threads} = Owned(t) \cup Others
  OBVIOUS
<1>5. Mine \cup Others = Nodes
  BY <1>3, <1>4
<1>6. \A u \in Threads \ {t} : Owned(u) \cap Mine = {}
  BY <1>3
<1>7. pool' \cup Linked' \cup Owned(t)' = Mine
  BY DEF Moves
<1>8. UNION {Owned(u)' : u \in Threads} = Owned(t)' \cup Others
  BY <1>2
<1>9. pool' \cup Linked' \cup UNION {Owned(u)' : u \in Threads} = Nodes
  <2> HIDE DEF Mine, Others
  <2> QED
    BY <1>5, <1>7, <1>8
<1>10. \A u \in Threads \ {t} :
          /\ Owned(u)' \cap (pool' \cup Linked') = {}
          /\ Owned(u)' \cap Owned(t)' = {}
  <2> HIDE DEF Mine
  <2> QED
    BY <1>2, <1>6, <1>7
<1>11. \A u \in Threads : \A v \in Threads \ {u} : Owned(u)' \cap Owned(v)' = {}
  BY <1>2, <1>3, <1>10
<1>12. \A u \in Threads : Owned(u)' \cap (pool' \cup Linked') = {}
  BY <1>10 DEF Moves
<1> QED
  BY <1>1, <1>9, <1>11, <1>12 DEF NodesAccounted, Moves

(* what the other threads rely on *)
LEMMA OthersOK ==
    ASSUME StackInv, NEW t \in Threads, OnlyThread(t), OwnNext(t), OwnData,
           uniqIdx' \in Nat, uniqIdx <= uniqIdx',
           uniqIdx' = uniqIdx => Linked \subseteq Linked',
           NEW u \in Threads \ {t}
    PROVE  PushOK(u)' /\ PopOK(u)' /\ DataOK(u)'
<1>1. pc'[u] = pc[u] /\ loc'[u] = loc[u]
  BY DEF OnlyThread
<1>2. PushOK(u) /\ PopOK(u) /\ DataOK(u)
  BY DEF StackInv
<1>3. /\ Owned(t) \cap Linked = {} /\ Owned(t) \cap Owned(u) = {}
      /\ Owned(t) \subseteq Nodes /\ Owned(u) \subseteq Nodes /\ Owned(u) \cap pool = {}
      /\ Dummy \notin Nodes
  BY StackAssumption DEF StackInv, NodesAccounted
<1>4. uniqIdx \in Nat /\ loc[u].idx \in Nat
  BY DEF StackInv, TypeOK
<1>5. pc[u] \in Pushing \cup Taking => /\ next'[loc[u].node] = next[loc[u].node]
                                       /\ data'[loc[u].node] = data[loc[u].node]
  <2> SUFFICES ASSUME pc[u] \in Pushing \cup Taking
               PROVE  /\ next'[loc[u].node] = next[loc[u].node]
                      /\ data'[loc[u].node] = data[loc[u].node]
    OBVIOUS
  <2>1. loc[u].node \in Owned(u)
    BY DEF Owned
  <2> QED
    BY <1>3, <2>1 DEF OwnNext, OwnData, Ends
<1>6. PushOK(u)'
  BY <1>1, <1>2, <1>5 DEF PushOK, Pushing
<1>7. DataOK(u)'
  BY <1>1, <1>2, <1>5 DEF DataOK, Taking
<1>8. PopOK(u)'
  <2>1. pc[u] \in {"PopTop", "PopNext", "PopCas"} => loc[u].idx <= uniqIdx'
    BY <1>2, <1>4 DEF PopOK
  <2>2. pc[u] = "PopNext" => /\ loc[u].node \in Nodes \cup {Dummy}
                             /\ loc[u].node # Dummy => next'[loc[u].node] # Null
    BY <1>2 DEF PopOK, OwnNext, Ends
  <2>3. pc[u] = "PopCas" => loc[u].node \in Nodes /\ loc[u].other \in Nodes \cup {Dummy}
    BY <1>2 DEF PopOK
  <2>4. ASSUME pc[u] \in {"PopNext", "PopCas"}, loc[u].idx = uniqIdx'
        PROVE  /\ loc[u].node \in Linked' \cup {Dummy}
               /\ pc[u] = "PopCas" => next'[loc[u].node] = loc[u].other
    <3>1. uniqIdx' = uniqIdx /\ loc[u].idx = uniqIdx
      BY <1>2, <1>4, <2>4 DEF PopOK
    <3>2. /\ loc[u].node \in Linked \cup {Dummy}
          /\ pc[u] = "PopCas" => next[loc[u].node] = loc[u].other
      BY <1>2, <2>4, <3>1 DEF PopOK
    <3>3. loc[u].node \in Ends /\ loc[u].node \notin Owned(t)
      BY <1>3, <3>2, TheList DEF Ends
    <3> QED
      BY <3>1, <3>2, <3>3 DEF OwnNext
  <2> QED
    BY <1>1, <2>1, <2>2, <2>3, <2>4 DEF PopOK
<1> QED
  BY <1>6, <1>7, <1>8

(* what is left to show of a step *)
LEMMA StepInv ==
    ASSUME StackInv, NEW t \in Threads, OnlyThread(t), OwnNext(t), OwnData,
           uniqIdx <= uniqIdx', uniqIdx' = uniqIdx => Linked \subseteq Linked',
           PushOK(t)', PopOK(t)', DataOK(t)', Moves(t), TypeOK', ListOK'
    PROVE  StackInv'
<1>1. NodesAccounted'
  BY AccountStep DEF StackInv
<1>2. uniqIdx' \in Nat
  BY DEF TypeOK
<1>3. \A u \in Threads : PushOK(u)' /\ PopOK(u)' /\ DataOK(u)'
  BY <1>2, OthersOK
<1> QED
  BY <1>1, <1>3 DEF StackInv

(* a step that leaves the top alone *)
LEMMA ListFrame ==
    ASSUME StackInv, NEW t \in Threads, top' = top, OwnNext(t), OwnData
    PROVE  List' = List /\ Linked' = Linked /\ Depth' = Depth /\ ListOK'
<1>1. HasChain(top, next, Nodes, Dummy)
  BY DEF StackInv, ListOK
<1>2. /\ Linked = Listed(Walk(top, next, Nodes, Dummy), Nodes)
      /\ Linked \subseteq Nodes
  BY TheList
<1>3. /\ Owned(t) \cap Linked = {} /\ Owned(t) \subseteq Nodes /\ pool \cap Linked = {}
      /\ Dummy \notin Nodes
  BY StackAssumption DEF StackInv, NodesAccounted
<1>4. \A x \in Listed(Walk(top, next, Nodes, Dummy), Nodes) : next'[x] = next[x]
  BY <1>2, <1>3 DEF OwnNext, Ends
<1>5. /\ HasChain(top, next', Nodes, Dummy)
      /\ Walk(top, next', Nodes, Dummy) = Walk(top, next, Nodes, Dummy)
  BY <1>1, <1>4, StackAssumption, SameList
<1>6. List' = List /\ Linked' = Linked /\ Depth' = Depth
  BY <1>5 DEF List, Linked, Depth
<1>7. next'[Dummy] = Null
  BY <1>3 DEF OwnNext, Ends, StackInv, ListOK
<1>8. \A n \in Linked : next'[n] # Null /\ data'[n] \in Values
  BY <1>2, <1>3 DEF OwnNext, OwnData, Ends, StackInv, ListOK
<1> QED
  BY <1>5, <1>6, <1>7, <1>8 DEF ListOK

(* a step that moves no node *)
LEMMA QuietStep ==
    ASSUME StackInv, NEW t \in Threads, OnlyThread(t), UNCHANGED <<top, uniqIdx, data, pool>>,
           OwnNext(t), Owned(t)' = Owned(t),
           TypeOK', PushOK(t)', PopOK(t)', DataOK(t)'
    PROVE  StackInv'
<1>1. OwnData
  BY DEF OwnData
<1>2. Linked' = Linked /\ ListOK'
  BY <1>1, ListFrame
<1>3. Moves(t)
  BY <1>2 DEF Moves, StackInv, NodesAccounted
<1>4. uniqIdx <= uniqIdx'
  BY DEF StackInv, TypeOK
<1> QED
  BY <1>1, <1>2, <1>3, <1>4, StepInv

-----------------------------------------------------------------------------
(* Push *)

LEMMA PushInv ==
    ASSUME StackInv, NEW t \in Threads, NEW v \in Values, Push(t, v)
    PROVE  StackInv'
<1>1. TypeOK
  BY DEF StackInv
<1>2. PICK n \in pool : /\ pool' = pool \ {n}
                        /\ data' = [data EXCEPT ![n] = v]
                        /\ loc' = [loc EXCEPT ![t].node = n]
  BY DEF Push
<1>3. Goto(t, "idle", "PushLoad") /\ UNCHANGED <<top, uniqIdx, next>>
  BY DEF Push
<1>4. n \in Nodes /\ n \in Pointers /\ n \in pool
  BY <1>1, <1>2 DEF TypeOK, Pointers
<1>5. /\ pc[t] = "idle" /\ pc'[t] = "PushLoad"
      /\ \A u \in Threads \ {t} : pc'[u] = pc[u]
      /\ pc' \in [Threads -> Pcs]
  BY <1>1, <1>3, GotoOnly DEF Pcs, Pushing
<1>6. /\ loc'[t].node = n
      /\ \A u \in Threads \ {t} : loc'[u] = loc[u]
      /\ loc' \in [Threads -> Locals]
  BY <1>1, <1>2, <1>4, LocField
<1>7. TypeOK'
  BY <1>1, <1>2, <1>3, <1>5, <1>6 DEF TypeOK, Pcs, Locals
<1>8. OnlyThread(t) /\ OwnNext(t)
  BY <1>3, <1>5, <1>6 DEF OnlyThread, OwnNext
<1>9. OwnData
  BY <1>1, <1>2, <1>4 DEF OwnData, TypeOK
<1>10. Linked' = Linked /\ ListOK'
  BY <1>3, <1>8, <1>9, ListFrame
<1>11. Moves(t)
  <2>1. Owned(t)' = {n} /\ Owned(t) = {}
    BY <1>5, <1>6 DEF Owned, Pushing, Taking
  <2> QED
    BY <1>2, <1>4, <1>10, <2>1 DEF Moves, StackInv, NodesAccounted
<1>12. PushOK(t)' /\ PopOK(t)'
  BY <1>5 DEF PushOK, PopOK
<1>13. DataOK(t)'
  <2>1. data'[n] = v
    BY <1>1, <1>2, <1>4 DEF TypeOK
  <2> QED
    BY <1>5, <1>6, <2>1 DEF DataOK
<1>14. uniqIdx <= uniqIdx'
  BY <1>1, <1>3 DEF TypeOK
<1> QED
  BY <1>7, <1>8, <1>9, <1>10, <1>11, <1>12, <1>13, <1>14, StepInv

LEMMA PushLoadInv ==
    ASSUME StackInv, NEW t \in Threads, PushLoad(t)
    PROVE  StackInv'
<1>1. TypeOK /\ DataOK(t)
  BY DEF StackInv
<1>2. /\ Goto(t, "PushLoad", "PushLink")
      /\ loc' = [loc EXCEPT ![t].other = top]
      /\ UNCHANGED <<top, uniqIdx, next, data, pool>>
  BY DEF PushLoad, nodeVars
<1>3. /\ pc[t] = "PushLoad" /\ pc'[t] = "PushLink"
      /\ \A u \in Threads \ {t} : pc'[u] = pc[u]
      /\ pc' \in [Threads -> Pcs]
  BY <1>1, <1>2, GotoOnly DEF Pcs, Pushing
<1>4. /\ loc'[t].other = top /\ loc'[t].node = loc[t].node
      /\ \A u \in Threads \ {t} : loc'[u] = loc[u]
      /\ loc' \in [Threads -> Locals]
  BY <1>1, <1>2, LocField DEF TypeOK, Pointers
<1>5. TypeOK'
  BY <1>1, <1>2, <1>3, <1>4 DEF TypeOK, Pcs, Locals
<1>6. OnlyThread(t) /\ OwnNext(t)
  BY <1>2, <1>3, <1>4 DEF OnlyThread, OwnNext
<1>7. Owned(t)' = Owned(t)
  BY <1>3, <1>4 DEF Owned, Pushing
<1>8. PushOK(t)' /\ PopOK(t)'
  BY <1>1, <1>3, <1>4 DEF PushOK, PopOK, TypeOK
<1>9. DataOK(t)'
  BY <1>1, <1>2, <1>3, <1>4 DEF DataOK, Pushing
<1> QED
  BY <1>2, <1>5, <1>6, <1>7, <1>8, <1>9, QuietStep

LEMMA PushLinkInv ==
    ASSUME StackInv, NEW t \in Threads, PushLink(t)
    PROVE  StackInv'
<1>1. TypeOK /\ DataOK(t) /\ PushOK(t)
  BY DEF StackInv
<1>2. /\ Goto(t, "PushLink", "PushCas")
      /\ next' = [next EXCEPT ![loc[t].node] = loc[t].other]
      /\ UNCHANGED <<top, uniqIdx, data, pool, loc>>
  BY DEF PushLink
<1>3. /\ pc[t] = "PushLink" /\ pc'[t] = "PushCas"
      /\ \A u \in Threads \ {t} : pc'[u] = pc[u]
      /\ pc' \in [Threads -> Pcs]
  BY <1>1, <1>2, GotoOnly DEF Pcs, Pushing
<1>4. Owned(t) = {loc[t].node} /\ Owned(t)' = Owned(t)
  BY <1>2, <1>3 DEF Owned, Pushing
<1>5. loc[t].node \in Nodes /\ loc[t].other \in Ends /\ loc[t].other # Null
  BY <1>1, <1>3, <1>4, StackAssumption DEF StackInv, NodesAccounted, PushOK, Ends
<1>6. TypeOK'
  BY <1>1, <1>2, <1>3, <1>5 DEF TypeOK, Pcs, Ends, Pointers
<1>7. OnlyThread(t)
  BY <1>2, <1>3 DEF OnlyThread
<1>8. OwnNext(t)
  BY <1>1, <1>2, <1>4, <1>5 DEF OwnNext, TypeOK, Ends
<1>9. PushOK(t)' /\ PopOK(t)'
  <2>1. next'[loc[t].node] = loc[t].other
    BY <1>1, <1>2, <1>5 DEF TypeOK
  <2> QED
    BY <1>2, <1>3, <1>5, <2>1 DEF PushOK, PopOK, Ends
<1>10. DataOK(t)'
  BY <1>1, <1>2, <1>3 DEF DataOK, Pushing
<1> QED
  BY <1>2, <1>4, <1>6, <1>7, <1>8, <1>9, <1>10, QuietStep

(* the exchange of Push *)
LEMMA PushExchange ==
    ASSUME StackInv, NEW t \in Threads, PushCas(t), top = loc[t].other
    PROVE  /\ pc[t] = "PushCas" /\ Return(t, "PushCas") /\ top' = loc[t].node
           /\ UNCHANGED <<uniqIdx, next, data, pool>>
           /\ loc[t].node \in Nodes /\ loc[t].node \notin Linked /\ next[loc[t].node] = top
           /\ Owned(t) = {loc[t].node}
           /\ HasChain(top, next, Nodes, Dummy)' /\ Linked' = Linked \cup {loc[t].node}
<1> DEFINE n == loc[t].node
<1>1. /\ pc[t] = "PushCas" /\ Return(t, "PushCas") /\ top' = n
      /\ UNCHANGED <<uniqIdx, next, data, pool>>
  BY DEF PushCas, Return, Goto, nodeVars
<1>2. Owned(t) = {n}
  BY <1>1 DEF Owned, Pushing
<1>3. n \in Nodes /\ n \notin Linked
  BY <1>2 DEF StackInv, NodesAccounted
<1>4. next[n] = top
  BY <1>1 DEF StackInv, PushOK
<1>5. HasChain(top, next, Nodes, Dummy) /\ n \notin Listed(Walk(top, next, Nodes, Dummy), Nodes)
  BY <1>3, TheList DEF StackInv, ListOK
<1> HIDE DEF n
<1>6. /\ HasChain(n, next, Nodes, Dummy)
      /\ Listed(Walk(n, next, Nodes, Dummy), Nodes) =
            Listed(Walk(top, next, Nodes, Dummy), Nodes) \cup {n}
  BY <1>3, <1>4, <1>5, StackAssumption, PushedList
<1>7. HasChain(top, next, Nodes, Dummy)' /\ Linked' = Linked \cup {n}
  BY <1>1, <1>6 DEF Linked, List
<1> QED
  BY <1>1, <1>2, <1>3, <1>4, <1>7 DEF n

LEMMA PushCasInv ==
    ASSUME StackInv, NEW t \in Threads, PushCas(t)
    PROVE  StackInv'
<1>1. TypeOK /\ DataOK(t) /\ PushOK(t)
  BY DEF StackInv
<1>2. CASE top # loc[t].other
  <2>1. /\ Goto(t, "PushCas", "PushLoad")
        /\ UNCHANGED <<top, uniqIdx, next, data, pool, loc>>
    BY <1>2 DEF PushCas, PushRetry, nodeVars
  <2>2. /\ pc[t] = "PushCas" /\ pc'[t] = "PushLoad"
        /\ \A u \in Threads \ {t} : pc'[u] = pc[u]
        /\ pc' \in [Threads -> Pcs]
    BY <1>1, <2>1, GotoOnly DEF Pcs, Pushing
  <2>3. TypeOK'
    BY <1>1, <2>1, <2>2 DEF TypeOK, Pcs
  <2>4. OnlyThread(t) /\ OwnNext(t) /\ Owned(t)' = Owned(t)
    BY <2>1, <2>2 DEF OnlyThread, OwnNext, Owned, Pushing
  <2>5. PushOK(t)' /\ PopOK(t)' /\ DataOK(t)'
    BY <1>1, <2>1, <2>2 DEF PushOK, PopOK, DataOK, Pushing
  <2> QED
    BY <2>1, <2>3, <2>4, <2>5, QuietStep
<1>3. CASE top = loc[t].other
  <2> DEFINE n == loc[t].node
  <2>1. /\ pc[t] = "PushCas" /\ Return(t, "PushCas") /\ top' = n
        /\ UNCHANGED <<uniqIdx, next, data, pool>>
        /\ n \in Nodes /\ n \notin Linked /\ next[n] = top
        /\ Owned(t) = {n}
        /\ HasChain(top, next, Nodes, Dummy)' /\ Linked' = Linked \cup {n}
    BY <1>3, PushExchange
  <2>2. /\ pc'[t] = "idle" /\ OnlyThread(t)
        /\ pc' \in [Threads -> Pcs] /\ loc' \in [Threads -> Locals]
    BY <1>1, <2>1, ReturnOnly
  <2>3. TypeOK'
    BY <1>1, <2>1, <2>2 DEF TypeOK, Pcs, Locals
  <2>4. OwnNext(t) /\ OwnData
    BY <2>1 DEF OwnNext, OwnData
  <2>5. ListOK'
    <3>1. next[n] # Null
      BY <1>1, <2>1, StackAssumption DEF TypeOK
    <3>2. data[n] \in Values
      BY <1>1, <2>1 DEF DataOK, Pushing
    <3> HIDE DEF n
    <3> QED
      BY <2>1, <3>1, <3>2 DEF StackInv, ListOK
  <2>6. Moves(t)
    <3>1. Owned(t)' = {}
      BY <2>2 DEF Owned, Pushing, Taking
    <3> HIDE DEF n
    <3> QED
      BY <2>1, <3>1 DEF Moves, StackInv, NodesAccounted
  <2>7. PushOK(t)' /\ PopOK(t)' /\ DataOK(t)'
    BY <2>2 DEF PushOK, PopOK, DataOK, Pushing
  <2>8. uniqIdx <= uniqIdx' /\ Linked \subseteq Linked'
    BY <1>1, <2>1 DEF TypeOK
  <2> QED
    BY <2>2, <2>3, <2>4, <2>5, <2>6, <2>7, <2>8, StepInv
<1> QED
  BY <1>2, <1>3

-----------------------------------------------------------------------------
(* Pop *)

LEMMA PopInv ==
    ASSUME StackInv, NEW t \in Threads, Pop(t)
    PROVE  StackInv'
<1>1. TypeOK
  BY DEF StackInv
<1>2. /\ Goto(t, "idle", "PopIdx")
      /\ UNCHANGED <<top, uniqIdx, next, data, pool, loc>>
  BY DEF Pop, nodeVars
<1>3. /\ pc[t] = "idle" /\ pc'[t] = "PopIdx"
      /\ \A u \in Threads \ {t} : pc'[u] = pc[u]
      /\ pc' \in [Threads -> Pcs]
  BY <1>1, <1>2, GotoOnly DEF Pcs, Popping
<1>4. TypeOK'
  BY <1>1, <1>2, <1>3 DEF TypeOK, Pcs
<1>5. OnlyThread(t) /\ OwnNext(t) /\ Owned(t)' = Owned(t)
  BY <1>2, <1>3 DEF OnlyThread, OwnNext, Owned, Pushing, Taking
<1>6. PushOK(t)' /\ PopOK(t)' /\ DataOK(t)'
  BY <1>3 DEF PushOK, PopOK, DataOK, Pushing
<1> QED
  BY <1>2, <1>4, <1>5, <1>6, QuietStep

LEMMA PopIdxInv ==
    ASSUME StackInv, NEW t \in Threads, PopIdx(t)
    PROVE  StackInv'
<1>1. TypeOK
  BY DEF StackInv
<1>2. /\ Goto(t, "PopIdx", "PopTop")
      /\ loc' = [loc EXCEPT ![t].idx = uniqIdx]
      /\ UNCHANGED <<top, uniqIdx, next, data, pool>>
  BY DEF PopIdx, nodeVars
<1>3. /\ pc[t] = "PopIdx" /\ pc'[t] = "PopTop"
      /\ \A u \in Threads \ {t} : pc'[u] = pc[u]
      /\ pc' \in [Threads -> Pcs]
  BY <1>1, <1>2, GotoOnly DEF Pcs, Popping
<1>4. /\ loc'[t].idx = uniqIdx
      /\ \A u \in Threads \ {t} : loc'[u] = loc[u]
      /\ loc' \in [Threads -> Locals]
  BY <1>1, <1>2, LocField DEF TypeOK
<1>5. TypeOK'
  BY <1>1, <1>2, <1>3, <1>4 DEF TypeOK, Pcs, Locals
<1>6. OnlyThread(t) /\ OwnNext(t) /\ Owned(t)' = Owned(t)
  BY <1>2, <1>3, <1>4 DEF OnlyThread, OwnNext, Owned, Pushing, Taking
<1>7. PushOK(t)' /\ DataOK(t)'
  BY <1>3 DEF PushOK, DataOK, Pushing
<1>8. PopOK(t)'
  BY <1>1, <1>2, <1>3, <1>4 DEF PopOK, TypeOK
<1> QED
  BY <1>2, <1>5, <1>6, <1>7, <1>8, QuietStep

LEMMA PopTopInv ==
    ASSUME StackInv, NEW t \in Threads, PopTop(t)
    PROVE  StackInv'
<1>1. TypeOK /\ PopOK(t)
  BY DEF StackInv
<1>2. /\ Goto(t, "PopTop", "PopNext")
      /\ loc' = [loc EXCEPT ![t].node = top]
      /\ UNCHANGED <<top, uniqIdx, next, data, pool>>
  BY DEF PopTop, nodeVars
<1>3. /\ pc[t] = "PopTop" /\ pc'[t] = "PopNext"
      /\ \A u \in Threads \ {t} : pc'[u] = pc[u]
      /\ pc' \in [Threads -> Pcs]
  BY <1>1, <1>2, GotoOnly DEF Pcs, Popping
<1>4. /\ loc'[t].node = top /\ loc'[t].idx = loc[t].idx
      /\ \A u \in Threads \ {t} : loc'[u] = loc[u]
      /\ loc' \in [Threads -> Locals]
  BY <1>1, <1>2, LocField DEF TypeOK, Pointers
<1>5. TypeOK'
  BY <1>1, <1>2, <1>3, <1>4 DEF TypeOK, Pcs, Locals
<1>6. OnlyThread(t) /\ OwnNext(t) /\ Owned(t)' = Owned(t)
  BY <1>2, <1>3, <1>4 DEF OnlyThread, OwnNext, Owned, Pushing, Taking
<1>7. OwnData
  BY <1>2 DEF OwnData
<1>8. Linked' = Linked
  BY <1>2, <1>6, <1>7, ListFrame
<1>9. top \in Linked \cup {Dummy} /\ top \in Nodes \cup {Dummy}
  BY <1>1, TheList DEF TypeOK
<1>10. top # Dummy => next[top] # Null
  BY <1>9 DEF StackInv, ListOK
<1>11. PushOK(t)' /\ DataOK(t)'
  BY <1>3 DEF PushOK, DataOK, Pushing
<1>12. PopOK(t)'
  BY <1>1, <1>2, <1>3, <1>4, <1>8, <1>9, <1>10 DEF PopOK
<1> QED
  BY <1>2, <1>5, <1>6, <1>11, <1>12, QuietStep

LEMMA PopNextInv ==
    ASSUME StackInv, NEW t \in Threads, PopNext(t)
    PROVE  StackInv'
<1>1. TypeOK /\ PopOK(t)
  BY DEF StackInv
<1>2. UNCHANGED <<top, uniqIdx, next, data, pool>>
  BY DEF PopNext, nodeVars
<1>3. OwnNext(t) /\ OwnData
  BY <1>2 DEF OwnNext, OwnData
<1>4. Linked' = Linked
  BY <1>2, <1>3, ListFrame
<1>5. CASE next[loc[t].node] # Null
  <2>1. /\ Goto(t, "PopNext", "PopCas")
        /\ loc' = [loc EXCEPT ![t].other = next[loc[t].node]]
    BY <1>5 DEF PopNext
  <2>2. /\ pc[t] = "PopNext" /\ pc'[t] = "PopCas"
        /\ \A u \in Threads \ {t} : pc'[u] = pc[u]
        /\ pc' \in [Threads -> Pcs]
    BY <1>1, <2>1, GotoOnly DEF Pcs, Popping
  <2>3. loc[t].node \in Nodes
    BY <1>1, <1>5, <2>2 DEF PopOK, StackInv, ListOK
  <2>4. next[loc[t].node] \in Nodes \cup {Dummy} /\ next[loc[t].node] \in Pointers
    BY <1>1, <1>5, <2>3 DEF TypeOK, Pointers
  <2>5. /\ loc'[t].other = next[loc[t].node] /\ loc'[t].node = loc[t].node
        /\ loc'[t].idx = loc[t].idx
        /\ \A u \in Threads \ {t} : loc'[u] = loc[u]
        /\ loc' \in [Threads -> Locals]
    BY <1>1, <2>1, <2>4, LocField
  <2>6. TypeOK'
    BY <1>1, <1>2, <2>2, <2>5 DEF TypeOK, Pcs, Locals
  <2>7. OnlyThread(t) /\ Owned(t)' = Owned(t)
    BY <2>2, <2>5 DEF OnlyThread, Owned, Pushing, Taking
  <2>8. PushOK(t)' /\ DataOK(t)'
    BY <2>2 DEF PushOK, DataOK, Pushing
  <2>9. PopOK(t)'
    BY <1>1, <1>2, <1>4, <2>2, <2>3, <2>4, <2>5 DEF PopOK
  <2> QED
    BY <1>2, <1>3, <2>6, <2>7, <2>8, <2>9, QuietStep
<1>6. CASE next[loc[t].node] = Null
  <2>1. Return(t, "PopNext")
    BY <1>6 DEF PopNext
  <2>2. /\ pc[t] = "PopNext" /\ pc'[t] = "idle" /\ OnlyThread(t)
        /\ pc' \in [Threads -> Pcs] /\ loc' \in [Threads -> Locals]
    BY <1>1, <2>1, ReturnOnly
  <2>3. TypeOK'
    BY <1>1, <1>2, <2>2 DEF TypeOK, Pcs, Locals
  <2>4. Owned(t)' = Owned(t)
    BY <2>2 DEF Owned, Pushing, Taking
  <2>5. PushOK(t)' /\ PopOK(t)' /\ DataOK(t)'
    BY <2>2 DEF PushOK, PopOK, DataOK, Pushing
  <2> QED
    BY <1>2, <1>3, <2>2, <2>3, <2>4, <2>5, QuietStep
<1> QED
  BY <1>5, <1>6

(* The exchange of Pop: nobody popped since _uniqIdx was read, so the node   *)
(* is the top of the list and what Pop read of its _next is what follows it. *)
LEMMA PopExchange ==
    ASSUME StackInv, NEW t \in Threads, PopCas(t), SameTop(t)
    PROVE  /\ Goto(t, "PopCas", "PopData") /\ pc[t] = "PopCas"
           /\ top' = loc[t].other /\ uniqIdx' = uniqIdx + 1
           /\ UNCHANGED <<next, data, pool, loc>>
           /\ top = loc[t].node /\ top \in Nodes /\ top \in Linked
           /\ next[top] = loc[t].other /\ loc[t].other \in Nodes \cup {Dummy}
           /\ HasChain(top, next, Nodes, Dummy)' /\ Linked' = Linked \ {top}
<1>1. /\ Goto(t, "PopCas", "PopData") /\ pc[t] = "PopCas"
      /\ top' = loc[t].other /\ uniqIdx' = uniqIdx + 1
      /\ UNCHANGED <<next, data, pool, loc>>
  BY DEF PopCas, Goto, nodeVars
<1>2. top = loc[t].node /\ uniqIdx = loc[t].idx
  BY DEF SameTop
<1>3. /\ loc[t].node \in Nodes /\ loc[t].other \in Nodes \cup {Dummy}
      /\ next[loc[t].node] = loc[t].other
  BY <1>1, <1>2 DEF StackInv, PopOK
<1>4. top \in Nodes /\ next[top] = top' /\ top \in Linked
  BY <1>1, <1>2, <1>3, TheList
<1>5. HasChain(top, next, Nodes, Dummy)
  BY DEF StackInv, ListOK
<1>6. /\ HasChain(next[top], next, Nodes, Dummy)
      /\ Listed(Walk(next[top], next, Nodes, Dummy), Nodes) =
            Listed(Walk(top, next, Nodes, Dummy), Nodes) \ {top}
  BY <1>4, <1>5, StackAssumption, PoppedList
<1>7. HasChain(top, next, Nodes, Dummy)' /\ Linked' = Linked \ {top}
  BY <1>1, <1>4, <1>6 DEF Linked, List
<1> QED
  BY <1>1, <1>2, <1>3, <1>4, <1>7

LEMMA PopCasInv ==
    ASSUME StackInv, NEW t \in Threads, PopCas(t)
    PROVE  StackInv'
<1>1. TypeOK
  BY DEF StackInv
<1>2. CASE ~SameTop(t)
  <2>1. /\ Goto(t, "PopCas", "PopIdx") /\ loc' = [loc EXCEPT ![t] = NoLocals]
        /\ UNCHANGED <<top, uniqIdx, next, data, pool>>
    BY <1>2 DEF PopCas, nodeVars
  <2>2. /\ pc[t] = "PopCas" /\ pc'[t] = "PopIdx"
        /\ \A u \in Threads \ {t} : pc'[u] = pc[u]
        /\ pc' \in [Threads -> Pcs]
    BY <1>1, <2>1, GotoOnly DEF Pcs, Popping
  <2>3. /\ \A u \in Threads \ {t} : loc'[u] = loc[u]
        /\ loc' \in [Threads -> Locals]
    BY <1>1, <2>1, LocOnly, NoLocalsType
  <2>4. TypeOK'
    BY <1>1, <2>1, <2>2, <2>3 DEF TypeOK, Pcs, Locals
  <2>5. OnlyThread(t) /\ OwnNext(t) /\ Owned(t)' = Owned(t)
    BY <2>1, <2>2, <2>3 DEF OnlyThread, OwnNext, Owned, Pushing, Taking
  <2>6. PushOK(t)' /\ PopOK(t)' /\ DataOK(t)'
    BY <2>2 DEF PushOK, PopOK, DataOK, Pushing
  <2> QED
    BY <2>1, <2>4, <2>5, <2>6, QuietStep
<1>3. CASE SameTop(t)
  <2>1. /\ Goto(t, "PopCas", "PopData") /\ pc[t] = "PopCas"
        /\ top' = loc[t].other /\ uniqIdx' = uniqIdx + 1
        /\ UNCHANGED <<next, data, pool, loc>>
        /\ top = loc[t].node /\ top \in Nodes /\ top \in Linked
        /\ next[top] = loc[t].other /\ loc[t].other \in Nodes \cup {Dummy}
        /\ HasChain(top, next, Nodes, Dummy)' /\ Linked' = Linked \ {top}
    BY <1>3, PopExchange
  <2>2. /\ pc'[t] = "PopData"
        /\ \A u \in Threads \ {t} : pc'[u] = pc[u]
        /\ pc' \in [Threads -> Pcs]
    BY <1>1, <2>1, GotoOnly DEF Pcs, Taking
  <2>3. TypeOK'
    BY <1>1, <2>1, <2>2 DEF TypeOK, Pcs
  <2>4. OnlyThread(t) /\ OwnNext(t) /\ OwnData
    BY <2>1, <2>2 DEF OnlyThread, OwnNext, OwnData
  <2>5. ListOK'
    BY <2>1 DEF StackInv, ListOK
  <2>6. Moves(t)
    <3>1. Owned(t) = {} /\ Owned(t)' = {top}
      BY <2>1, <2>2 DEF Owned, Pushing, Taking
    <3> QED
      BY <2>1, <3>1 DEF Moves, StackInv, NodesAccounted
  <2>7. PushOK(t)' /\ PopOK(t)'
    BY <2>2 DEF PushOK, PopOK
  <2>8. DataOK(t)'
    BY <2>1, <2>2 DEF DataOK, StackInv, ListOK
  <2>9. uniqIdx <= uniqIdx' /\ uniqIdx' # uniqIdx
    BY <1>1, <2>1 DEF TypeOK
  <2> QED
    BY <2>3, <2>4, <2>5, <2>6, <2>7, <2>8, <2>9, StepInv
<1> QED
  BY <1>2, <1>3

LEMMA PopDataInv ==
    ASSUME StackInv, NEW t \in Threads, PopData(t)
    PROVE  StackInv'
<1>1. TypeOK /\ DataOK(t)
  BY DEF StackInv
<1>2. /\ Goto(t, "PopData", "PopFree")
      /\ loc' = [loc EXCEPT ![t].val = data[loc[t].node]]
      /\ UNCHANGED <<top, uniqIdx, next, data, pool>>
  BY DEF PopData, nodeVars
<1>3. /\ pc[t] = "PopData" /\ pc'[t] = "PopFree"
      /\ \A u \in Threads \ {t} : pc'[u] = pc[u]
      /\ pc' \in [Threads -> Pcs]
  BY <1>1, <1>2, GotoOnly DEF Pcs, Taking
<1>4. data[loc[t].node] \in Values
  BY <1>1, <1>3 DEF DataOK
<1>5. /\ loc'[t].val = data[loc[t].node] /\ loc'[t].node = loc[t].node
      /\ \A u \in Threads \ {t} : loc'[u] = loc[u]
      /\ loc' \in [Threads -> Locals]
  BY <1>1, <1>2, <1>4, LocField
<1>6. TypeOK'
  BY <1>1, <1>2, <1>3, <1>5 DEF TypeOK, Pcs, Locals
<1>7. OnlyThread(t) /\ OwnNext(t) /\ Owned(t)' = Owned(t)
  BY <1>2, <1>3, <1>5 DEF OnlyThread, OwnNext, Owned, Pushing, Taking
<1>8. PushOK(t)' /\ PopOK(t)' /\ DataOK(t)'
  BY <1>3, <1>4, <1>5 DEF PushOK, PopOK, DataOK, Pushing
<1> QED
  BY <1>2, <1>6, <1>7, <1>8, QuietStep

LEMMA PopFreeInv ==
    ASSUME StackInv, NEW t \in Threads, PopFree(t)
    PROVE  StackInv'
<1>1. TypeOK
  BY DEF StackInv
<1>2. /\ Return(t, "PopFree") /\ pool' = pool \cup {loc[t].node}
      /\ UNCHANGED <<top, uniqIdx, next, data>>
  BY DEF PopFree, nodeVars
<1>3. /\ pc[t] = "PopFree" /\ pc'[t] = "idle" /\ OnlyThread(t)
      /\ pc' \in [Threads -> Pcs] /\ loc' \in [Threads -> Locals]
  BY <1>1, <1>2, ReturnOnly
<1>4. Owned(t) = {loc[t].node} /\ Owned(t)' = {}
  BY <1>3 DEF Owned, Pushing, Taking
<1>5. loc[t].node \in Nodes
  BY <1>4 DEF StackInv, NodesAccounted
<1>6. TypeOK'
  BY <1>1, <1>2, <1>3, <1>5 DEF TypeOK, Pcs, Locals
<1>7. OwnNext(t) /\ OwnData
  BY <1>2 DEF OwnNext, OwnData
<1>8. Linked' = Linked /\ ListOK'
  BY <1>2, <1>7, ListFrame
<1>9. Moves(t)
  BY <1>2, <1>4, <1>8 DEF Moves, StackInv, NodesAccounted
<1>10. PushOK(t)' /\ PopOK(t)' /\ DataOK(t)'
  BY <1>3 DEF PushOK, PopOK, DataOK, Pushing
<1>11. uniqIdx <= uniqIdx'
  BY <1>1, <1>2 DEF TypeOK
<1> QED
  BY <1>3, <1>6, <1>7, <1>8, <1>9, <1>10, <1>11, StepInv

-----------------------------------------------------------------------------
LEMMA InitStackInv ==
    ASSUME Init
    PROVE  StackInv
<1>1. TypeOK
  BY NoLocalsType DEF Init, TypeOK, Pointers, Locals
<1>2. HasChain(top, next, Nodes, Dummy) /\ top = Dummy /\ top \notin Nodes
  BY StackAssumption, EmptyList DEF Init
<1>3. /\ Length(Walk(top, next, Nodes, Dummy), Nodes) =
            Cardinality(Listed(Walk(top, next, Nodes, Dummy), Nodes))
      /\ Listed(Walk(top, next, Nodes, Dummy), Nodes) = {}
  BY <1>2, StackAssumption, ListCounted
<1>4. Linked = {} /\ Depth = Cardinality(Linked)
  BY <1>3 DEF Linked, Depth, List
<1>5. ListOK
  BY <1>2, <1>4 DEF ListOK, Init
<1>6. \A t \in Threads : pc[t] = "idle"
  BY DEF Init
<1>7. \A t \in Threads : PushOK(t) /\ PopOK(t) /\ DataOK(t)
  BY <1>6 DEF PushOK, PopOK, DataOK, Pushing
<1>8. \A t \in Threads : Owned(t) = {}
  BY <1>6 DEF Owned, Pushing, Taking
<1>9. NodesAccounted
  BY <1>4, <1>8 DEF NodesAccounted, Init
<1> QED
  BY <1>1, <1>5, <1>7, <1>9 DEF StackInv

LEMMA NextStackInv ==
    ASSUME StackInv, [Next]_vars
    PROVE  StackInv'
<1>1. ASSUME NEW t \in Threads, NEW v \in Values, Push(t, v)
      PROVE  StackInv'
  BY <1>1, PushInv
<1>2. ASSUME NEW t \in Threads, Pop(t)
      PROVE  StackInv'
  BY <1>2, PopInv
<1>3. ASSUME NEW t \in Threads, Step(t)
      PROVE  StackInv'
  BY <1>3, PushLoadInv, PushLinkInv, PushCasInv, PopIdxInv, PopTopInv, PopNextInv,
     PopCasInv, PopDataInv, PopFreeInv DEF Step
<1>4. CASE UNCHANGED vars
  <2>1. UNCHANGED <<top, uniqIdx, next, data, pool, pc, loc>>
    BY <1>4 DEF vars, nodeVars
  <2>2. List' = List
    BY <2>1 DEF List
  <2>3. Linked' = Linked /\ Depth' = Depth
    BY <2>2 DEF Linked, Depth
  <2>4. \A t \in Threads : Owned(t)' = Owned(t)
    BY <2>1 DEF Owned
  <2>5. TypeOK'
    BY <2>1 DEF StackInv, TypeOK
  <2>6. ListOK'
    BY <2>1, <2>3 DEF StackInv, ListOK
  <2>7. \A t \in Threads : PushOK(t)' /\ PopOK(t)' /\ DataOK(t)'
    BY <2>1, <2>3 DEF StackInv, PushOK, PopOK, DataOK
  <2>8. NodesAccounted'
    BY <2>1, <2>3, <2>4 DEF StackInv, NodesAccounted
  <2> QED
    BY <2>5, <2>6, <2>7, <2>8 DEF StackInv
<1> QED
  BY <1>1, <1>2, <1>3, <1>4 DEF Next

(* The inductive invariant holds of every execution of Push and Pop          *)
(* (CLockFreeStack.h:54-89), whoever recycles a node while it is being read. *)
THEOREM StackInvariant == Spec => []StackInv
<1>1. Init => StackInv
  BY InitStackInv
<1>2. StackInv /\ [Next]_vars => StackInv'
  BY NextStackInv
<1> QED
  BY <1>1, <1>2, PTL DEF Spec

(* _top always points to a node, and every local pointer of Push and Pop to  *)
(* a node, the dummy node or nothing.                                        *)
THEOREM StackTypes == Spec => []TypeOK
<1>1. StackInv => TypeOK
  BY DEF StackInv
<1> QED
  BY <1>1, StackInvariant, PTL

(* No node is lost, linked twice or given to two threads, whatever the       *)
(* number of threads: the second word of the 128-bit exchange in Pop         *)
(* (line 84) is enough, although Push exchanges _top alone (line 64).        *)
THEOREM NodesSafe == Spec => []NodesAccounted
<1>1. StackInv => NodesAccounted
  BY DEF StackInv
<1> QED
  BY <1>1, StackInvariant, PTL

-----------------------------------------------------------------------------
(* Refinement of AtomicStack *)

(* what the other threads do is what they did *)
LEMMA OthersSame ==
    ASSUME StackInv, NEW t \in Threads, OnlyThread(t), OwnData, NEW u \in Threads \ {t}
    PROVE  Operation(u)' = Operation(u)
<1>1. pc'[u] = pc[u] /\ loc'[u] = loc[u]
  BY DEF OnlyThread
<1>2. pc[u] \in Pushing \cup Taking => data'[loc[u].node] = data[loc[u].node]
  <2> SUFFICES ASSUME pc[u] \in Pushing \cup Taking
               PROVE  data'[loc[u].node] = data[loc[u].node]
    OBVIOUS
  <2>1. loc[u].node \in Owned(u)
    BY DEF Owned
  <2>2. loc[u].node \in Nodes /\ loc[u].node \notin pool
    BY <2>1 DEF StackInv, NodesAccounted
  <2> QED
    BY <2>2 DEF OwnData
<1>3. FoundNothing(u)' = FoundNothing(u)
  BY <1>1 DEF FoundNothing
<1>4. CASE pc[u] \in Pushing \cup Taking
  BY <1>1, <1>2, <1>3, <1>4 DEF Operation, Taking
<1>5. CASE pc[u] \notin Pushing \cup Taking
  BY <1>1, <1>3, <1>5 DEF Operation, Taking
<1> QED
  BY <1>4, <1>5

LEMMA Becomes ==
    ASSUME StackInv, NEW t \in Threads, OnlyThread(t), OwnData, NEW o, Operation(t)' = o
    PROVE  Abstract!Become(t, o)
<1>1. \A u \in Threads \ {t} : Operation(u)' = Operation(u)
  BY OthersSame
<1> QED
  BY <1>1 DEF Abstract!Become

(* a step that the abstract stack does not see *)
LEMMA Unseen ==
    ASSUME StackInv, NEW t \in Threads, OnlyThread(t), OwnData,
           Operation(t)' = Operation(t), Content' = Content
    PROVE  UNCHANGED Abstract!vars
<1>1. \A u \in Threads : Operation(u)' = Operation(u)
  BY OthersSame
<1> QED
  BY <1>1 DEF Abstract!vars

LEMMA SameContent ==
    ASSUME StackInv, NEW t \in Threads, top' = top, OwnNext(t), OwnData
    PROVE  Content' = Content
<1>1. List' = List /\ Linked' = Linked /\ Depth' = Depth
  BY ListFrame
<1>2. HasChain(top, next, Nodes, Dummy)
  BY DEF StackInv, ListOK
<1>3. \A i \in 1 .. Depth : List[i - 1] \in Linked
  BY <1>2, StackAssumption, WalkListed DEF Depth, Linked, List
<1>4. \A x \in Linked : data'[x] = data[x]
  BY TheList DEF StackInv, NodesAccounted, OwnData
<1>5. \A i \in 1 .. Depth : data'[List[i - 1]] = data[List[i - 1]]
  BY <1>3, <1>4
<1> HIDE DEF List, Depth
<1> QED
  BY <1>1, <1>5 DEF Content

(* the content of a walk, as a sequence; x is on top of b *)
Contents(b) ==
    [i \in 1 .. Length(Walk(b, next, Nodes, Dummy), Nodes) |->
        data[Walk(b, next, Nodes, Dummy)[i - 1]]]

LEMMA OnTop ==
    ASSUME NEW b, HasChain(b, next, Nodes, Dummy),
           NEW x \in Nodes, x \notin Listed(Walk(b, next, Nodes, Dummy), Nodes), next[x] = b
    PROVE  /\ Contents(x) = <<data[x]>> \o Contents(b)
           /\ Contents(x) # << >>
           /\ Head(Contents(x)) = data[x]
           /\ Tail(Contents(x)) = Contents(b)
<1> DEFINE v == Walk(b, next, Nodes, Dummy)
           w == Walk(x, next, Nodes, Dummy)
           m == Length(v, Nodes)
           c == Contents(b)
           S == {data[v[i - 1]] : i \in 1 .. m} \cup {data[x]}
<1>1. /\ m \in Nat /\ Length(w, Nodes) = m + 1
      /\ w[0] = x /\ \A i \in 1 .. m : w[i] = v[i - 1]
  BY StackAssumption, PushedWalk
<1>2. c = [i \in 1 .. m |-> data[v[i - 1]]]
  BY DEF Contents
<1>3. Contents(x) = [i \in 1 .. m + 1 |-> data[w[i - 1]]]
  BY <1>1 DEF Contents
<1> HIDE DEF v, w, m, c
<1>4. c \in Seq(S) /\ Len(c) = m /\ data[x] \in S
  BY <1>1, <1>2
<1>5. \A i \in 2 .. m + 1 : i - 1 \in 1 .. m
  BY <1>1
<1>6. \A i \in 2 .. m + 1 : data[w[i - 1]] = c[i - 1]
  BY <1>1, <1>2, <1>5
<1>7. Contents(x) = <<data[x]>> \o c
  <2> DEFINE h == <<data[x]>> \o c
  <2>1. h \in Seq(S) /\ Len(h) = m + 1
    BY <1>1, <1>4
  <2>2. h[1] = data[x] /\ \A i \in 2 .. m + 1 : h[i] = c[i - 1]
    BY <1>1, <1>4
  <2> HIDE DEF h
  <2>3. \A i \in 1 .. m + 1 : h[i] = data[w[i - 1]]
    BY <1>1, <1>6, <2>2
  <2>4. h = [i \in 1 .. m + 1 |-> h[i]]
    BY <1>1, <2>1
  <2> QED
    BY <1>3, <2>3, <2>4 DEF h
<1> HIDE DEF S
<1>8. /\ <<data[x]>> \o c # << >>
      /\ Head(<<data[x]>> \o c) = data[x]
      /\ Tail(<<data[x]>> \o c) = c
  BY <1>4
<1> QED
  BY <1>7, <1>8 DEF c

(* the calls *)
LEMMA RefineCall ==
    ASSUME StackInv, NEW t \in Threads, Pop(t) \/ \E v \in Values : Push(t, v)
    PROVE  Abstract!Next
<1>1. TypeOK
  BY DEF StackInv
<1>2. CASE Pop(t)
  <2>1. Goto(t, "idle", "PopIdx") /\ UNCHANGED <<top, next, data, loc>>
    BY <1>2 DEF Pop, nodeVars
  <2>2. /\ pc[t] = "idle" /\ pc'[t] = "PopIdx"
        /\ \A u \in Threads \ {t} : pc'[u] = pc[u]
    BY <1>1, <2>1, GotoOnly
  <2>3. OnlyThread(t) /\ OwnNext(t) /\ OwnData
    BY <2>1, <2>2 DEF OnlyThread, OwnNext, OwnData
  <2>4. Content' = Content
    BY <2>1, <2>3, SameContent
  <2>5. Operation(t) = [kind |-> "idle"]
    BY <2>2 DEF Operation, FoundNothing, Pushing, Popping
  <2>6. Operation(t)' = [kind |-> "pop"]
    BY <2>2 DEF Operation, FoundNothing, Pushing, Popping
  <2>7. Abstract!Become(t, [kind |-> "pop"])
    BY <2>3, <2>6, Becomes
  <2> QED
    BY <2>4, <2>5, <2>7 DEF Abstract!Next, Abstract!Call, Abstract!Idle, Abstract!Pops
<1>3. ASSUME NEW v \in Values, Push(t, v)
      PROVE  Abstract!Next
  <2>1. PICK n \in pool : /\ data' = [data EXCEPT ![n] = v]
                          /\ loc' = [loc EXCEPT ![t].node = n]
    BY <1>3 DEF Push
  <2>2. Goto(t, "idle", "PushLoad") /\ UNCHANGED <<top, next>>
    BY <1>3 DEF Push
  <2>3. /\ pc[t] = "idle" /\ pc'[t] = "PushLoad"
        /\ \A u \in Threads \ {t} : pc'[u] = pc[u]
    BY <1>1, <2>2, GotoOnly
  <2>4. loc'[t].node = n /\ \A u \in Threads \ {t} : loc'[u] = loc[u]
    BY <1>1, <2>1, LocField
  <2>5. n \in Nodes /\ data'[n] = v
    BY <1>1, <2>1 DEF TypeOK
  <2>6. OnlyThread(t) /\ OwnNext(t)
    BY <2>2, <2>3, <2>4 DEF OnlyThread, OwnNext
  <2>7. OwnData
    BY <1>1, <2>1 DEF OwnData, TypeOK
  <2>8. Content' = Content
    BY <2>2, <2>6, <2>7, SameContent
  <2>9. Operation(t) = [kind |-> "idle"]
    BY <2>3 DEF Operation, FoundNothing, Pushing, Popping
  <2>10. Operation(t)' = [kind |-> "push", val |-> v]
    BY <2>3, <2>4, <2>5 DEF Operation, FoundNothing, Pushing, Popping
  <2>11. Abstract!Become(t, [kind |-> "push", val |-> v])
    BY <2>6, <2>7, <2>10, Becomes
  <2> QED
    BY <2>8, <2>9, <2>11 DEF Abstract!Next, Abstract!Call, Abstract!Idle, Abstract!Pushes
<1> QED
  BY <1>2, <1>3

(* the exchange of Push takes effect and returns *)
LEMMA RefinePushCas ==
    ASSUME StackInv, NEW t \in Threads, PushCas(t), top = loc[t].other
    PROVE  Abstract!Next
<1> DEFINE n == loc[t].node
<1>1. TypeOK /\ DataOK(t)
  BY DEF StackInv
<1>2. /\ pc[t] = "PushCas" /\ Return(t, "PushCas") /\ top' = n
      /\ UNCHANGED <<next, data>>
      /\ n \in Nodes /\ n \notin Linked /\ next[n] = top
  BY PushExchange
<1>3. pc'[t] = "idle" /\ OnlyThread(t)
  BY <1>1, <1>2, ReturnOnly
<1>4. OwnData
  BY <1>2 DEF OwnData
<1>5. Operation(t) = [kind |-> "push", val |-> data[n]] /\ data[n] \in Values
  BY <1>1, <1>2 DEF Operation, DataOK, FoundNothing, Pushing, Popping
<1>6. Operation(t)' = [kind |-> "idle"]
  BY <1>3 DEF Operation, FoundNothing, Pushing, Popping
<1>7. Abstract!Become(t, [kind |-> "idle"])
  BY <1>3, <1>4, <1>6, Becomes
<1>8. HasChain(top, next, Nodes, Dummy) /\ n \notin Listed(Walk(top, next, Nodes, Dummy), Nodes)
  BY <1>2, TheList DEF StackInv, ListOK
<1> HIDE DEF n
<1>9. Contents(n) = <<data[n]>> \o Contents(top)
  BY <1>2, <1>8, OnTop
<1>10. Content = Contents(top) /\ Content' = Contents(n)
  BY <1>2 DEF Content, Contents, Depth, List
<1>11. Content' = <<data[n]>> \o Content
  BY <1>9, <1>10
<1>12. Abstract!Push(t)
  BY <1>5, <1>7, <1>11 DEF Abstract!Push, Abstract!Pushes, Abstract!Idle
<1> QED
  BY <1>12 DEF Abstract!Next

(* the exchange of Pop takes the top *)
LEMMA RefinePopCas ==
    ASSUME StackInv, NEW t \in Threads, PopCas(t), SameTop(t)
    PROVE  Abstract!Next
<1>1. TypeOK
  BY DEF StackInv
<1>2. /\ Goto(t, "PopCas", "PopData") /\ pc[t] = "PopCas"
      /\ UNCHANGED <<next, data, loc>>
      /\ top = loc[t].node /\ top \in Nodes
      /\ next[top] = top'
      /\ HasChain(top, next, Nodes, Dummy)' /\ Linked' = Linked \ {top}
  BY PopExchange
<1>3. pc'[t] = "PopData" /\ \A u \in Threads \ {t} : pc'[u] = pc[u]
  BY <1>1, <1>2, GotoOnly
<1>4. OnlyThread(t) /\ OwnData
  BY <1>2, <1>3 DEF OnlyThread, OwnData
<1>5. Operation(t) = [kind |-> "pop"]
  BY <1>2 DEF Operation, FoundNothing, Pushing, Popping
<1>6. Operation(t)' = [kind |-> "popped", val |-> data[top]]
  BY <1>2, <1>3 DEF Operation, FoundNothing, Pushing, Popping
<1>7. Abstract!Become(t, [kind |-> "popped", val |-> data[top]])
  BY <1>4, <1>6, Becomes
<1>8. /\ HasChain(top', next, Nodes, Dummy)
      /\ top \notin Listed(Walk(top', next, Nodes, Dummy), Nodes)
  BY <1>2 DEF Linked, List
<1>9. /\ Contents(top) # << >> /\ Head(Contents(top)) = data[top]
      /\ Tail(Contents(top)) = Contents(top')
  <2> DEFINE b == top'
  <2>1. HasChain(b, next, Nodes, Dummy) /\ next[top] = b
        /\ top \notin Listed(Walk(b, next, Nodes, Dummy), Nodes)
    BY <1>2, <1>8
  <2> HIDE DEF b
  <2>2. /\ Contents(top) # << >> /\ Head(Contents(top)) = data[top]
        /\ Tail(Contents(top)) = Contents(b)
    BY <1>2, <2>1, OnTop
  <2> QED
    BY <2>2 DEF b
<1>10. Content = Contents(top) /\ Content' = Contents(top')
  BY <1>2 DEF Content, Contents, Depth, List
<1>11. Content # << >> /\ Head(Content) = data[top] /\ Content' = Tail(Content)
  BY <1>9, <1>10
<1>12. Abstract!Pop(t)
  BY <1>5, <1>7, <1>11 DEF Abstract!Pop, Abstract!Pops, Abstract!Popped
<1> QED
  BY <1>12 DEF Abstract!Next

(* Pop reads the top: if that is the dummy node, the stack is empty now *)
LEMMA RefinePopTop ==
    ASSUME StackInv, NEW t \in Threads, PopTop(t)
    PROVE  Abstract!Next \/ UNCHANGED Abstract!vars
<1>1. TypeOK
  BY DEF StackInv
<1>2. /\ Goto(t, "PopTop", "PopNext")
      /\ loc' = [loc EXCEPT ![t].node = top]
      /\ UNCHANGED <<top, next, data>>
  BY DEF PopTop, nodeVars
<1>3. /\ pc[t] = "PopTop" /\ pc'[t] = "PopNext"
      /\ \A u \in Threads \ {t} : pc'[u] = pc[u]
  BY <1>1, <1>2, GotoOnly
<1>4. loc'[t].node = top /\ \A u \in Threads \ {t} : loc'[u] = loc[u]
  BY <1>1, <1>2, LocField
<1>5. OnlyThread(t) /\ OwnNext(t) /\ OwnData
  BY <1>2, <1>3, <1>4 DEF OnlyThread, OwnNext, OwnData
<1>6. Content' = Content
  BY <1>2, <1>5, SameContent
<1>7. Operation(t) = [kind |-> "pop"]
  BY <1>3 DEF Operation, FoundNothing, Pushing, Popping
<1>8. CASE top = Dummy
  <2>1. Depth = 0
    BY <1>8, TheList, StackAssumption, FS_EmptySet
  <2>2. Content = << >>
    BY <2>1 DEF Content
  <2>3. Operation(t)' = [kind |-> "popped", val |-> Empty]
    BY <1>3, <1>4, <1>8 DEF Operation, FoundNothing, Pushing, Popping
  <2>4. Abstract!Become(t, [kind |-> "popped", val |-> Empty])
    BY <1>5, <2>3, Becomes
  <2>5. Abstract!Pop(t)
    BY <1>6, <1>7, <2>2, <2>4 DEF Abstract!Pop, Abstract!Pops, Abstract!Popped
  <2> QED
    BY <2>5 DEF Abstract!Next
<1>9. CASE top # Dummy
  <2>1. Operation(t)' = [kind |-> "pop"]
    BY <1>3, <1>4, <1>9 DEF Operation, FoundNothing, Pushing, Popping
  <2> QED
    BY <1>5, <1>6, <1>7, <2>1, Unseen
<1> QED
  BY <1>8, <1>9

(* Pop reads the _next field: it is nullptr only if Pop had read the dummy   *)
(* node, and then Pop returns                                                *)
LEMMA RefinePopNext ==
    ASSUME StackInv, NEW t \in Threads, PopNext(t)
    PROVE  Abstract!Next \/ UNCHANGED Abstract!vars
<1>1. TypeOK /\ PopOK(t)
  BY DEF StackInv
<1>2. UNCHANGED <<top, next, data>>
  BY DEF PopNext, nodeVars
<1>3. OwnNext(t) /\ OwnData
  BY <1>2 DEF OwnNext, OwnData
<1>4. Content' = Content
  BY <1>2, <1>3, SameContent
<1>5. CASE next[loc[t].node] # Null
  <2>1. /\ Goto(t, "PopNext", "PopCas")
        /\ loc' = [loc EXCEPT ![t].other = next[loc[t].node]]
    BY <1>5 DEF PopNext
  <2>2. /\ pc[t] = "PopNext" /\ pc'[t] = "PopCas"
        /\ \A u \in Threads \ {t} : pc'[u] = pc[u]
    BY <1>1, <2>1, GotoOnly
  <2>3. \A u \in Threads \ {t} : loc'[u] = loc[u]
    BY <1>1, <2>1, LocField
  <2>4. OnlyThread(t)
    BY <2>2, <2>3 DEF OnlyThread
  <2>5. loc[t].node # Dummy
    BY <1>5 DEF StackInv, ListOK
  <2>6. Operation(t) = [kind |-> "pop"] /\ Operation(t)' = [kind |-> "pop"]
    BY <2>2, <2>5 DEF Operation, FoundNothing, Pushing, Popping
  <2> QED
    BY <1>3, <1>4, <2>4, <2>6, Unseen
<1>6. CASE next[loc[t].node] = Null
  <2>1. Return(t, "PopNext")
    BY <1>6 DEF PopNext
  <2>2. pc[t] = "PopNext" /\ pc'[t] = "idle" /\ OnlyThread(t)
    BY <1>1, <2>1, ReturnOnly
  <2>3. loc[t].node = Dummy
    BY <1>1, <1>6, <2>2 DEF PopOK
  <2>4. Operation(t) = [kind |-> "popped", val |-> Empty]
    BY <2>2, <2>3 DEF Operation, FoundNothing, Pushing, Popping
  <2>5. Operation(t)' = [kind |-> "idle"]
    BY <2>2 DEF Operation, FoundNothing, Pushing, Popping
  <2>6. Abstract!Become(t, [kind |-> "idle"])
    BY <1>3, <2>2, <2>5, Becomes
  <2>7. Abstract!Return(t)
    BY <1>4, <2>4, <2>6 DEF Abstract!Return, Abstract!Popped, Abstract!Idle
  <2> QED
    BY <2>7 DEF Abstract!Next
<1> QED
  BY <1>5, <1>6

(* Pop frees the node it took and returns what it has read of it *)
LEMMA RefinePopFree ==
    ASSUME StackInv, NEW t \in Threads, PopFree(t)
    PROVE  Abstract!Next
<1>1. TypeOK /\ DataOK(t)
  BY DEF StackInv
<1>2. Return(t, "PopFree") /\ UNCHANGED <<top, next, data>>
  BY DEF PopFree, nodeVars
<1>3. pc[t] = "PopFree" /\ pc'[t] = "idle" /\ OnlyThread(t)
  BY <1>1, <1>2, ReturnOnly
<1>4. OwnNext(t) /\ OwnData
  BY <1>2 DEF OwnNext, OwnData
<1>5. Content' = Content
  BY <1>2, <1>4, SameContent
<1>6. Operation(t) = [kind |-> "popped", val |-> loc[t].val] /\ loc[t].val \in Values
  BY <1>1, <1>3 DEF Operation, FoundNothing, Pushing, Popping, DataOK
<1>7. Operation(t)' = [kind |-> "idle"]
  BY <1>3 DEF Operation, FoundNothing, Pushing, Popping
<1>8. Abstract!Become(t, [kind |-> "idle"])
  BY <1>3, <1>4, <1>7, Becomes
<1>9. Abstract!Return(t)
  BY <1>5, <1>6, <1>8 DEF Abstract!Return, Abstract!Popped, Abstract!Idle
<1> QED
  BY <1>9 DEF Abstract!Next

(* the other steps are not seen *)
LEMMA RefineHidden ==
    ASSUME StackInv, NEW t \in Threads,
           \/ PushLoad(t) \/ PushLink(t) \/ PopIdx(t) \/ PopData(t)
           \/ PushCas(t) /\ top # loc[t].other
           \/ PopCas(t) /\ ~SameTop(t)
    PROVE  UNCHANGED Abstract!vars
<1>1. TypeOK /\ PushOK(t)
  BY DEF StackInv
<1>2. UNCHANGED <<top, data>>
  BY DEF PushLoad, PushLink, PopIdx, PopData, PushCas, PopCas, nodeVars
<1>3. OwnData
  BY <1>2 DEF OwnData
<1>4. CASE PushLoad(t)
  <2>1. /\ Goto(t, "PushLoad", "PushLink")
        /\ loc' = [loc EXCEPT ![t].other = top] /\ next' = next
    BY <1>4 DEF PushLoad, nodeVars
  <2>2. /\ pc[t] = "PushLoad" /\ pc'[t] = "PushLink"
        /\ \A u \in Threads \ {t} : pc'[u] = pc[u]
    BY <1>1, <2>1, GotoOnly
  <2>3. loc'[t].node = loc[t].node /\ \A u \in Threads \ {t} : loc'[u] = loc[u]
    BY <1>1, <2>1, LocField
  <2>4. OnlyThread(t) /\ OwnNext(t)
    BY <2>1, <2>2, <2>3 DEF OnlyThread, OwnNext
  <2>5. Operation(t)' = Operation(t)
    BY <1>2, <2>2, <2>3 DEF Operation, FoundNothing, Pushing, Popping
  <2> QED
    BY <1>2, <1>3, <2>4, <2>5, SameContent, Unseen
<1>5. CASE PushLink(t)
  <2>1. /\ Goto(t, "PushLink", "PushCas")
        /\ next' = [next EXCEPT ![loc[t].node] = loc[t].other] /\ loc' = loc
    BY <1>5 DEF PushLink
  <2>2. /\ pc[t] = "PushLink" /\ pc'[t] = "PushCas"
        /\ \A u \in Threads \ {t} : pc'[u] = pc[u]
    BY <1>1, <2>1, GotoOnly
  <2>3. loc[t].node \in Owned(t) /\ loc[t].other # Null
    BY <1>1, <2>2, StackAssumption DEF Owned, Pushing, PushOK
  <2>4. OnlyThread(t)
    BY <2>1, <2>2 DEF OnlyThread
  <2>5. OwnNext(t)
    BY <1>1, <2>1, <2>3 DEF OwnNext, TypeOK, Ends
  <2>6. Operation(t)' = Operation(t)
    BY <1>2, <2>1, <2>2 DEF Operation, FoundNothing, Pushing, Popping
  <2> QED
    BY <1>2, <1>3, <2>4, <2>5, <2>6, SameContent, Unseen
<1>6. CASE PopIdx(t)
  <2>1. /\ Goto(t, "PopIdx", "PopTop")
        /\ loc' = [loc EXCEPT ![t].idx = uniqIdx] /\ next' = next
    BY <1>6 DEF PopIdx, nodeVars
  <2>2. /\ pc[t] = "PopIdx" /\ pc'[t] = "PopTop"
        /\ \A u \in Threads \ {t} : pc'[u] = pc[u]
    BY <1>1, <2>1, GotoOnly
  <2>3. \A u \in Threads \ {t} : loc'[u] = loc[u]
    BY <1>1, <2>1, LocField
  <2>4. OnlyThread(t) /\ OwnNext(t)
    BY <2>1, <2>2, <2>3 DEF OnlyThread, OwnNext
  <2>5. Operation(t)' = Operation(t)
    BY <2>2 DEF Operation, FoundNothing, Pushing, Popping
  <2> QED
    BY <1>2, <1>3, <2>4, <2>5, SameContent, Unseen
<1>7. CASE PopData(t)
  <2>1. /\ Goto(t, "PopData", "PopFree")
        /\ loc' = [loc EXCEPT ![t].val = data[loc[t].node]] /\ next' = next
    BY <1>7 DEF PopData, nodeVars
  <2>2. /\ pc[t] = "PopData" /\ pc'[t] = "PopFree"
        /\ \A u \in Threads \ {t} : pc'[u] = pc[u]
    BY <1>1, <2>1, GotoOnly
  <2>3. /\ loc'[t].val = data[loc[t].node]
        /\ \A u \in Threads \ {t} : loc'[u] = loc[u]
    BY <1>1, <2>1, LocField
  <2>4. OnlyThread(t) /\ OwnNext(t)
    BY <2>1, <2>2, <2>3 DEF OnlyThread, OwnNext
  <2>5. /\ Operation(t) = [kind |-> "popped", val |-> data[loc[t].node]]
        /\ Operation(t)' = [kind |-> "popped", val |-> data[loc[t].node]]
    BY <2>2, <2>3 DEF Operation, FoundNothing, Pushing, Popping
  <2> QED
    BY <1>2, <1>3, <2>4, <2>5, SameContent, Unseen
<1>8. CASE PushCas(t) /\ top # loc[t].other
  <2>1. Goto(t, "PushCas", "PushLoad") /\ loc' = loc /\ next' = next
    BY <1>8 DEF PushCas, PushRetry, nodeVars
  <2>2. /\ pc[t] = "PushCas" /\ pc'[t] = "PushLoad"
        /\ \A u \in Threads \ {t} : pc'[u] = pc[u]
    BY <1>1, <2>1, GotoOnly
  <2>3. OnlyThread(t) /\ OwnNext(t)
    BY <2>1, <2>2 DEF OnlyThread, OwnNext
  <2>4. Operation(t)' = Operation(t)
    BY <1>2, <2>1, <2>2 DEF Operation, FoundNothing, Pushing, Popping
  <2> QED
    BY <1>2, <1>3, <2>3, <2>4, SameContent, Unseen
<1>9. CASE PopCas(t) /\ ~SameTop(t)
  <2>1. /\ Goto(t, "PopCas", "PopIdx")
        /\ loc' = [loc EXCEPT ![t] = NoLocals] /\ next' = next
    BY <1>9 DEF PopCas, nodeVars
  <2>2. /\ pc[t] = "PopCas" /\ pc'[t] = "PopIdx"
        /\ \A u \in Threads \ {t} : pc'[u] = pc[u]
    BY <1>1, <2>1, GotoOnly
  <2>3. \A u \in Threads \ {t} : loc'[u] = loc[u]
    BY <1>1, <2>1, LocOnly
  <2>4. OnlyThread(t) /\ OwnNext(t)
    BY <2>1, <2>2, <2>3 DEF OnlyThread, OwnNext
  <2>5. Operation(t)' = Operation(t)
    BY <2>2 DEF Operation, FoundNothing, Pushing, Popping
  <2> QED
    BY <1>2, <1>3, <2>4, <2>5, SameContent, Unseen
<1> QED
  BY <1>4, <1>5, <1>6, <1>7, <1>8, <1>9

LEMMA RefineStep ==
    ASSUME StackInv, [Next]_vars
    PROVE  Abstract!Next \/ UNCHANGED Abstract!vars
<1>1. ASSUME NEW t \in Threads, Pop(t) \/ \E v \in Values : Push(t, v)
      PROVE  Abstract!Next
  BY <1>1, RefineCall
<1>2. ASSUME NEW t \in Threads, Step(t)
      PROVE  Abstract!Next \/ UNCHANGED Abstract!vars
  BY <1>2, RefinePushCas, RefinePopCas, RefinePopTop, RefinePopNext, RefinePopFree,
     RefineHidden DEF Step
<1>3. CASE UNCHANGED vars
  <2>1. UNCHANGED <<top, next, data, pc, loc>>
    BY <1>3 DEF vars, nodeVars
  <2>2. Content' = Content
    BY <2>1 DEF Content, Depth, List
  <2>3. \A t \in Threads : Operation(t)' = Operation(t)
    BY <2>1 DEF Operation, FoundNothing
  <2> QED
    BY <2>2, <2>3 DEF Abstract!vars
<1> QED
  BY <1>1, <1>2, <1>3 DEF Next

(* CLockFreeStack is linearizable for every number of threads and nodes:     *)
(* each Push and each Pop (CLockFreeStack.h:54-89) takes effect at one step  *)
(* of its own on a last-in first-out stack, and Pop returns false only if    *)
(* the stack was empty when it read _top (line 75).                          *)
THEOREM StackIsAtomic == Spec => ImplementsAtomicStack
<1>1. Init => Abstract!Init
  <2> SUFFICES ASSUME Init
               PROVE  Abstract!Init
    OBVIOUS
  <2>1. StackInv /\ top \notin Nodes
    BY InitStackInv, StackAssumption DEF Init
  <2>2. Depth = 0
    BY <2>1, TheList, FS_EmptySet
  <2>3. Content = << >>
    BY <2>2 DEF Content
  <2>4. \A t \in Threads : Operation(t) = [kind |-> "idle"]
    BY DEF Init, Operation, FoundNothing, Pushing, Popping
  <2> QED
    BY <2>3, <2>4 DEF Abstract!Init, Abstract!Idle
<1>2. StackInv /\ [Next]_vars => [Abstract!Next]_(Abstract!vars)
  BY RefineStep
<1> QED
  BY <1>1, <1>2, StackInvariant, PTL DEF Spec, ImplementsAtomicStack, Abstract!Spec
=============================================================================
