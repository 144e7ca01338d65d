--------------------------- MODULE CLockFreeStack ---------------------------
(***************************************************************************)
(* CLockFreeStack (src/LoginServer_Chat/CLockFreeStack.h), the stack that  *)
(* holds the free session slots.  Push exchanges _top alone, Pop exchanges *)
(* _top and _uniqIdx together; nodes go back to a pool that all threads    *)
(* share and come out of it again with their old fields.                   *)
(*                                                                         *)
(* One step is one access to memory that another thread may access too.    *)
(* The pool is atomic, and which of its nodes Alloc returns is open.       *)
(*                                                                         *)
(* Operators marked "faulty variant" are not part of the specification.    *)
(***************************************************************************)
EXTENDS Integers, FiniteSets, Sequences, LinkedList

CONSTANTS Threads,
          Nodes,        \* bound: the nodes the pool can hand out
          Values,       \* what callers push
          Dummy,        \* &_dummyNode
          Null,         \* nullptr
          Empty,        \* Pop returns false
          MaxPops       \* bound: no Pop is called past this _uniqIdx

ASSUME StackAssumption ==
    /\ IsFiniteSet(Nodes)
    /\ Dummy \notin Nodes
    /\ Null \notin Nodes \cup {Dummy}
    /\ Empty \notin Values
    /\ MaxPops \in Nat

VARIABLES
    top, uniqIdx,       \* _uniqTop
    next, data,         \* the fields of the nodes
    pool,               \* the nodes in poolManager
    pc,                 \* where each thread is
    loc                 \* the local variables of each thread

nodeVars == <<next, data>>
vars == <<top, uniqIdx, nodeVars, pool, pc, loc>>

Pushing == {"PushLoad", "PushLink", "PushCas"}
Popping == {"PopIdx", "PopTop", "PopNext", "PopCas"}
Taking  == {"PopData", "PopFree"}

(* node is pNewnode or popNode._top, idx is popNode._uniqIdx, other is    *)
(* bkTop or pNextTop, and val is what Pop read from the node               *)
NoLocals == [node |-> Null, idx |-> 0, other |-> Null, val |-> Empty]

Pointers == Nodes \cup {Dummy, Null}

(* The types of the state; _top always points to a node (lines 43, 64, 84). *)
TypeOK ==
    /\ top \in Nodes \cup {Dummy}
    /\ uniqIdx \in Nat
    /\ next \in [Nodes \cup {Dummy} -> Pointers]
    /\ data \in [Nodes -> Values \cup {Empty}]
    /\ pool \subseteq Nodes
    /\ pc \in [Threads -> {"idle"} \cup Pushing \cup Popping \cup Taking]
    /\ loc \in [Threads -> [node : Pointers, idx : Nat, other : Pointers,
                            val : Values \cup {Empty}]]

Init ==
    /\ top = Dummy
    /\ uniqIdx = 0
    /\ next = [n \in Nodes \cup {Dummy} |-> Null]
    /\ data = [n \in Nodes |-> Empty]
    /\ pool = Nodes
    /\ pc = [t \in Threads |-> "idle"]
    /\ loc = [t \in Threads |-> NoLocals]

(* thread t goes on; or it returns, and its local variables are gone *)
Goto(t, here, there) == pc[t] = here /\ pc' = [pc EXCEPT ![t] = there]

Return(t, here) == Goto(t, here, "idle") /\ loc' = [loc EXCEPT ![t] = NoLocals]

-----------------------------------------------------------------------------
(* Push *)

Push(t, v) ==
    /\ Goto(t, "idle", "PushLoad")
    /\ \E n \in pool :
           /\ pool' = pool \ {n}
           /\ data' = [data EXCEPT ![n] = v]
           /\ loc' = [loc EXCEPT ![t].node = n]
    /\ UNCHANGED <<top, uniqIdx, next>>

PushLoad(t) ==
    /\ Goto(t, "PushLoad", "PushLink")
    /\ loc' = [loc EXCEPT ![t].other = top]
    /\ UNCHANGED <<top, uniqIdx, nodeVars, pool>>

PushLink(t) ==
    /\ Goto(t, "PushLink", "PushCas")
    /\ next' = [next EXCEPT ![loc[t].node] = loc[t].other]
    /\ UNCHANGED <<top, uniqIdx, data, pool, loc>>

(* faulty variant: the loop repeats the exchange with the old top *)
PushRetryNoReload == "PushCas"

(* where the loop continues when another thread changed the top *)
PushRetry == "PushLoad"

PushCas(t) ==
    /\ \/ /\ top = loc[t].other
          /\ Return(t, "PushCas")
          /\ top' = loc[t].node
       \/ /\ top # loc[t].other
          /\ Goto(t, "PushCas", PushRetry)
          /\ UNCHANGED <<top, loc>>
    /\ UNCHANGED <<uniqIdx, nodeVars, pool>>

-----------------------------------------------------------------------------
(* Pop *)

Pop(t) ==
    /\ Goto(t, "idle", "PopIdx")
    /\ uniqIdx + Cardinality({u \in Threads : pc[u] \in Popping}) < MaxPops
    /\ UNCHANGED <<top, uniqIdx, nodeVars, pool, loc>>

PopIdx(t) ==
    /\ Goto(t, "PopIdx", "PopTop")
    /\ loc' = [loc EXCEPT ![t].idx = uniqIdx]
    /\ UNCHANGED <<top, uniqIdx, nodeVars, pool>>

PopTop(t) ==
    /\ Goto(t, "PopTop", "PopNext")
    /\ loc' = [loc EXCEPT ![t].node = top]
    /\ UNCHANGED <<top, uniqIdx, nodeVars, pool>>

(* faulty variant: the end of the list is not noticed *)
PopNextUnchecked(t) ==
    /\ Goto(t, "PopNext", "PopCas")
    /\ loc' = [loc EXCEPT ![t].other = next[loc[t].node]]
    /\ UNCHANGED <<top, uniqIdx, nodeVars, pool>>

(* faulty variant: _uniqIdx is read after _top and the node's _next *)
PopNextReadsIdx(t) ==
    /\ \/ /\ Goto(t, "PopNext", "PopCas")
          /\ next[loc[t].node] # Null
          /\ loc' = [loc EXCEPT ![t].other = next[loc[t].node], ![t].idx = uniqIdx]
       \/ /\ Return(t, "PopNext")
          /\ next[loc[t].node] = Null
    /\ UNCHANGED <<top, uniqIdx, nodeVars, pool>>

(* the field is read whoever owns the node by now *)
PopNext(t) ==
    /\ \/ /\ Goto(t, "PopNext", "PopCas")
          /\ next[loc[t].node] # Null
          /\ loc' = [loc EXCEPT ![t].other = next[loc[t].node]]
       \/ /\ Return(t, "PopNext")
          /\ next[loc[t].node] = Null
    /\ UNCHANGED <<top, uniqIdx, nodeVars, pool>>

(* faulty variant: the exchange compares _top alone *)
SameTopPointer(t) == top = loc[t].node

(* what the 128-bit exchange compares *)
SameTop(t) == top = loc[t].node /\ uniqIdx = loc[t].idx

PopCas(t) ==
    /\ \/ /\ SameTop(t)
          /\ Goto(t, "PopCas", "PopData")
          /\ top' = loc[t].other
          /\ uniqIdx' = uniqIdx + 1
          /\ UNCHANGED loc
       \/ /\ ~SameTop(t)
          /\ Goto(t, "PopCas", "PopIdx")
          /\ loc' = [loc EXCEPT ![t] = NoLocals]
          /\ UNCHANGED <<top, uniqIdx>>
    /\ UNCHANGED <<nodeVars, pool>>

PopData(t) ==
    /\ Goto(t, "PopData", "PopFree")
    /\ loc' = [loc EXCEPT ![t].val = data[loc[t].node]]
    /\ UNCHANGED <<top, uniqIdx, nodeVars, pool>>

PopFree(t) ==
    /\ Return(t, "PopFree")
    /\ pool' = pool \cup {loc[t].node}
    /\ UNCHANGED <<top, uniqIdx, nodeVars>>

-----------------------------------------------------------------------------
Step(t) ==
    \/ PushLoad(t) \/ PushLink(t) \/ PushCas(t)
    \/ PopIdx(t) \/ PopTop(t) \/ PopNext(t) \/ PopCas(t)
    \/ PopData(t) \/ PopFree(t)

Next == \E t \in Threads :
            \/ \E v \in Values : Push(t, v)
            \/ Pop(t)
            \/ Step(t)

(* a thread inside Push or Pop goes on *)
Fairness == \A t \in Threads : WF_vars(Step(t))

Spec == Init /\ [][Next]_vars /\ Fairness

-----------------------------------------------------------------------------
(* the nodes one meets from _top on, and how many there are before Dummy *)
List == Walk(top, next, Nodes, Dummy)

Depth == Length(List, Nodes)

Linked == Listed(List, Nodes)

Owned(t) == IF pc[t] \in Pushing \cup Taking THEN {loc[t].node} ELSE {}

(***************************************************************************)
(* Every node is in the pool, or linked in the stack once, or owned by one *)
(* thread inside Push or Pop (CLockFreeStack.h:54-89): recycling a node    *)
(* under a thread that still reads it neither loses a node nor hands it    *)
(* out twice.                                                              *)
(***************************************************************************)
NodesAccounted ==
    /\ Depth = Cardinality(Linked)
    /\ pool \cup Linked \cup UNION {Owned(t) : t \in Threads} = Nodes
    /\ pool \cap Linked = {}
    /\ \A t \in Threads :
           /\ Owned(t) \cap (pool \cup Linked) = {}
           /\ \A u \in Threads \ {t} : Owned(t) \cap Owned(u) = {}

(***************************************************************************)
(* Refinement of AtomicStack.  A Push takes effect with its exchange, a    *)
(* successful Pop with its exchange, and a Pop that fails when it reads    *)
(* _top and finds the dummy node.                                          *)
(***************************************************************************)
Content == [i \in 1 .. Depth |-> data[List[i - 1]]]

FoundNothing(t) == pc[t] = "PopNext" /\ loc[t].node = Dummy

Operation(t) ==
    CASE pc[t] = "idle" -> [kind |-> "idle"]
      [] pc[t] \in Pushing -> [kind |-> "push", val |-> data[loc[t].node]]
      [] pc[t] \in Popping /\ ~FoundNothing(t) -> [kind |-> "pop"]
      [] FoundNothing(t) -> [kind |-> "popped", val |-> Empty]
      [] pc[t] = "PopData" -> [kind |-> "popped", val |-> data[loc[t].node]]
      [] pc[t] = "PopFree" -> [kind |-> "popped", val |-> loc[t].val]

Abstract == INSTANCE AtomicStack
                WITH content <- Content, op <- [t \in Threads |-> Operation(t)]

(* CLockFreeStack is linearizable: it implements AtomicStack. *)
ImplementsAtomicStack == Abstract!Spec

(***************************************************************************)
(* The loops of Push and Pop end (lines 60-64 and 72-84): an exchange      *)
(* fails only because another thread's succeeded, so as long as finitely   *)
(* many operations are called, every one returns.                          *)
(***************************************************************************)
EveryCallReturns == \A t \in Threads : pc[t] # "idle" ~> pc[t] = "idle"

-----------------------------------------------------------------------------
(* The inductive invariant *)

(* The list ends at the dummy node, and a node that was once on top has had  *)
(* its _next field set: only the dummy node's is nullptr to a Pop.           *)
ListOK ==
    /\ HasChain(top, next, Nodes, Dummy)
    /\ next[Dummy] = Null
    /\ \A n \in Linked : next[n] # Null /\ data[n] \in Values

(* Before its exchange a Push has linked its node to the top it read. *)
PushOK(t) ==
    /\ pc[t] \in {"PushLink", "PushCas"} => loc[t].other \in Nodes \cup {Dummy}
    /\ pc[t] = "PushCas" => next[loc[t].node] = loc[t].other

(* A Pop that finds the _uniqIdx it has read has seen no other Pop: the node *)
(* it has read since is still listed, with the successor it has read.        *)
PopOK(t) ==
    /\ pc[t] \in {"PopTop", "PopNext", "PopCas"} => loc[t].idx <= uniqIdx
    /\ pc[t] = "PopNext" =>
          /\ loc[t].node \in Nodes \cup {Dummy}
          /\ loc[t].node # Dummy => next[loc[t].node] # Null
    /\ pc[t] = "PopCas" =>
          /\ loc[t].node \in Nodes
          /\ loc[t].other \in Nodes \cup {Dummy}
    /\ pc[t] \in {"PopNext", "PopCas"} /\ loc[t].idx = uniqIdx =>
          /\ loc[t].node \in Linked \cup {Dummy}
          /\ pc[t] = "PopCas" => next[loc[t].node] = loc[t].other

(* what a caller pushed is in its node until the node is freed *)
DataOK(t) ==
    /\ pc[t] \in Pushing \cup {"PopData"} => data[loc[t].node] \in Values
    /\ pc[t] = "PopFree" => loc[t].val \in Values

StackInv ==
    /\ TypeOK
    /\ ListOK
    /\ \A t \in Threads : PushOK(t) /\ PopOK(t) /\ DataOK(t)
    /\ NodesAccounted
=============================================================================
