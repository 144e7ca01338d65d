-------------------------- MODULE MemoryPoolProofs --------------------------
(***************************************************************************)
(* PoolInv is an inductive invariant of MemoryPool, for any finite number  *)
(* of threads, any number of blocks, any limit and any number of tags.     *)
(*                                                                         *)
(* The free list and the list of added blocks are chains, disjoint from    *)
(* each other and from what a thread owns.  A Pop whose tag is still the   *)
(* one it loaded has seen no other Pop succeed: its block is still listed, *)
(* and nobody writes the next field of a listed block, so the exchange     *)
(* installs the true rest of the list.  The limit is kept because every    *)
(* thread that is adding a block has counted it before (LimitOK).          *)
(***************************************************************************)
EXTENDS MemoryPool, ContainerLemmas

LEMMA BlockSets ==
    /\ IsFiniteSet(Blocks) /\ IsFiniteSet(HeapBlocks)
    /\ HeapBlocks \subseteq Blocks
    /\ Null \notin Blocks /\ Null \notin HeapBlocks
<1>1. IsFiniteSet(Blocks) /\ IsFiniteSet(HeapBlocks)
  <2>1. InitBlockNum + 1 \in Int /\ InitBlockNum + HeapBlockNum \in Int
    BY PoolAssumption
  <2> QED
    BY <2>1, FS_Interval DEF Blocks, HeapBlocks
<1>2. HeapBlocks \subseteq Blocks /\ Null \notin Blocks /\ Null \notin HeapBlocks
  BY PoolAssumption DEF Blocks, HeapBlocks, Null
<1> QED
  BY <1>1, <1>2

(* where a thread can be *)
Pcs == {"idle"} \cup Allocating \cup Adding \cup Giving \cup Pushing
Locals == [blk : Pointers, top : Tops, other : Pointers]

LEMMA NoLocalsType == NoLocals \in Locals
  BY DEF NoLocals, Locals, Pointers, Tops, Null

-----------------------------------------------------------------------------
(* A step of thread t: the others stay where they are, and a next field      *)
(* changes only in the block that t owns.                                    *)
OnlyThread(t) == \A u \in Threads \ {t} : pc'[u] = pc[u] /\ loc'[u] = loc[u]

OwnNext(t) == \A x \in Blocks : next'[x] # next[x] => x \in Owned(t)

OwnAllocNext(t) ==
    \A x \in HeapBlocks :
        allocNext'[x] # allocNext[x] => pc[t] \in Adding /\ x = loc[t].blk

LEMMA GotoOnly ==
    ASSUME TypeOK, NEW t \in Threads, NEW here, NEW there, Goto(t, here, there)
    PROVE  /\ pc[t] = here /\ pc'[t] = there
           /\ \A u \in Threads \ {t} : pc'[u] = pc[u]
           /\ there \in Pcs => pc' \in [Threads -> Pcs]
  BY DEF TypeOK, Goto, Pcs

LEMMA LocOnly ==
    ASSUME TypeOK, NEW t \in Threads, NEW l, loc' = [loc EXCEPT ![t] = l]
    PROVE  /\ loc'[t] = l
           /\ \A u \in Threads \ {t} : loc'[u] = loc[u]
           /\ l \in Locals => loc' \in [Threads -> Locals]
  BY DEF TypeOK, Locals

(* a local variable is assigned *)
LEMMA LocField ==
    ASSUME TypeOK, NEW t \in Threads
    PROVE  /\ loc[t] \in Locals
           /\ \A x : /\ loc' = [loc EXCEPT ![t].blk = x] =>
                           /\ loc'[t].blk = x /\ loc'[t].top = loc[t].top
                           /\ loc'[t].other = loc[t].other
                           /\ \A u \in Threads \ {t} : loc'[u] = loc[u]
                           /\ x \in Pointers => loc' \in [Threads -> Locals]
                     /\ loc' = [loc EXCEPT ![t].top = x] =>
                           /\ loc'[t].top = x /\ loc'[t].blk = loc[t].blk
                           /\ loc'[t].other = loc[t].other
                           /\ \A u \in Threads \ {t} : loc'[u] = loc[u]
                           /\ x \in Tops => loc' \in [Threads -> Locals]
                     /\ loc' = [loc EXCEPT ![t].other = x] =>
                           /\ loc'[t].other = x /\ loc'[t].blk = loc[t].blk
                           /\ loc'[t].top = loc[t].top
                           /\ \A u \in Threads \ {t} : loc'[u] = loc[u]
                           /\ x \in Pointers => loc' \in [Threads -> Locals]
<1>1. loc[t] \in Locals
  BY DEF TypeOK, Locals
<1>2. ASSUME NEW x, loc' = [loc EXCEPT ![t].blk = x]
      PROVE  /\ loc'[t].blk = x /\ loc'[t].top = loc[t].top
             /\ loc'[t].other = loc[t].other
             /\ \A u \in Threads \ {t} : loc'[u] = loc[u]
             /\ x \in Pointers => loc' \in [Threads -> Locals]
  BY <1>1, <1>2 DEF TypeOK, Locals
<1>3. ASSUME NEW x, loc' = [loc EXCEPT ![t].top = x]
      PROVE  /\ loc'[t].top = x /\ loc'[t].blk = loc[t].blk
             /\ loc'[t].other = loc[t].other
             /\ \A u \in Threads \ {t} : loc'[u] = loc[u]
             /\ x \in Tops => loc' \in [Threads -> Locals]
  BY <1>1, <1>3 DEF TypeOK, Locals
<1>4. ASSUME NEW x, loc' = [loc EXCEPT ![t].other = x]
      PROVE  /\ loc'[t].other = x /\ loc'[t].blk = loc[t].blk
             /\ loc'[t].top = loc[t].top
             /\ \A u \in Threads \ {t} : loc'[u] = loc[u]
             /\ x \in Pointers => loc' \in [Threads -> Locals]
  BY <1>1, <1>4 DEF TypeOK, Locals
<1> QED
  BY <1>1, <1>2, <1>3, <1>4

-----------------------------------------------------------------------------
(* the number of threads in a set of places *)
LEMMA AtStep ==
    ASSUME TypeOK, NEW t \in Threads, \A u \in Threads \ {t} : pc'[u] = pc[u], NEW W
    PROVE  /\ Cardinality(At(W)) \in Nat
           /\ At(W)' = IF pc'[t] \in W THEN At(W) \cup {t} ELSE At(W) \ {t}
           /\ Cardinality(At(W))' = Cardinality(At(W))
                 + (IF pc'[t] \in W THEN 1 ELSE 0) - (IF pc[t] \in W THEN 1 ELSE 0)
<1>1. IsFiniteSet(At(W)) /\ Cardinality(At(W)) \in Nat
  BY FS_Subset, FS_CardinalityType, PoolAssumption DEF At
<1>2. At(W)' = IF pc'[t] \in W THEN At(W) \cup {t} ELSE At(W) \ {t}
  BY DEF At
<1>3. t \in At(W) <=> pc[t] \in W
  BY DEF At
<1>4. Cardinality(At(W) \cup {t}) = IF t \in At(W) THEN Cardinality(At(W))
                                    ELSE Cardinality(At(W)) + 1
  BY <1>1, FS_AddElement
<1>5. Cardinality(At(W) \ {t}) = IF t \in At(W) THEN Cardinality(At(W)) - 1
                                 ELSE Cardinality(At(W))
  BY <1>1, FS_RemoveElement
<1> QED
  BY <1>1, <1>2, <1>3, <1>4, <1>5

-----------------------------------------------------------------------------
(* t moves blocks between the heap, the callers, the free list and itself *)
Moves(t) ==
    /\ heap' \cup held' \cup FreeBlocks' \cup Owned(t)' =
          heap \cup held \cup FreeBlocks \cup Owned(t)
    /\ heap' \cap held' = {}
    /\ FreeBlocks' \cap (heap' \cup held') = {}
    /\ Owned(t)' \cap (heap' \cup held' \cup FreeBlocks') = {}

LEMMA OthersOwn ==
    ASSUME NEW t \in Threads, OnlyThread(t), NEW u \in Threads \ {t}
    PROVE  Owned(u)' = Owned(u)
  BY DEF OnlyThread, Owned

LEMMA AccountStep ==
    ASSUME BlocksAccounted, NEW t \in Threads, OnlyThread(t), Moves(t), ListsOK'
    PROVE  BlocksAccounted'
<1> DEFINE Mine == heap \cup held \cup FreeBlocks \cup Owned(t)
           Others == UNION {Owned(u) : u \in Threads \ {t}}
<1>1. Length(FreeList, Blocks)' = Cardinality(FreeBlocks)'
  <2>1. HasChain(freeStackTop'.ptr, next', Blocks, Null)
    BY DEF ListsOK
  <2>2. Length(Walk(freeStackTop'.ptr, next', Blocks, Null), Blocks) =
          Cardinality(Listed(Walk(freeStackTop'.ptr, next', Blocks, Null), Blocks))
    BY <2>1, BlockSets, ListCounted
  <2> QED
    BY <2>2 DEF FreeList, FreeBlocks
<1>2. \A u \in Threads \ {t} : Owned(u)' = Owned(u)
  BY OthersOwn
<1>3. /\ heap \cup held \cup FreeBlocks \cup UNION {Owned(u) : u \in Threads} = Blocks
      /\ \A u \in Threads :
           /\ Owned(u) \cap (heap \cup held \cup FreeBlocks) = {}
           /\ \A v \in Threads \ {u} : Owned(u) \cap Owned(v) = {}
  BY DEF BlocksAccounted
<1>4. UNION {Owned(u) : u \in Threads} = Owned(t) \cup Others
  OBVIOUS
<1>5. Mine \cup Others = Blocks
  BY <1>3, <1>4
<1>6. \A u \in Threads \ {t} : Owned(u) \cap Mine = {}
  BY <1>3
<1>7. heap' \cup held' \cup FreeBlocks' \cup Owned(t)' = Mine
  BY DEF Moves
<1>8. UNION {Owned(u)' : u \in Threads} = Owned(t)' \cup Others
  BY <1>2
<1>9. heap' \cup held' \cup FreeBlocks' \cup UNION {Owned(u)' : u \in Threads} = Blocks
  <2> HIDE DEF Mine, Others
  <2> QED
    BY <1>5, <1>7, <1>8
<1>10. \A u \in Threads \ {t} :
          /\ Owned(u)' \cap (heap' \cup held' \cup FreeBlocks') = {}
          /\ Owned(u)' \cap Owned(t)' = {}
  <2> HIDE DEF Mine
  <2> QED
    BY <1>2, <1>6, <1>7
<1>11. \A u \in Threads : \A v \in Threads \ {u} : Owned(u)' \cap Owned(v)' = {}
  BY <1>2, <1>3, <1>10
<1>12. \A u \in Threads : Owned(u)' \cap (heap' \cup held' \cup FreeBlocks') = {}
  BY <1>10 DEF Moves
<1> QED
  BY <1>1, <1>9, <1>11, <1>12 DEF BlocksAccounted, Moves

(* the other threads' exchanges still have what they rely on *)
LEMMA OthersOK ==
    ASSUME PoolInv, NEW t \in Threads, OnlyThread(t), OwnNext(t), OwnAllocNext(t),
           freeStackTop'.tag \in Nat, freeStackTop.tag <= freeStackTop'.tag,
           freeStackTop'.tag = freeStackTop.tag => FreeBlocks \subseteq FreeBlocks',
           NEW u \in Threads \ {t}
    PROVE  PopOK(u)' /\ PushOK(u)' /\ AddOK(u)'
<1>1. pc'[u] = pc[u] /\ loc'[u] = loc[u]
  BY DEF OnlyThread
<1>2. PopOK(u) /\ PushOK(u) /\ AddOK(u)
  BY DEF PoolInv
<1>3. Owned(t) \cap FreeBlocks = {} /\ Owned(t) \cap Owned(u) = {} /\ Owned(u) \subseteq Blocks
  BY DEF PoolInv, BlocksAccounted
<1>4. freeStackTop.tag \in Nat /\ loc[u].top.tag \in Nat
  BY DEF PoolInv, TypeOK, Tops
<1>5. PopOK(u)'
  <2> SUFFICES ASSUME pc[u] \in {"PopNext", "PopCas"}
               PROVE  /\ loc[u].top.ptr \in Blocks
                      /\ loc[u].top.tag =< freeStackTop'.tag
                      /\ loc[u].top.tag = freeStackTop'.tag =>
                            /\ loc[u].top.ptr \in FreeBlocks'
                            /\ pc[u] = "PopCas" => next'[loc[u].top.ptr] = loc[u].other
    BY <1>1 DEF PopOK
  <2>1. loc[u].top.ptr \in Blocks /\ loc[u].top.tag =< freeStackTop.tag
    BY <1>2 DEF PopOK
  <2>2. loc[u].top.tag =< freeStackTop'.tag
    BY <1>4, <2>1
  <2>3. ASSUME loc[u].top.tag = freeStackTop'.tag
        PROVE  /\ loc[u].top.ptr \in FreeBlocks'
               /\ pc[u] = "PopCas" => next'[loc[u].top.ptr] = loc[u].other
    <3>1. freeStackTop'.tag = freeStackTop.tag /\ loc[u].top.tag = freeStackTop.tag
      BY <1>4, <2>1, <2>3
    <3>2. /\ loc[u].top.ptr \in FreeBlocks
          /\ pc[u] = "PopCas" => next[loc[u].top.ptr] = loc[u].other
      BY <1>2, <3>1 DEF PopOK
    <3>3. next'[loc[u].top.ptr] = next[loc[u].top.ptr]
      BY <1>3, <2>1, <3>2 DEF OwnNext
    <3> QED
      BY <3>1, <3>2, <3>3
  <2> QED
    BY <2>1, <2>2, <2>3
<1>6. PushOK(u)'
  <2> SUFFICES ASSUME pc[u] = "PushCas"
               PROVE  next'[loc[u].blk] = loc[u].top.ptr
    BY <1>1 DEF PushOK
  <2>1. loc[u].blk \in Owned(u)
    BY DEF Owned, Pushing
  <2>2. next'[loc[u].blk] = next[loc[u].blk]
    BY <1>3, <2>1 DEF OwnNext
  <2> QED
    BY <1>2, <2>2 DEF PushOK
<1>7. AddOK(u)'
  <2> SUFFICES ASSUME pc[u] \in Adding
               PROVE  /\ loc[u].blk \in HeapBlocks
                      /\ pc[u] = "BaCas" => allocNext'[loc[u].blk] = loc[u].other
    BY <1>1 DEF AddOK, Adding
  <2>1. loc[u].blk \in Owned(u) /\ (pc[t] \in Adding => loc[t].blk \in Owned(t))
    BY DEF Owned
  <2>2. loc[u].blk \in HeapBlocks
    BY <1>2 DEF AddOK
  <2>3. allocNext'[loc[u].blk] = allocNext[loc[u].blk]
    BY <1>3, <2>1, <2>2 DEF OwnAllocNext
  <2> QED
    BY <1>2, <2>2, <2>3 DEF AddOK
<1> QED
  BY <1>5, <1>6, <1>7

(* the blocks on their way to the list of added blocks *)
BeingAdded == {loc[t].blk : t \in {u \in Threads : pc[u] \in Adding}}

(* what is left to show of a step *)
LEMMA StepInv ==
    ASSUME PoolInv, NEW t \in Threads, OnlyThread(t), OwnNext(t), OwnAllocNext(t),
           freeStackTop.tag <= freeStackTop'.tag,
           freeStackTop'.tag = freeStackTop.tag => FreeBlocks \subseteq FreeBlocks',
           PopOK(t)', PushOK(t)', AddOK(t)', Moves(t),
           AddedBlocks' = (HeapBlocks \ heap') \ BeingAdded',
           TypeOK', ListsOK', TagOK', LimitOK', MarksExact'
    PROVE  PoolInv'
<1>1. BlocksAccounted'
  BY AccountStep DEF PoolInv
<1>2. freeStackTop'.tag \in Nat
  BY DEF TypeOK, Tops
<1>3. \A u \in Threads : PopOK(u)' /\ PushOK(u)' /\ AddOK(u)'
  BY <1>2, OthersOK
<1>4. AddedBlocksListed'
  <2>1. HasChain(allocTop', allocNext', HeapBlocks, Null)
    BY DEF ListsOK
  <2>2. Length(Walk(allocTop', allocNext', HeapBlocks, Null), HeapBlocks) =
          Cardinality(Listed(Walk(allocTop', allocNext', HeapBlocks, Null), HeapBlocks))
    BY <2>1, BlockSets, ListCounted
  <2>3. Length(AllocList, HeapBlocks)' = Cardinality(AddedBlocks)'
    BY <2>2 DEF AllocList, AddedBlocks
  <2> QED
    BY <2>3 DEF AddedBlocksListed, BeingAdded
<1> QED
  BY <1>1, <1>3, <1>4 DEF PoolInv

-----------------------------------------------------------------------------
(* what a step leaves alone *)

LEMMA FreeFrame ==
    ASSUME PoolInv, NEW t \in Threads, freeStackTop' = freeStackTop, OwnNext(t)
    PROVE  HasChain(freeStackTop.ptr, next, Blocks, Null)' /\ FreeBlocks' = FreeBlocks
<1> DEFINE b == freeStackTop.ptr
<1>1. HasChain(b, next, Blocks, Null)
  BY DEF PoolInv, ListsOK
<1>2. \A x \in Listed(Walk(b, next, Blocks, Null), Blocks) : next'[x] = next[x]
  <2>1. FreeBlocks = Listed(Walk(b, next, Blocks, Null), Blocks)
    BY DEF FreeBlocks, FreeList
  <2>2. FreeBlocks \subseteq Blocks /\ Owned(t) \cap FreeBlocks = {}
    BY DEF PoolInv, BlocksAccounted
  <2> QED
    BY <2>1, <2>2 DEF OwnNext
<1> HIDE DEF b
<1>3. /\ HasChain(b, next', Blocks, Null)
      /\ Walk(b, next', Blocks, Null) = Walk(b, next, Blocks, Null)
  BY <1>1, <1>2, BlockSets, SameList
<1> QED
  BY <1>3 DEF b, FreeBlocks, FreeList

LEMMA AllocFrame ==
    ASSUME PoolInv, UNCHANGED <<allocTop, allocNext>>
    PROVE  HasChain(allocTop, allocNext, HeapBlocks, Null)' /\ AddedBlocks' = AddedBlocks
  BY DEF PoolInv, ListsOK, AddedBlocks, AllocList

LEMMA AddedFrame ==
    ASSUME PoolInv, NEW t \in Threads, OnlyThread(t),
           UNCHANGED <<allocTop, allocNext, heap>>,
           pc'[t] \in Adding <=> pc[t] \in Adding,
           pc[t] \in Adding => loc'[t].blk = loc[t].blk
    PROVE  AddedBlocks' = (HeapBlocks \ heap') \ BeingAdded'
<1>1. BeingAdded' = BeingAdded
  BY DEF OnlyThread, BeingAdded
<1>2. AddedBlocks = (HeapBlocks \ heap) \ BeingAdded
  BY DEF PoolInv, AddedBlocksListed, BeingAdded
<1> QED
  BY <1>1, <1>2, AllocFrame

LEMMA MovesNot ==
    ASSUME PoolInv, NEW t \in Threads, UNCHANGED <<heap, held>>,
           FreeBlocks' = FreeBlocks, Owned(t)' = Owned(t)
    PROVE  Moves(t)
  BY DEF PoolInv, BlocksAccounted, Moves

LEMMA LimitFrame ==
    ASSUME PoolInv, NEW t \in Threads, OnlyThread(t), UNCHANGED <<heap, addAllocCnt>>,
           pc[t] \notin {"Malloc", "AddUndo"}, pc'[t] \notin {"Malloc", "AddUndo"}
    PROVE  LimitOK'
<1>1. At({"Malloc"})' = At({"Malloc"}) /\ At({"AddUndo"})' = At({"AddUndo"})
  BY DEF At, OnlyThread
<1> QED
  BY <1>1 DEF PoolInv, LimitOK

LEMMA TagFrame ==
    ASSUME PoolInv, NEW t \in Threads, OnlyThread(t), freeStackTop'.tag = freeStackTop.tag,
           pc'[t] \in Allocating => pc[t] \in Allocating
    PROVE  TagOK'
<1>1. /\ Cardinality(At(Allocating)) \in Nat
      /\ Cardinality(At(Allocating))' = Cardinality(At(Allocating))
            + (IF pc'[t] \in Allocating THEN 1 ELSE 0)
            - (IF pc[t] \in Allocating THEN 1 ELSE 0)
  BY AtStep DEF PoolInv, OnlyThread
<1>2. freeStackTop.tag \in Nat /\ TagMod \in Nat
  BY PoolAssumption DEF PoolInv, TypeOK, Tops
<1>3. freeStackTop.tag + Cardinality(At(Allocating)) < TagMod
  BY DEF PoolInv, TagOK
<1>4. freeStackTop'.tag + Cardinality(At(Allocating))' < TagMod
  BY <1>1, <1>2, <1>3
<1> QED
  BY <1>4 DEF TagOK

LEMMA MarksFrame ==
    ASSUME PoolInv, UNCHANGED debugVars
    PROVE  MarksExact'
  BY DEF PoolInv, MarksExact, debugVars

(* a step that moves no block and meets no limit *)
LEMMA QuietStep ==
    ASSUME PoolInv, NEW t \in Threads, OnlyThread(t), freeStackTop' = freeStackTop,
           OwnNext(t), UNCHANGED <<addVars, debugVars>>, Owned(t)' = Owned(t),
           pc[t] \notin {"Malloc", "AddUndo"} \cup Adding,
           pc'[t] \notin {"Malloc", "AddUndo"} \cup Adding,
           TagOK', TypeOK', PopOK(t)', PushOK(t)'
    PROVE  PoolInv'
<1>1. UNCHANGED <<heap, held, addAllocCnt, allocTop, allocNext>>
  BY DEF addVars, debugVars
<1>2. HasChain(freeStackTop.ptr, next, Blocks, Null)' /\ FreeBlocks' = FreeBlocks
  BY FreeFrame
<1>3. ListsOK'
  BY <1>1, <1>2, AllocFrame DEF ListsOK
<1>4. Moves(t)
  BY <1>1, <1>2, MovesNot
<1>5. AddedBlocks' = (HeapBlocks \ heap') \ BeingAdded'
  BY <1>1, AddedFrame
<1>6. LimitOK' /\ MarksExact'
  BY <1>1, LimitFrame, MarksFrame
<1>7. OwnAllocNext(t)
  BY <1>1 DEF OwnAllocNext
<1>8. AddOK(t)'
  BY DEF AddOK, Adding
<1>9. freeStackTop.tag <= freeStackTop'.tag
  BY DEF PoolInv, TypeOK, Tops
<1> QED
  BY <1>2, <1>3, <1>4, <1>5, <1>6, <1>7, <1>8, <1>9, StepInv

-----------------------------------------------------------------------------
(* Alloc: Pop *)

LEMMA AllocInv ==
    ASSUME PoolInv, NEW t \in Threads, Alloc(t)
    PROVE  PoolInv'
<1>1. TypeOK
  BY DEF PoolInv
<1>2. Goto(t, "idle", "PopLoad") /\ UNCHANGED <<poolVars, addVars, debugVars, loc>>
  BY DEF Alloc
<1>3. /\ pc[t] = "idle" /\ pc'[t] = "PopLoad"
      /\ \A u \in Threads \ {t} : pc'[u] = pc[u]
      /\ pc' \in [Threads -> Pcs]
  BY <1>1, <1>2, GotoOnly DEF Pcs, Allocating
<1>4. TypeOK'
  BY <1>1, <1>2, <1>3 DEF TypeOK, Pcs, poolVars, addVars, debugVars
<1>5. OnlyThread(t) /\ OwnNext(t)
  BY <1>2, <1>3 DEF OnlyThread, OwnNext, poolVars
<1>6. Owned(t)' = Owned(t)
  BY <1>3 DEF Owned, Adding, Giving, Pushing
<1>7. TagOK'
  <2>1. /\ Cardinality(At(Allocating)) \in Nat
        /\ Cardinality(At(Allocating))' = Cardinality(At(Allocating))
              + (IF pc'[t] \in Allocating THEN 1 ELSE 0)
              - (IF pc[t] \in Allocating THEN 1 ELSE 0)
    BY <1>1, <1>3, AtStep
  <2>2. pc'[t] \in Allocating /\ pc[t] \notin Allocating
    BY <1>3 DEF Allocating
  <2>3. freeStackTop.tag + Cardinality(At(Allocating)) + 1 < TagMod
    BY DEF Alloc, At
  <2>4. freeStackTop'.tag = freeStackTop.tag /\ freeStackTop.tag \in Nat
    BY <1>1, <1>2 DEF poolVars, TypeOK, Tops
  <2>5. freeStackTop'.tag + Cardinality(At(Allocating))' < TagMod
    BY <2>1, <2>2, <2>3, <2>4, PoolAssumption
  <2> QED
    BY <2>5 DEF TagOK
<1>8. PopOK(t)' /\ PushOK(t)'
  BY <1>3 DEF PopOK, PushOK
<1> QED
  BY <1>2, <1>3, <1>4, <1>5, <1>6, <1>7, <1>8, QuietStep DEF poolVars, Adding

LEMMA PopLoadInv ==
    ASSUME PoolInv, NEW t \in Threads, PopLoad(t)
    PROVE  PoolInv'
<1>1. TypeOK
  BY DEF PoolInv
<1>2. /\ loc' = [loc EXCEPT ![t].top = freeStackTop]
      /\ UNCHANGED <<poolVars, addVars, debugVars>>
  BY DEF PopLoad
<1>3. /\ pc[t] = "PopLoad"
      /\ \/ pc'[t] = "PopNext" /\ freeStackTop.ptr # Null
         \/ pc'[t] = "AddCount"
      /\ \A u \in Threads \ {t} : pc'[u] = pc[u]
      /\ pc' \in [Threads -> Pcs]
  BY <1>1, GotoOnly DEF PopLoad, Pcs, Allocating
<1>4. /\ loc'[t].top = freeStackTop
      /\ \A u \in Threads \ {t} : loc'[u] = loc[u]
      /\ loc' \in [Threads -> Locals]
  BY <1>1, <1>2, LocField DEF TypeOK
<1>5. TypeOK'
  BY <1>1, <1>2, <1>3, <1>4 DEF TypeOK, Pcs, Locals, poolVars, addVars, debugVars
<1>6. OnlyThread(t) /\ OwnNext(t)
  BY <1>2, <1>3, <1>4 DEF OnlyThread, OwnNext, poolVars
<1>7. Owned(t)' = Owned(t)
  BY <1>3 DEF Owned, Adding, Giving, Pushing
<1>8. TagOK'
  BY <1>2, <1>3, <1>6, TagFrame DEF poolVars, Allocating
<1>9. PopOK(t)'
  <2>1. CASE pc'[t] = "PopNext"
    <3>1. freeStackTop.ptr \in Blocks
      BY <1>1, <1>3, <2>1 DEF TypeOK, Tops, Pointers
    <3>2. freeStackTop.ptr \in FreeBlocks
      BY <3>1, ListCounted, BlockSets DEF PoolInv, ListsOK, FreeBlocks, FreeList
    <3>3. FreeBlocks' = FreeBlocks /\ freeStackTop' = freeStackTop
      BY <1>2 DEF FreeBlocks, FreeList, poolVars
    <3>4. freeStackTop.tag \in Nat
      BY <1>1 DEF TypeOK, Tops
    <3> QED
      BY <1>4, <2>1, <3>1, <3>2, <3>3, <3>4 DEF PopOK
  <2>2. CASE pc'[t] = "AddCount"
    BY <2>2 DEF PopOK
  <2> QED
    BY <1>3, <2>1, <2>2
<1>10. PushOK(t)'
  BY <1>3 DEF PushOK
<1> QED
  BY <1>2, <1>3, <1>5, <1>6, <1>7, <1>8, <1>9, <1>10, QuietStep DEF poolVars, Adding

LEMMA PopNextInv ==
    ASSUME PoolInv, NEW t \in Threads, PopNext(t)
    PROVE  PoolInv'
<1>1. TypeOK
  BY DEF PoolInv
<1>2. /\ Goto(t, "PopNext", "PopCas")
      /\ loc' = [loc EXCEPT ![t].other = next[loc[t].top.ptr]]
      /\ UNCHANGED <<poolVars, addVars, debugVars>>
  BY DEF PopNext
<1>3. /\ pc[t] = "PopNext" /\ pc'[t] = "PopCas"
      /\ \A u \in Threads \ {t} : pc'[u] = pc[u]
      /\ pc' \in [Threads -> Pcs]
  BY <1>1, <1>2, GotoOnly DEF Pcs, Allocating
<1>4. /\ loc[t].top.ptr \in Blocks
      /\ loc[t].top.tag =< freeStackTop.tag
      /\ loc[t].top.tag = freeStackTop.tag => loc[t].top.ptr \in FreeBlocks
  BY <1>3 DEF PoolInv, PopOK
<1>5. /\ loc'[t].top = loc[t].top /\ loc'[t].other = next[loc[t].top.ptr]
      /\ \A u \in Threads \ {t} : loc'[u] = loc[u]
      /\ loc' \in [Threads -> Locals]
  <2>1. next[loc[t].top.ptr] \in Pointers
    BY <1>1, <1>4 DEF TypeOK
  <2> QED
    BY <1>1, <1>2, <2>1, LocField
<1>6. TypeOK'
  BY <1>1, <1>2, <1>3, <1>5 DEF TypeOK, Pcs, Locals, poolVars, addVars, debugVars
<1>7. OnlyThread(t) /\ OwnNext(t)
  BY <1>2, <1>3, <1>5 DEF OnlyThread, OwnNext, poolVars
<1>8. Owned(t)' = Owned(t)
  BY <1>3 DEF Owned, Adding, Giving, Pushing
<1>9. TagOK'
  BY <1>2, <1>3, <1>7, TagFrame DEF poolVars, Allocating
<1>10. PopOK(t)'
  <2>1. FreeBlocks' = FreeBlocks /\ freeStackTop' = freeStackTop /\ next' = next
    BY <1>2 DEF FreeBlocks, FreeList, poolVars
  <2> QED
    BY <1>4, <1>5, <2>1 DEF PopOK
<1>11. PushOK(t)'
  BY <1>3 DEF PushOK
<1> QED
  BY <1>2, <1>3, <1>6, <1>7, <1>8, <1>9, <1>10, <1>11, QuietStep DEF poolVars, Adding

(* the exchange of Pop: the tag tells that the block read is still the top   *)
(* and its next field what it was                                            *)
LEMMA PopCasInv ==
    ASSUME PoolInv, NEW t \in Threads, PopCas(t)
    PROVE  PoolInv'
<1>1. TypeOK
  BY DEF PoolInv
<1>2. pc[t] = "PopCas" /\ UNCHANGED <<next, addVars, debugVars>>
  BY DEF PopCas, Goto
<1>3. CASE freeStackTop # loc[t].top
  <2>1. /\ Goto(t, "PopCas", "PopLoad") /\ loc' = [loc EXCEPT ![t] = NoLocals]
        /\ freeStackTop' = freeStackTop
    BY <1>3 DEF PopCas
  <2>2. /\ pc'[t] = "PopLoad"
        /\ \A u \in Threads \ {t} : pc'[u] = pc[u]
        /\ pc' \in [Threads -> Pcs]
    BY <1>1, <2>1, GotoOnly DEF Pcs, Allocating
  <2>3. (\A u \in Threads \ {t} : loc'[u] = loc[u]) /\ loc' \in [Threads -> Locals]
    BY <1>1, <2>1, LocOnly, NoLocalsType
  <2>4. TypeOK'
    BY <1>1, <1>2, <2>1, <2>2, <2>3 DEF TypeOK, Pcs, Locals, addVars, debugVars
  <2>5. OnlyThread(t) /\ OwnNext(t)
    BY <1>2, <2>2, <2>3 DEF OnlyThread, OwnNext
  <2>6. Owned(t)' = Owned(t)
    BY <1>2, <2>2 DEF Owned, Adding, Giving, Pushing
  <2>7. TagOK'
    BY <1>2, <2>1, <2>2, <2>5, TagFrame DEF Allocating
  <2>8. PopOK(t)' /\ PushOK(t)'
    BY <2>2 DEF PopOK, PushOK
  <2> QED
    BY <1>2, <2>1, <2>2, <2>4, <2>5, <2>6, <2>7, <2>8, QuietStep DEF Adding
<1>4. CASE freeStackTop = loc[t].top
  <2> DEFINE b == freeStackTop.ptr
  <2>1. /\ Goto(t, "PopCas", "Take")
        /\ freeStackTop' = [ptr |-> loc[t].other, tag |-> PopTag(loc[t].top.tag)]
        /\ loc' = [loc EXCEPT ![t] = [NoLocals EXCEPT !.blk = loc[t].top.ptr]]
    BY <1>4 DEF PopCas
  <2>2. b \in Blocks /\ b \in FreeBlocks /\ next[b] = loc[t].other /\ loc[t].top.ptr = b
    BY <1>2, <1>4 DEF PoolInv, PopOK
  <2>3. /\ pc'[t] = "Take"
        /\ \A u \in Threads \ {t} : pc'[u] = pc[u]
        /\ pc' \in [Threads -> Pcs]
    BY <1>1, <2>1, GotoOnly DEF Pcs, Giving
  <2>4. /\ loc'[t].blk = b
        /\ \A u \in Threads \ {t} : loc'[u] = loc[u]
        /\ loc' \in [Threads -> Locals]
    <3> DEFINE l == [NoLocals EXCEPT !.blk = loc[t].top.ptr]
    <3>1. l \in Locals /\ l.blk = b
      BY <2>2, NoLocalsType DEF Locals, Pointers
    <3> HIDE DEF l
    <3>2. loc' = [loc EXCEPT ![t] = l]
      BY <2>1 DEF l
    <3> QED
      BY <1>1, <3>1, <3>2, LocOnly
  <2>5. /\ Cardinality(At(Allocating)) \in Nat
        /\ Cardinality(At(Allocating))' = Cardinality(At(Allocating))
              + (IF pc'[t] \in Allocating THEN 1 ELSE 0)
              - (IF pc[t] \in Allocating THEN 1 ELSE 0)
    BY <1>1, <2>3, AtStep
  <2>6. freeStackTop.tag + Cardinality(At(Allocating)) < TagMod
    BY DEF PoolInv, TagOK
  <2>7. pc[t] \in Allocating /\ pc'[t] \notin Allocating
    BY <1>2, <2>3 DEF Allocating
  <2>8. Cardinality(At(Allocating)) >= 1
    <3>1. Cardinality(At(Allocating)) - 1 = Cardinality(At(Allocating))'
      BY <2>5, <2>7
    <3>2. IsFiniteSet(At(Allocating)') /\ Cardinality(At(Allocating)') \in Nat
      BY FS_Subset, FS_CardinalityType, PoolAssumption DEF At
    <3> QED
      BY <2>5, <3>1, <3>2
  <2>9. freeStackTop'.tag = freeStackTop.tag + 1
    <3>1. freeStackTop.tag \in Nat /\ TagMod \in Nat
      BY <1>1, PoolAssumption DEF TypeOK, Tops
    <3>2. freeStackTop.tag + 1 \in 0 .. TagMod - 1
      BY <2>5, <2>6, <2>8, <3>1
    <3>3. (freeStackTop.tag + 1) % TagMod = freeStackTop.tag + 1
      BY <3>1, <3>2
    <3> QED
      BY <1>4, <2>1, <3>3 DEF PopTag
  <2>10. freeStackTop.tag \in Nat /\ freeStackTop' \in Tops
    BY <1>1, <2>1, <2>9 DEF TypeOK, Tops
  <2>11. TypeOK'
    BY <1>1, <1>2, <2>3, <2>4, <2>10 DEF TypeOK, Pcs, Locals, addVars, debugVars
  <2>12. OnlyThread(t) /\ OwnNext(t) /\ OwnAllocNext(t)
    BY <1>2, <2>3, <2>4 DEF OnlyThread, OwnNext, OwnAllocNext, addVars
  <2>13. /\ HasChain(freeStackTop.ptr, next, Blocks, Null)'
         /\ FreeBlocks' = FreeBlocks \ {b}
    <3>1. HasChain(b, next, Blocks, Null)
      BY DEF PoolInv, ListsOK
    <3>2. freeStackTop'.ptr = next[b] /\ next' = next
      BY <1>2, <2>1, <2>2
    <3>3. FreeBlocks = Listed(Walk(b, next, Blocks, Null), Blocks)
      BY DEF FreeBlocks, FreeList
    <3> HIDE DEF b
    <3>4. /\ HasChain(next[b], next, Blocks, Null)
          /\ Listed(Walk(next[b], next, Blocks, Null), Blocks) =
                Listed(Walk(b, next, Blocks, Null), Blocks) \ {b}
      BY <2>2, <3>1, BlockSets, PoppedList
    <3> QED
      BY <3>2, <3>3, <3>4 DEF FreeBlocks, FreeList
  <2>14. ListsOK'
    BY <1>2, <2>13, AllocFrame DEF ListsOK, addVars
  <2>15. Moves(t)
    <3>1. Owned(t)' = {b} /\ Owned(t) = {}
      BY <1>2, <2>3, <2>4 DEF Owned, Adding, Giving, Pushing
    <3>2. heap' = heap /\ held' = held
      BY <1>2 DEF addVars, debugVars
    <3> HIDE DEF b
    <3> QED
      BY <2>2, <2>13, <3>1, <3>2 DEF PoolInv, BlocksAccounted, Moves
  <2>16. AddedBlocks' = (HeapBlocks \ heap') \ BeingAdded'
    BY <1>2, <2>3, <2>12, AddedFrame DEF Adding, addVars
  <2>17. LimitOK' /\ MarksExact'
    BY <1>2, <2>3, <2>12, LimitFrame, MarksFrame DEF addVars
  <2>18. TagOK'
    <3>1. freeStackTop'.tag + Cardinality(At(Allocating))' < TagMod
      BY <2>5, <2>6, <2>7, <2>9, <2>10, PoolAssumption
    <3> QED
      BY <3>1 DEF TagOK
  <2>19. PopOK(t)' /\ PushOK(t)' /\ AddOK(t)'
    BY <2>3 DEF PopOK, PushOK, AddOK, Adding
  <2>20. /\ freeStackTop.tag <= freeStackTop'.tag
         /\ freeStackTop'.tag # freeStackTop.tag
    BY <2>9, <2>10
  <2> QED
    BY <2>11, <2>12, <2>14, <2>15, <2>16, <2>17, <2>18, <2>19, <2>20, StepInv
<1> QED
  BY <1>3, <1>4

-----------------------------------------------------------------------------
(* Take and Add: the block that t owns goes to the caller *)

LEMMA ReturnOnly ==
    ASSUME TypeOK, NEW t \in Threads, NEW here, Return(t, here)
    PROVE  /\ pc[t] = here /\ pc'[t] = "idle" /\ OnlyThread(t)
           /\ pc' \in [Threads -> Pcs] /\ loc' \in [Threads -> Locals]
<1>1. Goto(t, here, "idle") /\ loc' = [loc EXCEPT ![t] = NoLocals]
  BY DEF Return
<1>2. /\ pc[t] = here /\ pc'[t] = "idle"
      /\ \A u \in Threads \ {t} : pc'[u] = pc[u]
      /\ pc' \in [Threads -> Pcs]
  BY <1>1, GotoOnly DEF Pcs
<1>3. (\A u \in Threads \ {t} : loc'[u] = loc[u]) /\ loc' \in [Threads -> Locals]
  BY <1>1, LocOnly, NoLocalsType
<1> QED
  BY <1>2, <1>3 DEF OnlyThread

LEMMA GiveInv ==
    ASSUME PoolInv, NEW t \in Threads, NEW here \in Giving, Return(t, here),
           postCode' = [postCode EXCEPT ![loc[t].blk] = "used"],
           useCnt' = useCnt + 1, held' = held \cup {loc[t].blk},
           next' \in [Blocks -> Pointers], OwnNext(t),
           UNCHANGED <<freeStackTop, addVars>>
    PROVE  PoolInv'
<1> DEFINE b == loc[t].blk
<1>1. TypeOK
  BY DEF PoolInv
<1>2. /\ pc[t] \in Giving /\ pc'[t] = "idle" /\ OnlyThread(t)
      /\ pc' \in [Threads -> Pcs] /\ loc' \in [Threads -> Locals]
  BY <1>1, ReturnOnly
<1>3. Owned(t) = {b} /\ Owned(t)' = {}
  BY <1>2 DEF Owned, Adding, Giving, Pushing
<1>4. b \in Blocks /\ b \notin heap /\ b \notin held /\ b \notin FreeBlocks
  BY <1>3 DEF PoolInv, BlocksAccounted
<1>5. TypeOK'
  BY <1>1, <1>2, <1>4 DEF TypeOK, Pcs, Locals, addVars
<1>6. HasChain(freeStackTop.ptr, next, Blocks, Null)' /\ FreeBlocks' = FreeBlocks
  BY FreeFrame
<1>7. ListsOK'
  BY <1>6, AllocFrame DEF ListsOK, addVars
<1>8. Moves(t)
  <2>1. heap' = heap /\ held' = held \cup {b}
    BY DEF addVars
  <2> HIDE DEF b
  <2> QED
    BY <1>3, <1>4, <1>6, <2>1 DEF PoolInv, BlocksAccounted, Moves
<1>9. AddedBlocks' = (HeapBlocks \ heap') \ BeingAdded'
  BY <1>2, AddedFrame DEF addVars, Adding, Giving
<1>10. LimitOK'
  BY <1>2, LimitFrame DEF addVars, Giving
<1>11. TagOK'
  BY <1>2, TagFrame DEF Allocating
<1>12. MarksExact'
  <2>1. IsFiniteSet(held)
    BY <1>1, BlockSets, FS_Subset DEF TypeOK
  <2>2. Cardinality(held \cup {b}) = Cardinality(held) + 1
    BY <1>4, <2>1, FS_AddElement
  <2>3. /\ \A x \in Blocks : postCode[x] = "used" <=> x \in held
        /\ useCnt = Cardinality(held)
    BY DEF PoolInv, MarksExact
  <2>4. useCnt' = Cardinality(held')
    BY <2>2, <2>3
  <2>5. \A x \in Blocks : postCode'[x] = IF x = b THEN "used" ELSE postCode[x]
    BY <1>1 DEF TypeOK
  <2> HIDE DEF b
  <2>6. \A x \in Blocks : postCode'[x] = "used" <=> x \in held'
    BY <2>3, <2>5 DEF b
  <2> QED
    BY <2>4, <2>6 DEF MarksExact
<1>13. PopOK(t)' /\ PushOK(t)' /\ AddOK(t)'
  BY <1>2 DEF PopOK, PushOK, AddOK, Adding
<1>14. OwnAllocNext(t)
  BY DEF OwnAllocNext, addVars
<1>15. freeStackTop.tag <= freeStackTop'.tag
  BY <1>1 DEF TypeOK, Tops
<1> QED
  BY <1>2, <1>5, <1>6, <1>7, <1>8, <1>9, <1>10, <1>11, <1>12, <1>13, <1>14, <1>15, StepInv

LEMMA TakeInv ==
    ASSUME PoolInv, NEW t \in Threads, Take(t)
    PROVE  PoolInv'
<1>1. /\ Return(t, "Take") /\ UNCHANGED <<poolVars, addVars>>
      /\ postCode' = [postCode EXCEPT ![loc[t].blk] = "used"]
      /\ useCnt' = useCnt + 1 /\ held' = held \cup {loc[t].blk}
  BY DEF Take
<1>2. next' \in [Blocks -> Pointers] /\ OwnNext(t)
  BY <1>1 DEF PoolInv, TypeOK, OwnNext, poolVars
<1> QED
  BY <1>1, <1>2, GiveInv DEF poolVars, Giving

LEMMA AddInv ==
    ASSUME PoolInv, NEW t \in Threads, Add(t)
    PROVE  PoolInv'
<1>1. /\ Return(t, "Add") /\ UNCHANGED <<freeStackTop, addVars>>
      /\ postCode' = [postCode EXCEPT ![loc[t].blk] = "used"]
      /\ next' = [next EXCEPT ![loc[t].blk] = Null]
      /\ useCnt' = useCnt + 1 /\ held' = held \cup {loc[t].blk}
  BY DEF Add, NewPostCode
<1>2. pc[t] = "Add"
  BY <1>1 DEF Return, Goto
<1>3. next' \in [Blocks -> Pointers] /\ OwnNext(t)
  BY <1>1, <1>2 DEF PoolInv, TypeOK, OwnNext, Owned, Giving, Pointers
<1> QED
  BY <1>1, <1>3, GiveInv DEF Giving

-----------------------------------------------------------------------------
(* Alloc: the list was empty *)

(* A step of the allocator that moves no block: only the limit is left. *)
LEMMA LimitStep ==
    ASSUME PoolInv, NEW t \in Threads, OnlyThread(t), UNCHANGED <<poolVars, debugVars>>,
           UNCHANGED <<allocTop, allocNext, heap>>,
           pc[t] \in Allocating, pc'[t] \in {"idle", "AddUndo", "Malloc"},
           TypeOK', LimitOK'
    PROVE  PoolInv'
<1>1. OwnNext(t) /\ OwnAllocNext(t) /\ freeStackTop' = freeStackTop
  BY DEF OwnNext, OwnAllocNext, poolVars
<1>2. HasChain(freeStackTop.ptr, next, Blocks, Null)' /\ FreeBlocks' = FreeBlocks
  BY <1>1, FreeFrame
<1>3. ListsOK'
  BY <1>2, AllocFrame DEF ListsOK
<1>4. Owned(t)' = Owned(t)
  BY DEF Owned, Allocating, Adding, Giving, Pushing
<1>5. Moves(t)
  BY <1>2, <1>4, MovesNot DEF debugVars
<1>6. AddedBlocks' = (HeapBlocks \ heap') \ BeingAdded'
  <2>1. pc[t] \notin Adding /\ pc'[t] \notin Adding
    BY DEF Allocating, Adding
  <2> QED
    BY <2>1, AddedFrame
<1>7. TagOK'
  BY <1>1, TagFrame
<1>8. MarksExact'
  BY MarksFrame
<1>9. PopOK(t)' /\ PushOK(t)' /\ AddOK(t)'
  BY DEF PopOK, PushOK, AddOK, Adding
<1>10. freeStackTop.tag <= freeStackTop'.tag
  BY <1>1 DEF PoolInv, TypeOK, Tops
<1> QED
  BY <1>1, <1>2, <1>3, <1>5, <1>6, <1>7, <1>8, <1>9, <1>10, StepInv

(* the number of blocks that were added *)
LEMMA AddedNat == Cardinality(HeapBlocks \ heap) \in Nat
<1>1. IsFiniteSet(HeapBlocks \ heap)
  BY BlockSets, FS_Subset
<1> QED
  BY <1>1, FS_CardinalityType

LEMMA AddCountInv ==
    ASSUME PoolInv, NEW t \in Threads, AddCount(t)
    PROVE  PoolInv'
<1> DEFINE myNum == addAllocCnt + 1
           added == Cardinality(HeapBlocks \ heap)
           passed == Cardinality(At({"Malloc"}))
           undone == Cardinality(At({"AddUndo"}))
<1>1. TypeOK
  BY DEF PoolInv
<1>2. /\ pc[t] = "AddCount" /\ addAllocCnt' = myNum
      /\ UNCHANGED <<poolVars, allocTop, allocNext, heap, debugVars>>
  BY DEF AddCount, Goto, Return
<1>3. /\ \/ myNum = AddAllocMax /\ pc'[t] = "idle"
         \/ myNum > AddAllocMax /\ pc'[t] = "AddUndo"
         \/ myNum < AddAllocMax /\ pc'[t] = "Malloc"
      /\ OnlyThread(t)
      /\ pc' \in [Threads -> Pcs] /\ loc' \in [Threads -> Locals]
  <2>0. myNum \in Int /\ AddAllocMax \in Int /\ loc \in [Threads -> Locals]
    BY <1>1, PoolAssumption DEF TypeOK, Locals
  <2>1. CASE AtLimit(myNum) /\ Return(t, "AddCount")
    BY <1>1, <2>1, ReturnOnly DEF AtLimit
  <2>2. CASE ~AtLimit(myNum) /\ myNum > AddAllocMax /\ Goto(t, "AddCount", "AddUndo") /\ loc' = loc
    BY <1>1, <2>0, <2>2, GotoOnly DEF Pcs, Allocating, OnlyThread
  <2>3. CASE ~AtLimit(myNum) /\ myNum <= AddAllocMax /\ Goto(t, "AddCount", "Malloc") /\ loc' = loc
    <3>1. myNum < AddAllocMax
      BY <2>0, <2>3 DEF AtLimit
    <3> QED
      BY <1>1, <2>0, <2>3, <3>1, GotoOnly DEF Pcs, Allocating, OnlyThread
  <2> QED
    BY <2>1, <2>2, <2>3 DEF AddCount
<1>4. TypeOK'
  BY <1>1, <1>2, <1>3 DEF TypeOK, Pcs, Locals, poolVars, debugVars
<1>5. /\ passed \in Nat /\ undone \in Nat /\ added \in Nat
      /\ passed' = passed + (IF pc'[t] = "Malloc" THEN 1 ELSE 0)
      /\ undone' = undone + (IF pc'[t] = "AddUndo" THEN 1 ELSE 0)
      /\ added' = added
  BY <1>1, <1>2, <1>3, AtStep, AddedNat DEF OnlyThread
<1>6. /\ addAllocCnt \in Int /\ addAllocCnt >= -1 /\ AddAllocMax \in Nat
      /\ added + passed <= AddAllocMax
      /\ addAllocCnt < AddAllocMax => added + passed <= addAllocCnt + 1
      /\ addAllocCnt >= AddAllocMax => addAllocCnt = AddAllocMax + undone
      /\ addAllocCnt < AddAllocMax => At({"AddUndo"}) = {}
  BY <1>1, PoolAssumption DEF PoolInv, LimitOK, TypeOK
<1>7. At({"AddUndo"}) = {} => undone = 0
  BY FS_EmptySet
<1>8. pc'[t] # "AddUndo" /\ At({"AddUndo"}) = {} => At({"AddUndo"})' = {}
  BY <1>3 DEF At, OnlyThread
<1> HIDE DEF added, passed, undone
<1>9. /\ addAllocCnt' >= -1
      /\ added' + passed' <= AddAllocMax
      /\ addAllocCnt' < AddAllocMax => /\ added' + passed' <= addAllocCnt' + 1
                                       /\ At({"AddUndo"})' = {}
      /\ addAllocCnt' >= AddAllocMax => addAllocCnt' = AddAllocMax + undone'
  BY <1>2, <1>3, <1>5, <1>6, <1>7, <1>8
<1>10. LimitOK'
  BY <1>9 DEF LimitOK, added, passed, undone
<1> QED
  BY <1>2, <1>3, <1>4, <1>10, LimitStep DEF Allocating

LEMMA AddUndoInv ==
    ASSUME PoolInv, NEW t \in Threads, AddUndo(t)
    PROVE  PoolInv'
<1> DEFINE added == Cardinality(HeapBlocks \ heap)
           passed == Cardinality(At({"Malloc"}))
           undone == Cardinality(At({"AddUndo"}))
<1>1. TypeOK
  BY DEF PoolInv
<1>2. /\ Return(t, "AddUndo") /\ addAllocCnt' = addAllocCnt - 1
      /\ UNCHANGED <<poolVars, allocTop, allocNext, heap, debugVars>>
  BY DEF AddUndo
<1>3. /\ pc[t] = "AddUndo" /\ pc'[t] = "idle" /\ OnlyThread(t)
      /\ pc' \in [Threads -> Pcs] /\ loc' \in [Threads -> Locals]
  BY <1>1, <1>2, ReturnOnly
<1>4. TypeOK'
  BY <1>1, <1>2, <1>3 DEF TypeOK, Pcs, Locals, poolVars, debugVars
<1>5. /\ passed \in Nat /\ undone \in Nat /\ added \in Nat
      /\ passed' = passed /\ undone' = undone - 1 /\ added' = added
  BY <1>1, <1>2, <1>3, AtStep, AddedNat DEF OnlyThread
<1>6. undone' \in Nat
  <2>1. IsFiniteSet(At({"AddUndo"})')
    BY FS_Subset, PoolAssumption DEF At
  <2> QED
    BY <2>1, FS_CardinalityType
<1>7. t \in At({"AddUndo"})
  BY <1>3 DEF At
<1>8. /\ addAllocCnt \in Int /\ AddAllocMax \in Nat
      /\ added + passed <= AddAllocMax
      /\ addAllocCnt < AddAllocMax => At({"AddUndo"}) = {}
      /\ addAllocCnt >= AddAllocMax => addAllocCnt = AddAllocMax + undone
  BY <1>1, PoolAssumption DEF PoolInv, LimitOK, TypeOK
<1> HIDE DEF added, passed, undone
<1>9. addAllocCnt = AddAllocMax + undone
  BY <1>7, <1>8
<1>10. /\ addAllocCnt' = AddAllocMax + undone'
       /\ addAllocCnt' >= AddAllocMax /\ addAllocCnt' >= -1
       /\ added' + passed' <= AddAllocMax
  BY <1>2, <1>5, <1>6, <1>8, <1>9
<1>11. ~(addAllocCnt' < AddAllocMax)
  <2>1. undone' \in Nat /\ AddAllocMax \in Nat
    BY <1>6, <1>8
  <2>2. \A m, n \in Nat : ~(m + n < m)
    OBVIOUS
  <2> QED
    BY <1>10, <2>1, <2>2, Zenon
<1>12. LimitOK'
  BY <1>10, <1>11 DEF LimitOK, added, passed, undone
<1> QED
  BY <1>2, <1>3, <1>4, <1>12, LimitStep DEF Allocating

LEMMA MallocInv ==
    ASSUME PoolInv, NEW t \in Threads, Malloc(t)
    PROVE  PoolInv'
<1> DEFINE added == Cardinality(HeapBlocks \ heap)
           passed == Cardinality(At({"Malloc"}))
           undone == Cardinality(At({"AddUndo"}))
<1>1. TypeOK
  BY DEF PoolInv
<1>2. /\ pc[t] = "Malloc"
      /\ UNCHANGED <<poolVars, addAllocCnt, allocTop, allocNext, debugVars>>
  BY DEF Malloc, Goto, Return
<1>3. /\ addAllocCnt \in Int /\ addAllocCnt >= -1 /\ AddAllocMax \in Nat
      /\ added + passed <= AddAllocMax
      /\ addAllocCnt < AddAllocMax => /\ added + passed <= addAllocCnt + 1
                                      /\ At({"AddUndo"}) = {}
      /\ addAllocCnt >= AddAllocMax => addAllocCnt = AddAllocMax + undone
  BY <1>1, PoolAssumption DEF PoolInv, LimitOK, TypeOK
<1>4. ASSUME OnlyThread(t), pc'[t] \notin {"Malloc", "AddUndo"},
             added' = added \/ added' = added + 1
      PROVE  LimitOK'
  <2>1. passed \in Nat /\ passed' = passed - 1 /\ added \in Nat
    BY <1>1, <1>2, <1>4, AtStep, AddedNat DEF OnlyThread
  <2>2. At({"AddUndo"})' = At({"AddUndo"})
    BY <1>2, <1>4 DEF At, OnlyThread
  <2>3. undone' = undone
    BY <2>2
  <2> HIDE DEF added, passed, undone
  <2>4. /\ added' + passed' <= AddAllocMax
        /\ addAllocCnt < AddAllocMax => added' + passed' <= addAllocCnt + 1
    BY <1>3, <1>4, <2>1
  <2> QED
    BY <1>2, <1>3, <2>2, <2>3, <2>4 DEF LimitOK, added, passed, undone
<1>5. CASE MallocMayFail /\ Return(t, "Malloc") /\ UNCHANGED heap
  <2>1. /\ pc'[t] = "idle" /\ OnlyThread(t)
        /\ pc' \in [Threads -> Pcs] /\ loc' \in [Threads -> Locals]
    BY <1>1, <1>5, ReturnOnly
  <2>2. TypeOK'
    BY <1>1, <1>2, <1>5, <2>1 DEF TypeOK, Pcs, Locals, poolVars, debugVars
  <2>3. added' = added
    BY <1>5
  <2>4. LimitOK'
    BY <1>4, <2>1, <2>3
  <2> QED
    BY <1>2, <1>5, <2>1, <2>2, <2>4, LimitStep DEF Allocating
<1>6. ASSUME NEW b \in heap, Goto(t, "Malloc", "BaLoad"), heap' = heap \ {b},
             loc' = [loc EXCEPT ![t].blk = b]
      PROVE  PoolInv'
  <2>1. b \in heap /\ b \in HeapBlocks /\ b \in Pointers
    BY <1>1, <1>6, BlockSets DEF TypeOK, Pointers
  <2>2. /\ pc'[t] = "BaLoad"
        /\ \A u \in Threads \ {t} : pc'[u] = pc[u]
        /\ pc' \in [Threads -> Pcs]
    BY <1>1, <1>6, GotoOnly DEF Pcs, Adding
  <2>3. /\ loc'[t].blk = b
        /\ \A u \in Threads \ {t} : loc'[u] = loc[u]
        /\ loc' \in [Threads -> Locals]
    BY <1>1, <1>6, <2>1, LocField
  <2>4. TypeOK'
    BY <1>1, <1>2, <1>6, <2>2, <2>3 DEF TypeOK, Pcs, Locals, poolVars, debugVars
  <2>5. OnlyThread(t) /\ OwnNext(t) /\ OwnAllocNext(t)
    BY <1>2, <2>2, <2>3 DEF OnlyThread, OwnNext, OwnAllocNext, poolVars
  <2>6. HasChain(freeStackTop.ptr, next, Blocks, Null)' /\ FreeBlocks' = FreeBlocks
    BY <1>2, <2>5, FreeFrame DEF poolVars
  <2>7. ListsOK' /\ AddedBlocks' = AddedBlocks
    BY <1>2, <2>6, AllocFrame DEF ListsOK
  <2>8. Moves(t)
    <3>1. Owned(t)' = {b} /\ Owned(t) = {}
      BY <1>2, <2>2, <2>3 DEF Owned, Adding, Giving, Pushing
    <3>2. held' = held
      BY <1>2 DEF debugVars
    <3> QED
      BY <1>6, <2>1, <2>6, <3>1, <3>2 DEF PoolInv, BlocksAccounted, Moves
  <2>9. AddedBlocks' = (HeapBlocks \ heap') \ BeingAdded'
    <3>1. BeingAdded' = BeingAdded \cup {b}
      BY <1>2, <2>2, <2>3 DEF BeingAdded, Adding
    <3>2. AddedBlocks = (HeapBlocks \ heap) \ BeingAdded
      BY DEF PoolInv, AddedBlocksListed, BeingAdded
    <3> QED
      BY <1>6, <2>1, <2>7, <3>1, <3>2
  <2>10. added' = added + 1
    <3>1. HeapBlocks \ heap' = (HeapBlocks \ heap) \cup {b} /\ b \notin HeapBlocks \ heap
      BY <1>6, <2>1
    <3>2. IsFiniteSet(HeapBlocks \ heap)
      BY BlockSets, FS_Subset
    <3> QED
      BY <3>1, <3>2, FS_AddElement
  <2>11. LimitOK'
    BY <1>4, <2>2, <2>5, <2>10
  <2>12. TagOK'
    BY <1>2, <2>2, <2>5, TagFrame DEF poolVars, Allocating
  <2>13. MarksExact'
    BY <1>2, MarksFrame
  <2>14. PopOK(t)' /\ PushOK(t)' /\ AddOK(t)'
    BY <2>1, <2>2, <2>3 DEF PopOK, PushOK, AddOK
  <2>15. freeStackTop.tag <= freeStackTop'.tag
    BY <1>1, <1>2 DEF TypeOK, Tops, poolVars
  <2> QED
    BY <2>4, <2>5, <2>6, <2>7, <2>8, <2>9, <2>11, <2>12, <2>13, <2>14, <2>15, StepInv
<1> QED
  BY <1>5, <1>6 DEF Malloc

-----------------------------------------------------------------------------
(* BlockAllocator::Push *)

(* A step of Push that links no block. *)
LEMMA AddingStep ==
    ASSUME PoolInv, NEW t \in Threads, OnlyThread(t), UNCHANGED <<poolVars, debugVars>>,
           UNCHANGED <<addAllocCnt, allocTop, heap>>,
           pc[t] \in Adding, pc'[t] \in Adding, loc'[t].blk = loc[t].blk,
           OwnAllocNext(t), TypeOK', AddOK(t)'
    PROVE  PoolInv'
<1>1. OwnNext(t) /\ freeStackTop' = freeStackTop
  BY DEF OwnNext, poolVars
<1>2. HasChain(freeStackTop.ptr, next, Blocks, Null)' /\ FreeBlocks' = FreeBlocks
  BY <1>1, FreeFrame
<1>3. AddedBlocks = (HeapBlocks \ heap) \ BeingAdded
  BY DEF PoolInv, AddedBlocksListed, BeingAdded
<1>4. /\ HasChain(allocTop, allocNext, HeapBlocks, Null)'
      /\ AddedBlocks' = AddedBlocks
  <2>1. loc[t].blk \in BeingAdded
    BY DEF BeingAdded
  <2>2. AddedBlocks = Listed(Walk(allocTop, allocNext, HeapBlocks, Null), HeapBlocks)
    BY DEF AddedBlocks, AllocList
  <2>3. \A x \in Listed(Walk(allocTop, allocNext, HeapBlocks, Null), HeapBlocks) :
            allocNext'[x] = allocNext[x]
    BY <1>3, <2>1, <2>2 DEF OwnAllocNext
  <2>4. HasChain(allocTop, allocNext, HeapBlocks, Null)
    BY DEF PoolInv, ListsOK
  <2>5. /\ HasChain(allocTop, allocNext', HeapBlocks, Null)
        /\ Walk(allocTop, allocNext', HeapBlocks, Null) =
              Walk(allocTop, allocNext, HeapBlocks, Null)
    BY <2>3, <2>4, BlockSets, SameList
  <2> QED
    BY <2>5 DEF AddedBlocks, AllocList
<1>5. ListsOK'
  BY <1>2, <1>4 DEF ListsOK
<1>6. AddedBlocks' = (HeapBlocks \ heap') \ BeingAdded'
  <2>1. BeingAdded' = BeingAdded
    BY DEF OnlyThread, BeingAdded
  <2> QED
    BY <1>3, <1>4, <2>1
<1>7. Moves(t)
  <2>1. Owned(t)' = Owned(t)
    BY DEF Owned
  <2> QED
    BY <1>2, <2>1, MovesNot DEF debugVars
<1>8. LimitOK'
  BY LimitFrame DEF Adding
<1>9. TagOK'
  BY <1>1, TagFrame DEF Adding, Allocating
<1>10. MarksExact'
  BY MarksFrame
<1>11. PopOK(t)' /\ PushOK(t)'
  BY DEF PopOK, PushOK, Adding
<1>12. freeStackTop.tag <= freeStackTop'.tag
  BY <1>1 DEF PoolInv, TypeOK, Tops
<1> QED
  BY <1>1, <1>2, <1>5, <1>6, <1>7, <1>8, <1>9, <1>10, <1>11, <1>12, StepInv

LEMMA BaLoadInv ==
    ASSUME PoolInv, NEW t \in Threads, BaLoad(t)
    PROVE  PoolInv'
<1>1. TypeOK
  BY DEF PoolInv
<1>2. /\ Goto(t, "BaLoad", "BaCas")
      /\ loc' = [loc EXCEPT ![t].other = allocTop]
      /\ allocNext' = [allocNext EXCEPT ![loc[t].blk] = allocTop]
      /\ UNCHANGED <<poolVars, addAllocCnt, allocTop, heap, debugVars>>
  BY DEF BaLoad
<1>3. /\ pc[t] = "BaLoad" /\ pc'[t] = "BaCas"
      /\ \A u \in Threads \ {t} : pc'[u] = pc[u]
      /\ pc' \in [Threads -> Pcs]
  BY <1>1, <1>2, GotoOnly DEF Pcs, Adding
<1>4. loc[t].blk \in HeapBlocks
  BY <1>3 DEF PoolInv, AddOK, Adding
<1>5. /\ loc'[t].blk = loc[t].blk /\ loc'[t].other = allocTop
      /\ \A u \in Threads \ {t} : loc'[u] = loc[u]
      /\ loc' \in [Threads -> Locals]
  <2>1. allocTop \in Pointers
    BY <1>1, BlockSets DEF TypeOK, Pointers
  <2> QED
    BY <1>1, <1>2, <2>1, LocField
<1>6. TypeOK'
  BY <1>1, <1>2, <1>3, <1>5 DEF TypeOK, Pcs, Locals, poolVars, debugVars
<1>7. OnlyThread(t) /\ OwnAllocNext(t)
  BY <1>1, <1>2, <1>3, <1>5 DEF OnlyThread, OwnAllocNext, Adding, TypeOK
<1>8. AddOK(t)'
  <2>1. allocNext'[loc[t].blk] = allocTop
    BY <1>1, <1>2, <1>4 DEF TypeOK
  <2> QED
    BY <1>3, <1>4, <1>5, <2>1 DEF AddOK
<1> QED
  BY <1>2, <1>3, <1>5, <1>6, <1>7, <1>8, AddingStep DEF Adding

LEMMA BaCasInv ==
    ASSUME PoolInv, NEW t \in Threads, BaCas(t)
    PROVE  PoolInv'
<1> DEFINE b == loc[t].blk
<1>1. TypeOK
  BY DEF PoolInv
<1>2. /\ pc[t] = "BaCas"
      /\ UNCHANGED <<poolVars, addAllocCnt, allocNext, heap, debugVars, loc>>
  BY DEF BaCas, Goto
<1>3. b \in HeapBlocks /\ allocNext[b] = loc[t].other
  BY <1>2 DEF PoolInv, AddOK, Adding
<1>4. CASE allocTop # loc[t].other
  <2>1. Goto(t, "BaCas", "BaLoad") /\ allocTop' = allocTop
    BY <1>4 DEF BaCas
  <2>2. /\ pc'[t] = "BaLoad"
        /\ \A u \in Threads \ {t} : pc'[u] = pc[u]
        /\ pc' \in [Threads -> Pcs]
    BY <1>1, <2>1, GotoOnly DEF Pcs, Adding
  <2>3. TypeOK'
    BY <1>1, <1>2, <2>1, <2>2 DEF TypeOK, Pcs, poolVars, debugVars
  <2>4. OnlyThread(t) /\ OwnAllocNext(t)
    BY <1>2, <2>2 DEF OnlyThread, OwnAllocNext
  <2>5. AddOK(t)'
    BY <1>2, <1>3, <2>2 DEF AddOK
  <2> QED
    BY <1>2, <2>1, <2>2, <2>3, <2>4, <2>5, AddingStep DEF Adding
<1>5. CASE allocTop = loc[t].other
  <2>1. Goto(t, "BaCas", "Add") /\ allocTop' = b
    BY <1>5 DEF BaCas
  <2>2. /\ pc'[t] = "Add"
        /\ \A u \in Threads \ {t} : pc'[u] = pc[u]
        /\ pc' \in [Threads -> Pcs]
    BY <1>1, <2>1, GotoOnly DEF Pcs, Giving
  <2>3. TypeOK'
    BY <1>1, <1>2, <1>3, <2>1, <2>2 DEF TypeOK, Pcs, poolVars, debugVars
  <2>4. OnlyThread(t) /\ OwnNext(t) /\ OwnAllocNext(t)
    BY <1>2, <2>2 DEF OnlyThread, OwnNext, OwnAllocNext, poolVars
  <2>5. HasChain(freeStackTop.ptr, next, Blocks, Null)' /\ FreeBlocks' = FreeBlocks
    BY <1>2, <2>4, FreeFrame DEF poolVars
  <2>6. AddedBlocks = (HeapBlocks \ heap) \ BeingAdded
    BY DEF PoolInv, AddedBlocksListed, BeingAdded
  <2>7. b \in BeingAdded
    BY <1>2 DEF BeingAdded, Adding
  <2>8. Owned(t) = {b} /\ Owned(t)' = {b}
    BY <1>2, <2>2 DEF Owned, Adding, Giving
  <2>9. b \notin heap /\ \A u \in Threads \ {t} : b \notin Owned(u)
    BY <2>8 DEF PoolInv, BlocksAccounted
  <2>10. BeingAdded' = BeingAdded \ {b}
    <3>1. \A u \in Threads \ {t} : pc[u] \in Adding => loc[u].blk # b
      BY <2>9 DEF Owned
    <3>2. pc'[t] \notin Adding /\ pc[t] \in Adding
      BY <1>2, <2>2 DEF Adding
    <3> QED
      BY <1>2, <2>2, <3>1, <3>2 DEF BeingAdded
  <2>11. /\ HasChain(allocTop, allocNext, HeapBlocks, Null)'
         /\ AddedBlocks' = AddedBlocks \cup {b}
    <3>1. AddedBlocks = Listed(Walk(allocTop, allocNext, HeapBlocks, Null), HeapBlocks)
      BY DEF AddedBlocks, AllocList
    <3>2. HasChain(allocTop, allocNext, HeapBlocks, Null)
      BY DEF PoolInv, ListsOK
    <3>3. b \notin Listed(Walk(allocTop, allocNext, HeapBlocks, Null), HeapBlocks)
      BY <2>6, <2>7, <3>1
    <3>4. allocNext[b] = allocTop
      BY <1>3, <1>5
    <3> HIDE DEF b
    <3>5. /\ HasChain(b, allocNext, HeapBlocks, Null)
          /\ Listed(Walk(b, allocNext, HeapBlocks, Null), HeapBlocks) =
                Listed(Walk(allocTop, allocNext, HeapBlocks, Null), HeapBlocks) \cup {b}
      BY <1>3, <3>2, <3>3, <3>4, BlockSets, PushedList
    <3> QED
      BY <1>2, <2>1, <3>1, <3>5 DEF AddedBlocks, AllocList
  <2>12. ListsOK'
    BY <2>5, <2>11 DEF ListsOK
  <2>13. AddedBlocks' = (HeapBlocks \ heap') \ BeingAdded'
    <3> HIDE DEF b
    <3> QED
      BY <1>2, <1>3, <2>6, <2>9, <2>10, <2>11
  <2>14. Moves(t)
    BY <1>2, <2>5, <2>8, MovesNot DEF debugVars
  <2>15. LimitOK'
    BY <1>2, <2>2, <2>4, LimitFrame
  <2>16. TagOK'
    BY <1>2, <2>2, <2>4, TagFrame DEF poolVars, Allocating
  <2>17. MarksExact'
    BY <1>2, MarksFrame
  <2>18. PopOK(t)' /\ PushOK(t)' /\ AddOK(t)'
    BY <2>2 DEF PopOK, PushOK, AddOK, Adding
  <2>19. freeStackTop.tag <= freeStackTop'.tag
    BY <1>1, <1>2 DEF TypeOK, Tops, poolVars
  <2> QED
    BY <2>3, <2>4, <2>5, <2>12, <2>13, <2>14, <2>15, <2>16, <2>17, <2>18, <2>19, StepInv
<1> QED
  BY <1>4, <1>5

-----------------------------------------------------------------------------
(* Free *)

LEMMA FreeInv ==
    ASSUME PoolInv, NEW t \in Threads, NEW b \in held, Free(t, b)
    PROVE  PoolInv'
<1>1. TypeOK
  BY DEF PoolInv
<1>2. b \in held /\ b \in Blocks /\ b \in Pointers /\ postCode[b] = "used"
  BY <1>1 DEF TypeOK, PoolInv, MarksExact, Pointers
<1>3. /\ Goto(t, "idle", "PushLoad")
      /\ loc' = [loc EXCEPT ![t].blk = b]
      /\ postCode' = [postCode EXCEPT ![b] = "free"]
      /\ useCnt' = useCnt - 1
      /\ held' = held \ {b}
      /\ UNCHANGED <<poolVars, addVars>>
  BY <1>2 DEF Free
<1>4. /\ pc[t] = "idle" /\ pc'[t] = "PushLoad"
      /\ \A u \in Threads \ {t} : pc'[u] = pc[u]
      /\ pc' \in [Threads -> Pcs]
  BY <1>1, <1>3, GotoOnly DEF Pcs, Pushing
<1>5. /\ loc'[t].blk = b
      /\ \A u \in Threads \ {t} : loc'[u] = loc[u]
      /\ loc' \in [Threads -> Locals]
  BY <1>1, <1>2, <1>3, LocField
<1>6. TypeOK'
  BY <1>1, <1>3, <1>4, <1>5 DEF TypeOK, Pcs, Locals, poolVars, addVars
<1>7. OnlyThread(t) /\ OwnNext(t) /\ OwnAllocNext(t)
  BY <1>3, <1>4, <1>5 DEF OnlyThread, OwnNext, OwnAllocNext, poolVars, addVars
<1>8. HasChain(freeStackTop.ptr, next, Blocks, Null)' /\ FreeBlocks' = FreeBlocks
  BY <1>3, <1>7, FreeFrame DEF poolVars
<1>9. ListsOK'
  BY <1>3, <1>8, AllocFrame DEF ListsOK, addVars
<1>10. Moves(t)
  <2>1. Owned(t)' = {b} /\ Owned(t) = {}
    BY <1>4, <1>5 DEF Owned, Adding, Giving, Pushing
  <2>2. heap' = heap
    BY <1>3 DEF addVars
  <2> QED
    BY <1>2, <1>3, <1>8, <2>1, <2>2 DEF PoolInv, BlocksAccounted, Moves
<1>11. AddedBlocks' = (HeapBlocks \ heap') \ BeingAdded'
  BY <1>3, <1>4, <1>7, AddedFrame DEF addVars, Adding
<1>12. LimitOK'
  BY <1>3, <1>4, <1>7, LimitFrame DEF addVars
<1>13. TagOK'
  BY <1>3, <1>4, <1>7, TagFrame DEF poolVars, Allocating
<1>14. MarksExact'
  <2>1. IsFiniteSet(held)
    BY <1>1, BlockSets, FS_Subset DEF TypeOK
  <2>2. Cardinality(held \ {b}) = Cardinality(held) - 1
    BY <1>2, <2>1, FS_RemoveElement
  <2>3. /\ \A x \in Blocks : postCode[x] = "used" <=> x \in held
        /\ useCnt = Cardinality(held)
    BY DEF PoolInv, MarksExact
  <2>4. useCnt' = Cardinality(held')
    BY <1>3, <2>2, <2>3
  <2>5. \A x \in Blocks : postCode'[x] = IF x = b THEN "free" ELSE postCode[x]
    BY <1>1, <1>3 DEF TypeOK
  <2>6. \A x \in Blocks : postCode'[x] = "used" <=> x \in held'
    BY <1>3, <2>3, <2>5
  <2> QED
    BY <2>4, <2>6 DEF MarksExact
<1>15. PopOK(t)' /\ PushOK(t)' /\ AddOK(t)'
  BY <1>4 DEF PopOK, PushOK, AddOK, Adding
<1>16. freeStackTop.tag <= freeStackTop'.tag
  BY <1>1, <1>3 DEF TypeOK, Tops, poolVars
<1> QED
  BY <1>6, <1>7, <1>8, <1>9, <1>10, <1>11, <1>12, <1>13, <1>14, <1>15, <1>16, StepInv

LEMMA PushLoadInv ==
    ASSUME PoolInv, NEW t \in Threads, PushLoad(t)
    PROVE  PoolInv'
<1>1. TypeOK
  BY DEF PoolInv
<1>2. /\ Goto(t, "PushLoad", "PushLink")
      /\ loc' = [loc EXCEPT ![t].top = freeStackTop]
      /\ UNCHANGED <<poolVars, addVars, debugVars>>
  BY DEF PushLoad
<1>3. /\ pc[t] = "PushLoad" /\ pc'[t] = "PushLink"
      /\ \A u \in Threads \ {t} : pc'[u] = pc[u]
      /\ pc' \in [Threads -> Pcs]
  BY <1>1, <1>2, GotoOnly DEF Pcs, Pushing
<1>4. /\ loc'[t].blk = loc[t].blk
      /\ \A u \in Threads \ {t} : loc'[u] = loc[u]
      /\ loc' \in [Threads -> Locals]
  BY <1>1, <1>2, LocField DEF TypeOK
<1>5. TypeOK'
  BY <1>1, <1>2, <1>3, <1>4 DEF TypeOK, Pcs, Locals, poolVars, addVars, debugVars
<1>6. OnlyThread(t) /\ OwnNext(t)
  BY <1>2, <1>3, <1>4 DEF OnlyThread, OwnNext, poolVars
<1>7. Owned(t)' = Owned(t)
  BY <1>3, <1>4 DEF Owned, Pushing
<1>8. TagOK'
  BY <1>2, <1>3, <1>6, TagFrame DEF poolVars, Allocating
<1>9. PopOK(t)' /\ PushOK(t)'
  BY <1>3 DEF PopOK, PushOK
<1> QED
  BY <1>2, <1>3, <1>5, <1>6, <1>7, <1>8, <1>9, QuietStep DEF poolVars, Adding

LEMMA PushLinkInv ==
    ASSUME PoolInv, NEW t \in Threads, PushLink(t)
    PROVE  PoolInv'
<1>1. TypeOK
  BY DEF PoolInv
<1>2. /\ Goto(t, "PushLink", "PushCas")
      /\ next' = [next EXCEPT ![loc[t].blk] = loc[t].top.ptr]
      /\ UNCHANGED <<freeStackTop, addVars, debugVars, loc>>
  BY DEF PushLink
<1>3. /\ pc[t] = "PushLink" /\ pc'[t] = "PushCas"
      /\ \A u \in Threads \ {t} : pc'[u] = pc[u]
      /\ pc' \in [Threads -> Pcs]
  BY <1>1, <1>2, GotoOnly DEF Pcs, Pushing
<1>4. Owned(t) = {loc[t].blk} /\ Owned(t)' = Owned(t)
  BY <1>2, <1>3 DEF Owned, Pushing
<1>5. loc[t].blk \in Blocks /\ loc[t].top.ptr \in Pointers
  BY <1>1, <1>4 DEF PoolInv, BlocksAccounted, TypeOK, Tops
<1>6. TypeOK'
  BY <1>1, <1>2, <1>3, <1>5 DEF TypeOK, Pcs, addVars, debugVars
<1>7. OnlyThread(t)
  BY <1>2, <1>3 DEF OnlyThread
<1>8. OwnNext(t)
  BY <1>1, <1>2, <1>4 DEF OwnNext, TypeOK
<1>9. TagOK'
  BY <1>2, <1>3, <1>7, TagFrame DEF Allocating
<1>10. PopOK(t)' /\ PushOK(t)'
  <2>1. next'[loc[t].blk] = loc[t].top.ptr
    BY <1>1, <1>2, <1>5 DEF TypeOK
  <2> QED
    BY <1>2, <1>3, <2>1 DEF PopOK, PushOK
<1> QED
  BY <1>2, <1>3, <1>4, <1>6, <1>7, <1>8, <1>9, <1>10, QuietStep DEF Adding

LEMMA PushCasInv ==
    ASSUME PoolInv, NEW t \in Threads, PushCas(t)
    PROVE  PoolInv'
<1> DEFINE b == loc[t].blk
<1>1. TypeOK
  BY DEF PoolInv
<1>2. pc[t] = "PushCas" /\ UNCHANGED <<next, addVars, debugVars>>
  BY DEF PushCas, Goto, Return
<1>3. Owned(t) = {b}
  BY <1>2 DEF Owned, Pushing
<1>4. CASE freeStackTop # loc[t].top
  <2>1. Goto(t, "PushCas", "PushLoad") /\ UNCHANGED <<freeStackTop, loc>>
    BY <1>4 DEF PushCas, PushRetry
  <2>2. /\ pc'[t] = "PushLoad"
        /\ \A u \in Threads \ {t} : pc'[u] = pc[u]
        /\ pc' \in [Threads -> Pcs]
    BY <1>1, <2>1, GotoOnly DEF Pcs, Pushing
  <2>3. TypeOK'
    BY <1>1, <1>2, <2>1, <2>2 DEF TypeOK, Pcs, addVars, debugVars
  <2>4. OnlyThread(t) /\ OwnNext(t)
    BY <1>2, <2>1, <2>2 DEF OnlyThread, OwnNext
  <2>5. Owned(t)' = Owned(t)
    BY <1>2, <2>1, <2>2 DEF Owned, Pushing
  <2>6. TagOK'
    BY <2>1, <2>2, <2>4, TagFrame DEF Allocating
  <2>7. PopOK(t)' /\ PushOK(t)'
    BY <2>2 DEF PopOK, PushOK
  <2> QED
    BY <1>2, <2>1, <2>2, <2>3, <2>4, <2>5, <2>6, <2>7, QuietStep DEF Adding
<1>5. CASE freeStackTop = loc[t].top
  <2>1. /\ Return(t, "PushCas")
        /\ freeStackTop' = [ptr |-> b, tag |-> freeStackTop.tag]
    BY <1>5 DEF PushCas
  <2>2. b \in Blocks /\ b \notin heap /\ b \notin held /\ b \notin FreeBlocks
    BY <1>3 DEF PoolInv, BlocksAccounted
  <2>3. next[b] = freeStackTop.ptr
    BY <1>2, <1>5 DEF PoolInv, PushOK
  <2>4. /\ pc'[t] = "idle" /\ OnlyThread(t)
        /\ pc' \in [Threads -> Pcs] /\ loc' \in [Threads -> Locals]
    BY <1>1, <2>1, ReturnOnly
  <2>5. freeStackTop' \in Tops /\ freeStackTop'.tag = freeStackTop.tag /\ freeStackTop.tag \in Nat
    BY <1>1, <2>1, <2>2 DEF TypeOK, Tops, Pointers
  <2>6. TypeOK'
    BY <1>1, <1>2, <2>4, <2>5 DEF TypeOK, Pcs, Locals, addVars, debugVars
  <2>7. OwnNext(t) /\ OwnAllocNext(t)
    BY <1>2 DEF OwnNext, OwnAllocNext, addVars
  <2>8. /\ HasChain(freeStackTop.ptr, next, Blocks, Null)'
        /\ FreeBlocks' = FreeBlocks \cup {b}
    <3> DEFINE top == freeStackTop.ptr
    <3>1. FreeBlocks = Listed(Walk(top, next, Blocks, Null), Blocks)
      BY DEF FreeBlocks, FreeList
    <3>2. HasChain(top, next, Blocks, Null) /\ next[b] = top
      BY <2>3 DEF PoolInv, ListsOK
    <3>3. b \notin Listed(Walk(top, next, Blocks, Null), Blocks)
      BY <2>2, <3>1
    <3>4. freeStackTop'.ptr = b /\ next' = next
      BY <1>2, <2>1
    <3> HIDE DEF b, top
    <3>5. /\ HasChain(b, next, Blocks, Null)
          /\ Listed(Walk(b, next, Blocks, Null), Blocks) =
                Listed(Walk(top, next, Blocks, Null), Blocks) \cup {b}
      BY <2>2, <3>2, <3>3, BlockSets, PushedList
    <3> QED
      BY <3>1, <3>4, <3>5 DEF FreeBlocks, FreeList
  <2>9. ListsOK'
    BY <1>2, <2>8, AllocFrame DEF ListsOK, addVars
  <2>10. Moves(t)
    <3>1. Owned(t)' = {}
      BY <2>4 DEF Owned, Adding, Giving, Pushing
    <3>2. heap' = heap /\ held' = held
      BY <1>2 DEF addVars, debugVars
    <3> HIDE DEF b
    <3> QED
      BY <1>3, <2>2, <2>8, <3>1, <3>2 DEF PoolInv, BlocksAccounted, Moves
  <2>11. AddedBlocks' = (HeapBlocks \ heap') \ BeingAdded'
    BY <1>2, <2>4, AddedFrame DEF Adding, addVars
  <2>12. LimitOK' /\ MarksExact'
    BY <1>2, <2>4, LimitFrame, MarksFrame DEF addVars
  <2>13. TagOK'
    BY <2>4, <2>5, TagFrame DEF Allocating
  <2>14. PopOK(t)' /\ PushOK(t)' /\ AddOK(t)'
    BY <2>4 DEF PopOK, PushOK, AddOK, Adding
  <2>15. freeStackTop.tag <= freeStackTop'.tag /\ FreeBlocks \subseteq FreeBlocks'
    BY <2>5, <2>8
  <2> QED
    BY <2>4, <2>6, <2>7, <2>9, <2>10, <2>11, <2>12, <2>13, <2>14, <2>15, StepInv
<1> QED
  BY <1>4, <1>5

-----------------------------------------------------------------------------
(* The constructor links the blocks of _blockPool, the last one on top. *)
LEMMA InitPoolInv == ASSUME Init PROVE PoolInv
<1>1. /\ freeStackTop = [ptr |-> InitBlockNum, tag |-> 0]
      /\ next = [b \in Blocks |-> IF b \in InitBlocks THEN b - 1 ELSE Null]
      /\ postCode = [b \in Blocks |-> "free"]
      /\ addAllocCnt = -1 /\ allocTop = Null
      /\ allocNext = [b \in HeapBlocks |-> Null]
      /\ useCnt = 0 /\ heap = HeapBlocks /\ held = {}
      /\ pc = [t \in Threads |-> "idle"]
      /\ loc = [t \in Threads |-> NoLocals]
  BY DEF Init
<1>2. \A t \in Threads : pc[t] = "idle"
  BY <1>1
<1>3. /\ InitBlockNum \in Nat /\ InitBlockNum \in Pointers
      /\ InitBlocks \subseteq Blocks /\ InitBlocks \cap HeapBlocks = {}
      /\ InitBlocks \cup HeapBlocks = Blocks
      /\ \A b \in InitBlocks : b - 1 \in Pointers
  BY PoolAssumption DEF InitBlocks, HeapBlocks, Blocks, Pointers, Null
<1>4. TypeOK
  <2>1. freeStackTop \in Tops
    BY <1>1, <1>3 DEF Tops
  <2>2. next \in [Blocks -> Pointers]
    BY <1>1, <1>3 DEF Pointers
  <2>3. pc \in [Threads -> Pcs]
    BY <1>1 DEF Pcs
  <2>4. loc \in [Threads -> Locals]
    BY <1>1, NoLocalsType
  <2>5. addAllocCnt \in Int /\ useCnt \in Int
    BY <1>1
  <2>6. allocNext \in [HeapBlocks -> HeapBlocks \cup {Null}]
    BY <1>1
  <2>7. postCode \in [Blocks -> {"used", "free"}]
    BY <1>1
  <2> QED
    BY <1>1, <2>1, <2>2, <2>3, <2>4, <2>5, <2>6, <2>7 DEF TypeOK, Pcs, Locals
<1>5. /\ HasChain(freeStackTop.ptr, next, Blocks, Null)
      /\ FreeBlocks = InitBlocks
  <2> DEFINE L == [i \in 0 .. InitBlockNum |-> i]
             n == InitBlockNum
  <2>1. L \in [0 .. n -> Blocks \cup {Null}]
    BY <1>3 DEF InitBlocks, Null
  <2>2. IsChain(L, n, n, next, Blocks, Null)
    <3>1. \A i \in 1 .. n : L[i] \in Blocks /\ next[L[i]] = L[i - 1]
      BY <1>1, <1>3 DEF InitBlocks
    <3>2. L[0] = Null /\ L[n] = n /\ \A i, j \in 1 .. n : L[i] = L[j] => i = j
      BY <1>3 DEF Null
    <3> QED
      BY <3>1, <3>2 DEF IsChain
  <2>3. Members(L, n) = InitBlocks
    <3>1. \A i \in 1 .. n : i \in 0 .. n
      BY <1>3
    <3>2. \A i \in 1 .. n : L[i] = i
      BY <3>1
    <3> HIDE DEF L, n
    <3> QED
      BY <3>2 DEF Members, InitBlocks, n
  <2> HIDE DEF L, n
  <2>4. n \in Nat
    BY <1>3 DEF n
  <2>5. n \in 0 .. Cardinality(Blocks)
    <3>1. n <= Cardinality(Blocks)
      BY <2>2, <2>4, BlockSets, ChainShort
    <3>2. Cardinality(Blocks) \in Nat
      BY BlockSets, FS_CardinalityType
    <3> QED
      BY <2>4, <3>1, <3>2
  <2>6. HasChain(n, next, Blocks, Null)
    BY <2>1, <2>2, <2>5 DEF HasChain
  <2>7. Listed(Walk(n, next, Blocks, Null), Blocks) = Members(L, n)
    BY <2>2, <2>5, BlockSets, ListOfChain
  <2>8. freeStackTop.ptr = n
    BY <1>1 DEF n
  <2> QED
    BY <2>3, <2>6, <2>7, <2>8 DEF FreeBlocks, FreeList
<1>6. /\ HasChain(allocTop, allocNext, HeapBlocks, Null)
      /\ AddedBlocks = {}
  <2>1. HasChain(Null, allocNext, HeapBlocks, Null)
    BY BlockSets, EmptyList
  <2>2. Listed(Walk(Null, allocNext, HeapBlocks, Null), HeapBlocks) = {}
    BY <2>1, BlockSets, ListCounted
  <2> QED
    BY <1>1, <2>1, <2>2 DEF AddedBlocks, AllocList
<1>7. ListsOK
  BY <1>5, <1>6 DEF ListsOK
<1>8. \A t \in Threads : PopOK(t) /\ PushOK(t) /\ AddOK(t)
  BY <1>2 DEF PopOK, PushOK, AddOK, Adding
<1>9. Cardinality({}) = 0
  BY FS_EmptySet
<1>10. At(Allocating) = {} /\ At({"Malloc"}) = {} /\ At({"AddUndo"}) = {}
  BY <1>2 DEF At, Allocating
<1>11. TagOK
  BY <1>1, <1>9, <1>10, PoolAssumption DEF TagOK
<1>12. LimitOK
  <2>1. HeapBlocks \ heap = {}
    BY <1>1
  <2> QED
    BY <1>1, <1>9, <1>10, <2>1, PoolAssumption DEF LimitOK
<1>13. BlocksAccounted
  <2>1. Length(FreeList, Blocks) = Cardinality(FreeBlocks)
    BY <1>5, BlockSets, ListCounted DEF FreeBlocks, FreeList
  <2>2. \A t \in Threads : Owned(t) = {}
    BY <1>2 DEF Owned, Adding, Giving, Pushing
  <2>3. UNION {Owned(t) : t \in Threads} = {}
    BY <2>2
  <2> QED
    BY <1>1, <1>3, <1>5, <2>1, <2>2, <2>3 DEF BlocksAccounted
<1>14. AddedBlocksListed
  <2>1. Length(AllocList, HeapBlocks) = Cardinality(AddedBlocks)
    BY <1>6, BlockSets, ListCounted DEF AddedBlocks, AllocList
  <2> QED
    BY <1>1, <1>6, <2>1 DEF AddedBlocksListed
<1>15. MarksExact
  BY <1>1, <1>9 DEF MarksExact
<1> QED
  BY <1>4, <1>7, <1>8, <1>11, <1>12, <1>13, <1>14, <1>15 DEF PoolInv

LEMMA NextPoolInv == ASSUME PoolInv, [Next]_vars PROVE PoolInv'
<1>1. ASSUME NEW t \in Threads, Alloc(t) PROVE PoolInv'
  BY <1>1, AllocInv
<1>2. ASSUME NEW t \in Threads, NEW b \in held, Free(t, b) PROVE PoolInv'
  BY <1>2, FreeInv
<1>3. ASSUME NEW t \in Threads, Step(t) PROVE PoolInv'
  BY <1>3, PopLoadInv, PopNextInv, PopCasInv, TakeInv, AddCountInv, AddUndoInv,
     MallocInv, BaLoadInv, BaCasInv, AddInv, PushLoadInv, PushLinkInv, PushCasInv
     DEF Step
<1>4. CASE UNCHANGED vars
  <2> USE <1>4 DEF vars
  <2>1. FreeList' = FreeList /\ AllocList' = AllocList
    BY DEF FreeList, AllocList
  <2>2. FreeBlocks' = FreeBlocks /\ AddedBlocks' = AddedBlocks
    BY <2>1 DEF FreeBlocks, AddedBlocks
  <2>3. TypeOK' /\ ListsOK' /\ MarksExact'
    BY DEF PoolInv, TypeOK, ListsOK, MarksExact
  <2>4. \A t \in Threads : PopOK(t)' /\ PushOK(t)' /\ AddOK(t)'
    BY <2>2 DEF PoolInv, PopOK, PushOK, AddOK
  <2>5. TagOK' /\ LimitOK'
    BY DEF PoolInv, TagOK, LimitOK, At
  <2>6. BlocksAccounted' /\ AddedBlocksListed'
    BY <2>1, <2>2 DEF PoolInv, BlocksAccounted, AddedBlocksListed, Owned
  <2> QED
    BY <2>3, <2>4, <2>5, <2>6 DEF PoolInv
<1> QED
  BY <1>1, <1>2, <1>3, <1>4 DEF Next

-----------------------------------------------------------------------------
(***************************************************************************)
(* PoolInv holds in every state of the pool: the two lists end, an         *)
(* exchange that succeeds finds what it relies on, and the counters are    *)
(* exact.                                                                  *)
(***************************************************************************)
THEOREM PoolInvariant == Spec => []PoolInv
<1>1. Init => PoolInv
  BY InitPoolInv
<1>2. PoolInv /\ [Next]_vars => PoolInv'
  BY NextPoolInv
<1> QED
  BY <1>1, <1>2, PTL DEF Spec

(***************************************************************************)
(* Alloc and Free lose no block and hand none to two callers, for any      *)
(* number of threads, as long as no tag is used twice (MemoryPool.h        *)
(* 182-306).                                                               *)
(***************************************************************************)
THEOREM BlocksSafe == Spec => []BlocksAccounted
<1>1. PoolInv => BlocksAccounted
  BY DEF PoolInv
<1> QED
  BY <1>1, PoolInvariant, PTL

(***************************************************************************)
(* The pool never grows past maxBlockLimit, whatever the number of threads *)
(* that race for the last block (MemoryPool.h 189-198).                    *)
(***************************************************************************)
THEOREM LimitKept == Spec => []WithinLimit
<1>1. PoolInv => WithinLimit
  <2> SUFFICES ASSUME PoolInv PROVE WithinLimit
    OBVIOUS
  <2> DEFINE added == Cardinality(HeapBlocks \ heap)
             passed == Cardinality(At({"Malloc"}))
  <2>1. added + passed <= AddAllocMax
    BY DEF PoolInv, LimitOK
  <2>2. added \in Nat
    BY AddedNat
  <2>3. passed \in Nat
    BY FS_Subset, FS_CardinalityType, PoolAssumption DEF At
  <2> HIDE DEF added, passed
  <2>4. added <= AddAllocMax
    BY <2>1, <2>2, <2>3, PoolAssumption
  <2> QED
    BY <2>4 DEF WithinLimit, added
<1> QED
  BY <1>1, PoolInvariant, PTL

(***************************************************************************)
(* The destructor finds every added block once (MemoryPool.h 313-343).     *)
(***************************************************************************)
THEOREM AddedListed == Spec => []AddedBlocksListed
<1>1. PoolInv => AddedBlocksListed
  BY DEF PoolInv
<1> QED
  BY <1>1, PoolInvariant, PTL

(***************************************************************************)
(* Free accepts exactly the blocks that callers hold, and _useCnt counts   *)
(* them (MemoryPool.h 244).                                                *)
(***************************************************************************)
THEOREM MarksCorrect == Spec => []MarksExact
<1>1. PoolInv => MarksExact
  BY DEF PoolInv
<1> QED
  BY <1>1, PoolInvariant, PTL
=============================================================================
