----------------------------- MODULE MemoryPool -----------------------------
(***************************************************************************)
(* MemoryPool (src/LoginServer_Chat/MemoryPool.h), in the debug mode that  *)
(* is its default: a free list of blocks that threads pop and push without *)
(* a lock, and an allocator that adds blocks up to a limit when the list   *)
(* is empty.  The pointer to the first free block carries a tag in its     *)
(* upper 17 bits; every Pop increments it.                                 *)
(*                                                                         *)
(* One step is one access to memory that another thread may access too.    *)
(* Callers free what they hold, once.  _preCode is constant and _postCode  *)
(* has two values, "used" (equal to _preCode) and "free" (its complement). *)
(*                                                                         *)
(* Operators marked "faulty variant" are not part of the specification.    *)
(***************************************************************************)
EXTENDS Integers, FiniteSets, LinkedList

CONSTANTS Threads,
          InitBlockNum,     \* initBlockNum
          HeapBlockNum,     \* bound: the blocks _aligned_malloc can return
          AddAllocMax,      \* _addAllocMax, maxBlockLimit - initBlockNum
          TagMod,           \* the number of tags (2^17)
          MallocMayFail     \* whether _aligned_malloc may return nullptr

ASSUME PoolAssumption ==
    /\ IsFiniteSet(Threads)
    /\ InitBlockNum \in Nat
    /\ HeapBlockNum \in Nat
    /\ AddAllocMax \in Nat
    /\ TagMod \in Nat \ {0}
    /\ MallocMayFail \in BOOLEAN

Null       == 0
InitBlocks == 1 .. InitBlockNum
HeapBlocks == InitBlockNum + 1 .. InitBlockNum + HeapBlockNum
Blocks     == 1 .. InitBlockNum + HeapBlockNum

VARIABLES
    freeStackTop,       \* _freeStackTop, a block and a tag
    next, postCode,     \* the fields of the blocks
    addAllocCnt,        \* _addAllocCnt
    allocTop, allocNext,\* the list of BlockAllocator
    useCnt,             \* _useCnt
    heap,               \* what _aligned_malloc has not returned yet
    held,               \* the blocks in the hands of callers
    pc,                 \* where each thread is
    loc                 \* the local variables of each thread

vars == <<freeStackTop, next, postCode, addAllocCnt, allocTop, allocNext,
          useCnt, heap, held, pc, loc>>

Allocating == {"PopLoad", "PopNext", "PopCas", "AddCount", "AddUndo", "Malloc"}
Adding     == {"BaLoad", "BaCas"}
Giving     == {"Take", "Add"}
Pushing    == {"PushLoad", "PushLink", "PushCas"}

(* blk is popNode of Alloc or pushNode of Free, top is bkTop, and other is *)
(* nextTop of Pop or bkTop of BlockAllocator::Push                         *)
NoLocals == [blk |-> Null, top |-> [ptr |-> Null, tag |-> 0], other |-> Null]

(* the constructor links block i of _blockPool before block i - 1 *)
Init ==
    /\ freeStackTop = [ptr |-> InitBlockNum, tag |-> 0]
    /\ next = [b \in Blocks |-> IF b \in InitBlocks THEN b - 1 ELSE Null]
    /\ postCode = [b \in Blocks |-> "free"]
    /\ addAllocCnt = -1
    /\ allocTop = Null
    /\ allocNext = [b \in HeapBlocks |-> Null]
    /\ useCnt = 0
    /\ heap = HeapBlocks
    /\ held = {}
    /\ pc = [t \in Threads |-> "idle"]
    /\ loc = [t \in Threads |-> NoLocals]

(* thread t goes on; or it returns, and its local variables are gone *)
Goto(t, here, there) == pc[t] = here /\ pc' = [pc EXCEPT ![t] = there]

Return(t, here) == Goto(t, here, "idle") /\ loc' = [loc EXCEPT ![t] = NoLocals]

poolVars  == <<freeStackTop, next>>
addVars   == <<addAllocCnt, allocTop, allocNext, heap>>
debugVars == <<postCode, useCnt, held>>

-----------------------------------------------------------------------------
(* Alloc: Pop first *)

(* the bound: no more Pops than there are tags *)
Alloc(t) ==
    /\ Goto(t, "idle", "PopLoad")
    /\ freeStackTop.tag + Cardinality({u \in Threads : pc[u] \in Allocating}) + 1
           < TagMod
    /\ UNCHANGED <<poolVars, addVars, debugVars, loc>>

PopLoad(t) ==
    /\ \/ freeStackTop.ptr # Null /\ Goto(t, "PopLoad", "PopNext")
       \/ freeStackTop.ptr = Null /\ Goto(t, "PopLoad", "AddCount")
    /\ loc' = [loc EXCEPT ![t].top = freeStackTop]
    /\ UNCHANGED <<poolVars, addVars, debugVars>>

PopNext(t) ==
    /\ Goto(t, "PopNext", "PopCas")
    /\ loc' = [loc EXCEPT ![t].other = next[loc[t].top.ptr]]
    /\ UNCHANGED <<poolVars, addVars, debugVars>>

(* faulty variant: a Pop leaves the tag as it is *)
PopTagKept(tag) == tag

PopTag(tag) == (tag + 1) % TagMod

PopCas(t) ==
    /\ \/ /\ freeStackTop = loc[t].top
          /\ Goto(t, "PopCas", "Take")
          /\ freeStackTop' = [ptr |-> loc[t].other, tag |-> PopTag(loc[t].top.tag)]
          /\ loc' = [loc EXCEPT ![t] = [NoLocals EXCEPT !.blk = loc[t].top.ptr]]
       \/ /\ freeStackTop # loc[t].top
          /\ Goto(t, "PopCas", "PopLoad")
          /\ loc' = [loc EXCEPT ![t] = NoLocals]
          /\ UNCHANGED freeStackTop
    /\ UNCHANGED <<next, addVars, debugVars>>

(* a popped block changes its _postCode and goes to the caller *)
Take(t) ==
    /\ Return(t, "Take")
    /\ postCode' = [postCode EXCEPT ![loc[t].blk] = "used"]
    /\ useCnt' = useCnt + 1
    /\ held' = held \cup {loc[t].blk}
    /\ UNCHANGED <<poolVars, addVars>>

-----------------------------------------------------------------------------
(* Alloc: the list was empty *)

(* faulty variant: the number that equals the limit is let through *)
AtLimitLate(myNum) == myNum = AddAllocMax + 1

AtLimit(myNum) == myNum = AddAllocMax

(* the thread that meets the limit first leaves its increment behind *)
AddCount(t) ==
    LET myNum == addAllocCnt + 1 IN
    /\ addAllocCnt' = myNum
    /\ \/ AtLimit(myNum) /\ Return(t, "AddCount")
       \/ /\ ~AtLimit(myNum) /\ myNum > AddAllocMax
          /\ Goto(t, "AddCount", "AddUndo")
          /\ UNCHANGED loc
       \/ /\ ~AtLimit(myNum) /\ myNum <= AddAllocMax
          /\ Goto(t, "AddCount", "Malloc")
          /\ UNCHANGED loc
    /\ UNCHANGED <<poolVars, allocTop, allocNext, heap, debugVars>>

AddUndo(t) ==
    /\ Return(t, "AddUndo")
    /\ addAllocCnt' = addAllocCnt - 1
    /\ UNCHANGED <<poolVars, allocTop, allocNext, heap, debugVars>>

(* BlockAllocator::Alloc *)
Malloc(t) ==
    /\ \/ \E b \in heap :
              /\ Goto(t, "Malloc", "BaLoad")
              /\ heap' = heap \ {b}
              /\ loc' = [loc EXCEPT ![t].blk = b]
       \/ MallocMayFail /\ Return(t, "Malloc") /\ UNCHANGED heap
    /\ UNCHANGED <<poolVars, addAllocCnt, allocTop, allocNext, debugVars>>

(* BlockAllocator::Push.  Its list is only pushed to while the pool lives, *)
(* so the tag in it stays 0 and no other thread reads the field written.   *)
BaLoad(t) ==
    /\ Goto(t, "BaLoad", "BaCas")
    /\ loc' = [loc EXCEPT ![t].other = allocTop]
    /\ allocNext' = [allocNext EXCEPT ![loc[t].blk] = allocTop]
    /\ UNCHANGED <<poolVars, addAllocCnt, allocTop, heap, debugVars>>

(* faulty variant: the top is stored without a comparison *)
BaCasStore(t) ==
    /\ Goto(t, "BaCas", "Add")
    /\ allocTop' = loc[t].blk
    /\ UNCHANGED <<poolVars, addAllocCnt, allocNext, heap, debugVars, loc>>

BaCas(t) ==
    /\ \/ /\ allocTop = loc[t].other
          /\ Goto(t, "BaCas", "Add")
          /\ allocTop' = loc[t].blk
       \/ /\ allocTop # loc[t].other
          /\ Goto(t, "BaCas", "BaLoad")
          /\ UNCHANGED allocTop
    /\ UNCHANGED <<poolVars, addAllocCnt, allocNext, heap, debugVars, loc>>

(* faulty variant: a new block is marked like the blocks of _blockPool *)
NewPostCodeFree == "free"

NewPostCode == "used"

(* a new block gets its codes and goes to the caller *)
Add(t) ==
    /\ Return(t, "Add")
    /\ postCode' = [postCode EXCEPT ![loc[t].blk] = NewPostCode]
    /\ next' = [next EXCEPT ![loc[t].blk] = Null]
    /\ useCnt' = useCnt + 1
    /\ held' = held \cup {loc[t].blk}
    /\ UNCHANGED <<freeStackTop, addVars>>

-----------------------------------------------------------------------------
(* Free *)

(* a block whose codes differ is refused, and stays where it is *)
Free(t, b) ==
    /\ b \in held
    /\ held' = held \ {b}
    /\ IF postCode[b] = "used"
       THEN /\ Goto(t, "idle", "PushLoad")
            /\ loc' = [loc EXCEPT ![t].blk = b]
            /\ postCode' = [postCode EXCEPT ![b] = "free"]
            /\ useCnt' = useCnt - 1
       ELSE Return(t, "idle") /\ UNCHANGED <<postCode, useCnt>>
    /\ UNCHANGED <<poolVars, addVars>>

PushLoad(t) ==
    /\ Goto(t, "PushLoad", "PushLink")
    /\ loc' = [loc EXCEPT ![t].top = freeStackTop]
    /\ UNCHANGED <<poolVars, addVars, debugVars>>

PushLink(t) ==
    /\ Goto(t, "PushLink", "PushCas")
    /\ next' = [next EXCEPT ![loc[t].blk] = loc[t].top.ptr]
    /\ UNCHANGED <<freeStackTop, addVars, debugVars, loc>>

(* faulty variant: the loop repeats the exchange with the old top *)
PushRetryNoReload == "PushCas"

(* where the loop continues when another thread changed the top *)
PushRetry == "PushLoad"

PushCas(t) ==
    /\ \/ /\ freeStackTop = loc[t].top
          /\ Return(t, "PushCas")
          /\ freeStackTop' = [ptr |-> loc[t].blk, tag |-> loc[t].top.tag]
       \/ /\ freeStackTop # loc[t].top
          /\ Goto(t, "PushCas", PushRetry)
          /\ UNCHANGED <<freeStackTop, loc>>
    /\ UNCHANGED <<next, addVars, debugVars>>

-----------------------------------------------------------------------------
Step(t) ==
    \/ PopLoad(t) \/ PopNext(t) \/ PopCas(t) \/ Take(t)
    \/ AddCount(t) \/ AddUndo(t) \/ Malloc(t) \/ BaLoad(t) \/ BaCas(t) \/ Add(t)
    \/ PushLoad(t) \/ PushLink(t) \/ PushCas(t)

Next == \E t \in Threads :
            \/ Alloc(t)
            \/ \E b \in held : Free(t, b)
            \/ Step(t)

(* a thread inside Alloc or Free goes on *)
Fairness == \A t \in Threads : WF_vars(Step(t))

Spec == Init /\ [][Next]_vars /\ Fairness

-----------------------------------------------------------------------------
(* the list of free blocks and the list of added ones *)
FreeList  == Walk(freeStackTop.ptr, next, Blocks, Null)
AllocList == Walk(allocTop, allocNext, HeapBlocks, Null)

FreeBlocks  == Listed(FreeList, Blocks)
AddedBlocks == Listed(AllocList, HeapBlocks)

Owned(t) == IF pc[t] \in Adding \cup Giving \cup Pushing THEN {loc[t].blk} ELSE {}

(***************************************************************************)
(* Every block is in one place: not allocated yet, in the free list once,  *)
(* in the hands of a caller, or on its way there with one thread inside    *)
(* Alloc or Free (lines 182-306).  No block is lost and none is handed to  *)
(* two callers, whatever was recycled between a load and its exchange.     *)
(***************************************************************************)
BlocksAccounted ==
    /\ Length(FreeList, Blocks) = Cardinality(FreeBlocks)
    /\ heap \cup held \cup FreeBlocks \cup UNION {Owned(t) : t \in Threads} = Blocks
    /\ heap \cap held = {}
    /\ FreeBlocks \cap (heap \cup held) = {}
    /\ \A t \in Threads :
           /\ Owned(t) \cap (heap \cup held \cup FreeBlocks) = {}
           /\ \A u \in Threads \ {t} : Owned(t) \cap Owned(u) = {}

(***************************************************************************)
(* No more blocks are added than maxBlockLimit allows (lines 189-198), in  *)
(* whatever order threads meet the limit, step back and try again.         *)
(***************************************************************************)
WithinLimit == Cardinality(HeapBlocks \ heap) <= AddAllocMax

(***************************************************************************)
(* The list from which the destructor frees the added blocks (lines        *)
(* 313-318) holds each of them exactly once, except those that a thread    *)
(* is about to link.                                                       *)
(***************************************************************************)
AddedBlocksListed ==
    /\ Length(AllocList, HeapBlocks) = Cardinality(AddedBlocks)
    /\ AddedBlocks =
           (HeapBlocks \ heap) \ {loc[t].blk : t \in {u \in Threads : pc[u] \in Adding}}

(***************************************************************************)
(* A caller's block always passes the check of Free (line 244), a block    *)
(* that nobody holds never does, and _useCnt counts the blocks held.       *)
(***************************************************************************)
MarksExact ==
    /\ \A b \in Blocks : postCode[b] = "used" <=> b \in held
    /\ useCnt = Cardinality(held)

(***************************************************************************)
(* The loops of Push and Pop (lines 273-280, 290-302, 336-343) end: every  *)
(* Alloc and Free returns when finitely many are called.                   *)
(***************************************************************************)
EveryCallReturns == \A t \in Threads : pc[t] # "idle" ~> pc[t] = "idle"

-----------------------------------------------------------------------------
(* The inductive invariant *)

Pointers == Blocks \cup {Null}
Tops == [ptr : Pointers, tag : Nat]

TypeOK ==
    /\ freeStackTop \in Tops
    /\ next \in [Blocks -> Pointers]
    /\ postCode \in [Blocks -> {"used", "free"}]
    /\ addAllocCnt \in Int
    /\ allocTop \in HeapBlocks \cup {Null}
    /\ allocNext \in [HeapBlocks -> HeapBlocks \cup {Null}]
    /\ useCnt \in Int
    /\ heap \subseteq HeapBlocks
    /\ held \subseteq Blocks
    /\ pc \in [Threads -> {"idle"} \cup Allocating \cup Adding \cup Giving \cup Pushing]
    /\ loc \in [Threads -> [blk : Pointers, top : Tops, other : Pointers]]

(* both lists end *)
ListsOK ==
    /\ HasChain(freeStackTop.ptr, next, Blocks, Null)
    /\ HasChain(allocTop, allocNext, HeapBlocks, Null)

(* What an exchange relies on.  A Pop that finds the tag it has read has     *)
(* seen no other Pop: the block it has read is still listed, and a listed    *)
(* block's next field does not change.                                       *)
PopOK(t) ==
    pc[t] \in {"PopNext", "PopCas"} =>
        /\ loc[t].top.ptr \in Blocks
        /\ loc[t].top.tag =< freeStackTop.tag
        /\ loc[t].top.tag = freeStackTop.tag =>
              /\ loc[t].top.ptr \in FreeBlocks
              /\ pc[t] = "PopCas" => next[loc[t].top.ptr] = loc[t].other

PushOK(t) == pc[t] = "PushCas" => next[loc[t].blk] = loc[t].top.ptr

AddOK(t) ==
    /\ pc[t] \in Adding => loc[t].blk \in HeapBlocks
    /\ pc[t] = "BaCas" => allocNext[loc[t].blk] = loc[t].other

At(where) == {t \in Threads : pc[t] \in where}

TagOK == freeStackTop.tag + Cardinality(At(Allocating)) < TagMod

(* Every thread that passed the limit has its number below _addAllocMax, and *)
(* once the limit was met _addAllocCnt never falls below it again.           *)
LimitOK ==
    LET got == Cardinality(HeapBlocks \ heap) + Cardinality(At({"Malloc"})) IN
    /\ addAllocCnt >= -1
    /\ got <= AddAllocMax
    /\ addAllocCnt < AddAllocMax => got <= addAllocCnt + 1 /\ At({"AddUndo"}) = {}
    /\ addAllocCnt >= AddAllocMax =>
          addAllocCnt = AddAllocMax + Cardinality(At({"AddUndo"}))

PoolInv ==
    /\ TypeOK
    /\ ListsOK
    /\ \A t \in Threads : PopOK(t) /\ PushOK(t) /\ AddOK(t)
    /\ TagOK
    /\ LimitOK
    /\ BlocksAccounted
    /\ AddedBlocksListed
    /\ MarksExact
=============================================================================
