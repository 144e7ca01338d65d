---------------------------- MODULE MemoryPoolTLS ---------------------------
(***************************************************************************)
(* MemoryPoolTLS (src/LoginServer_Chat/MemoryPoolTLS.h), in the debug mode *)
(* that is its default: the pool of packets, characters and queue nodes.   *)
(* Every thread allocates from and frees to a chunk of its own.  Chunks go *)
(* through a stack that all threads share: a thread whose chunk is empty   *)
(* takes one from it, a thread whose chunk is full leaves it there.  Empty *)
(* chunk objects come from a MemoryPool<Chunk>, which is atomic here       *)
(* (module MemoryPool is about it).                                        *)
(*                                                                         *)
(* One step is one access to memory that another thread may access too; a  *)
(* chunk is its owner's, and its list of blocks is their number, _size.    *)
(* Callers free what they hold, once, in whatever thread, so that the      *)
(* marks Free looks at are in order.  A thread that dereferences nullptr   *)
(* or takes a block out of an empty chunk is at "Crash"; the others may go *)
(* on until the process has ended.                                         *)
(*                                                                         *)
(* Operators marked "faulty variant" are not part of the specification.    *)
(***************************************************************************)
EXTENDS Integers, FiniteSets, FiniteSetsExt, LinkedList

CONSTANTS Threads,
          ChunkSize,
          InitChunkCnt,     \* initChunkCnt
          HeapArrays,       \* bound: the arrays _aligned_malloc can return
          AddAllocMax,      \* _addAllocMax, in chunks
          MaxChunks,        \* bound: the chunk objects in use at once
          MaxTag,           \* bound: no ChunkAlloc is called past this tag
          MallocMayFail     \* whether _aligned_malloc may return nullptr

ASSUME TLSAssumption ==
    /\ IsFiniteSet(Threads)
    /\ ChunkSize \in Nat \ {0}
    /\ InitChunkCnt \in Nat /\ HeapArrays \in Nat /\ AddAllocMax \in Nat
    /\ MaxChunks \in Nat /\ MaxChunks >= InitChunkCnt
    /\ MaxTag \in 0 .. 2 ^ 17 - 1
    /\ MallocMayFail \in BOOLEAN

Null   == 0
Chunks == 1 .. MaxChunks

VARIABLES
    freeStackTop,       \* _freeStackTop, a chunk and a tag
    chunkNext,          \* _next of the chunks
    size,               \* _size, the number of blocks in each chunk
    emptyChunks,        \* the chunks in _emptyChunkManager
    tls,                \* the chunk TlsGetValue(_tlsIdx) returns in a thread
    addAllocCnt,        \* _addAllocCnt
    heap,               \* how many arrays _aligned_malloc can still return
    totalChunk,         \* _totalChunk
    useChunk,           \* _useChunk
    held,               \* how many blocks callers have
    pc,                 \* where each thread is
    loc                 \* the local variables of each thread

stackVars == <<freeStackTop, chunkNext>>
chunkVars == <<size, emptyChunks, tls>>
addVars   == <<addAllocCnt, heap>>
cntVars   == <<totalChunk, useChunk>>
vars == <<stackVars, chunkVars, addVars, cntVars, held, pc, loc>>

(* ChunkAlloc without a chunk, with an array, with a chunk; ChunkFree before *)
(* and after its exchange                                                    *)
Seeking == {"PopLoad", "PopNext", "PopCas", "AddCount", "AddUndo", "Malloc"}
Adding  == {"Fill"}
Giving  == {"CountTotal", "CountUse", "Take"}
Pushing == {"PushLoad", "PushLink", "PushCas"}
Pushed  == {"CountFree", "Replace"}

(* chunk is popChunk or pChunk, top is bkTop and other is nextTop of Pop *)
NoLocals == [chunk |-> Null, top |-> [ptr |-> Null, tag |-> 0], other |-> Null]

(* the constructor fills a chunk per array and links it before the last one *)
Init ==
    /\ freeStackTop = [ptr |-> InitChunkCnt, tag |-> 0]
    /\ chunkNext = [c \in Chunks |-> IF c <= InitChunkCnt THEN c - 1 ELSE Null]
    /\ size = [c \in Chunks |-> IF c <= InitChunkCnt THEN ChunkSize ELSE 0]
    /\ emptyChunks = {c \in Chunks : c > InitChunkCnt}
    /\ tls = [t \in Threads |-> Null]
    /\ addAllocCnt = -1
    /\ heap = HeapArrays
    /\ totalChunk = InitChunkCnt
    /\ useChunk = 0
    /\ held = 0
    /\ pc = [t \in Threads |-> "idle"]
    /\ loc = [t \in Threads |-> NoLocals]

(* thread t goes on; or it returns, and its local variables are gone *)
Goto(t, here, there) == pc[t] = here /\ pc' = [pc EXCEPT ![t] = there]

Forget(t) == loc' = [loc EXCEPT ![t] = NoLocals]

Return(t, here) == Goto(t, here, "idle") /\ Forget(t)

(* a block leaves chunk c and goes to the caller *)
Give(c) ==
    /\ size' = [size EXCEPT ![c] = @ - 1]
    /\ held' = held + 1

-----------------------------------------------------------------------------
(* faulty variant: a chunk is exchanged while a block is left in it *)
NeedsChunkEarly(t) == tls[t] # Null => size[tls[t]] <= 1

(* Chunk::Pop fails, or the thread has no chunk yet *)
NeedsChunk(t) == tls[t] # Null => size[tls[t]] = 0

(* Alloc: the thread's own chunk has a block *)
AllocLocal(t) ==
    /\ pc[t] = "idle"
    /\ ~NeedsChunk(t)
    /\ Give(tls[t])
    /\ UNCHANGED <<stackVars, emptyChunks, tls, addVars, cntVars, pc, loc>>

(* the empty chunk is given back; TLS still names it until TlsSetValue *)
AllocChunk(t) ==
    /\ Goto(t, "idle", "PopLoad")
    /\ NeedsChunk(t)
    /\ freeStackTop.tag + Cardinality({u \in Threads : pc[u] \in Seeking}) < MaxTag
    /\ emptyChunks' = emptyChunks \cup ({tls[t]} \ {Null})
    /\ UNCHANGED <<stackVars, size, tls, addVars, cntVars, held, loc>>

(* ChunkAlloc: Pop *)
PopLoad(t) ==
    /\ Goto(t, "PopLoad", IF freeStackTop.ptr = Null THEN "AddCount" ELSE "PopNext")
    /\ loc' = [loc EXCEPT ![t].top = freeStackTop]
    /\ UNCHANGED <<stackVars, chunkVars, addVars, cntVars, held>>

(* the field is read whoever owns the chunk by now *)
PopNext(t) ==
    /\ Goto(t, "PopNext", "PopCas")
    /\ loc' = [loc EXCEPT ![t].other = chunkNext[loc[t].top.ptr]]
    /\ UNCHANGED <<stackVars, chunkVars, addVars, cntVars, held>>

(* faulty variant: Pop leaves the tag as it is *)
PopTagKept(t) == loc[t].top.tag

PopTag(t) == loc[t].top.tag + 1

PopCas(t) ==
    /\ \/ /\ freeStackTop = loc[t].top
          /\ Goto(t, "PopCas", "CountUse")
          /\ freeStackTop' = [ptr |-> loc[t].other, tag |-> PopTag(t)]
          /\ loc' = [loc EXCEPT ![t] = [NoLocals EXCEPT !.chunk = loc[t].top.ptr]]
       \/ /\ freeStackTop # loc[t].top
          /\ Goto(t, "PopCas", "PopLoad")
          /\ Forget(t)
          /\ UNCHANGED freeStackTop
    /\ UNCHANGED <<chunkNext, chunkVars, addVars, cntVars, held>>

(* the stack was empty: one more array, unless the limit is reached, when    *)
(* ChunkAlloc returns the nullptr that Alloc dereferences                    *)
AddCount(t) ==
    LET myNum == addAllocCnt + 1
    IN  /\ Goto(t, "AddCount", CASE myNum = AddAllocMax -> "Crash"
                                 [] myNum > AddAllocMax -> "AddUndo"
                                 [] OTHER               -> "Malloc")
        /\ addAllocCnt' = myNum
        /\ UNCHANGED <<stackVars, chunkVars, heap, cntVars, held, loc>>

AddUndo(t) ==
    /\ Goto(t, "AddUndo", "Crash")
    /\ addAllocCnt' = addAllocCnt - 1
    /\ UNCHANGED <<stackVars, chunkVars, heap, cntVars, held, loc>>

(* BlockArrayAllocator::Alloc.  The list it pushes the array to is read by *)
(* the destructor only.                                                    *)
Malloc(t) ==
    /\ \/ Goto(t, "Malloc", "Fill") /\ heap > 0 /\ heap' = heap - 1
       \/ Goto(t, "Malloc", "Crash") /\ MallocMayFail /\ UNCHANGED heap
    /\ UNCHANGED <<stackVars, chunkVars, addAllocCnt, cntVars, held, loc>>

(* an empty chunk from the manager gets the blocks of the array *)
Fill(t) ==
    /\ Goto(t, "Fill", "CountTotal")
    /\ \E c \in emptyChunks :
           /\ emptyChunks' = emptyChunks \ {c}
           /\ size' = [size EXCEPT ![c] = ChunkSize]
           /\ loc' = [loc EXCEPT ![t] = [NoLocals EXCEPT !.chunk = c]]
    /\ UNCHANGED <<stackVars, tls, addVars, cntVars, held>>

CountTotal(t) ==
    /\ Goto(t, "CountTotal", "CountUse")
    /\ totalChunk' = totalChunk + 1
    /\ UNCHANGED <<stackVars, chunkVars, addVars, useChunk, held, loc>>

CountUse(t) ==
    /\ Goto(t, "CountUse", "Take")
    /\ useChunk' = useChunk + 1
    /\ UNCHANGED <<stackVars, chunkVars, addVars, totalChunk, held, loc>>

(* back in Alloc, which takes a block without asking whether there is one *)
Take(t) ==
    LET c == loc[t].chunk
    IN  /\ Goto(t, "Take", IF size[c] = 0 THEN "Crash" ELSE "idle")
        /\ IF size[c] = 0 THEN UNCHANGED <<size, held>> ELSE Give(c)
        /\ Forget(t)
        /\ tls' = [tls EXCEPT ![t] = c]
        /\ UNCHANGED <<stackVars, emptyChunks, addVars, cntVars>>

-----------------------------------------------------------------------------
(* Free *)

(* faulty variant: a chunk takes one block less *)
IsFullEarly(c) == size[c] + 1 >= ChunkSize

IsFull(c) == size[c] = ChunkSize

(* The block goes to the thread's chunk; the first chunk of a thread that has *)
(* not allocated is an empty one.                                             *)
FreeLocal(t) ==
    /\ pc[t] = "idle"
    /\ held > 0
    /\ \E c \in IF tls[t] = Null THEN emptyChunks ELSE {tls[t]} :
           /\ ~IsFull(c)
           /\ emptyChunks' = emptyChunks \ {c}
           /\ tls' = [tls EXCEPT ![t] = c]
           /\ size' = [size EXCEPT ![c] = @ + 1]
    /\ held' = held - 1
    /\ UNCHANGED <<stackVars, addVars, cntVars, pc, loc>>

(* the thread's chunk is full: ChunkFree *)
FreeChunk(t) ==
    /\ Goto(t, "idle", "PushLoad")
    /\ held > 0
    /\ tls[t] \in {c \in Chunks : IsFull(c)}
    /\ held' = held - 1
    /\ loc' = [loc EXCEPT ![t].chunk = tls[t]]
    /\ UNCHANGED <<stackVars, chunkVars, addVars, cntVars>>

(* Push *)
PushLoad(t) ==
    /\ Goto(t, "PushLoad", "PushLink")
    /\ loc' = [loc EXCEPT ![t].top = freeStackTop]
    /\ UNCHANGED <<stackVars, chunkVars, addVars, cntVars, held>>

PushLink(t) ==
    /\ Goto(t, "PushLink", "PushCas")
    /\ chunkNext' = [chunkNext EXCEPT ![loc[t].chunk] = loc[t].top.ptr]
    /\ UNCHANGED <<freeStackTop, chunkVars, addVars, cntVars, held, loc>>

PushCas(t) ==
    /\ \/ /\ freeStackTop = loc[t].top
          /\ Goto(t, "PushCas", "CountFree")
          /\ freeStackTop' = [ptr |-> loc[t].chunk, tag |-> loc[t].top.tag]
          /\ Forget(t)
       \/ /\ freeStackTop # loc[t].top
          /\ Goto(t, "PushCas", "PushLoad")
          /\ UNCHANGED <<freeStackTop, loc>>
    /\ UNCHANGED <<chunkNext, chunkVars, addVars, cntVars, held>>

(* faulty variant: _useChunk is not decremented *)
CountFreeMissing(t) ==
    /\ Goto(t, "CountFree", "Replace")
    /\ UNCHANGED <<stackVars, chunkVars, addVars, cntVars, held, loc>>

CountFree(t) ==
    /\ Goto(t, "CountFree", "Replace")
    /\ useChunk' = useChunk - 1
    /\ UNCHANGED <<stackVars, chunkVars, addVars, totalChunk, held, loc>>

(* an empty chunk takes the block and becomes the thread's *)
Replace(t) ==
    /\ Return(t, "Replace")
    /\ \E c \in emptyChunks :
           /\ emptyChunks' = emptyChunks \ {c}
           /\ size' = [size EXCEPT ![c] = @ + 1]
           /\ tls' = [tls EXCEPT ![t] = c]
    /\ UNCHANGED <<stackVars, addVars, cntVars, held>>

-----------------------------------------------------------------------------
Step(t) ==
    \/ PopLoad(t) \/ PopNext(t) \/ PopCas(t)
    \/ AddCount(t) \/ AddUndo(t) \/ Malloc(t)
    \/ Fill(t) \/ CountTotal(t) \/ CountUse(t) \/ Take(t)
    \/ PushLoad(t) \/ PushLink(t) \/ PushCas(t) \/ CountFree(t) \/ Replace(t)

Next == \E t \in Threads :
            \/ AllocLocal(t) \/ AllocChunk(t)
            \/ FreeLocal(t) \/ FreeChunk(t)
            \/ Step(t)

Spec == Init /\ [][Next]_vars

-----------------------------------------------------------------------------
(* the chunks one meets from _freeStackTop on *)
List    == Walk(freeStackTop.ptr, chunkNext, Chunks, Null)
Depth   == Length(List, Chunks)
Stacked == Listed(List, Chunks)

(* the chunk that only thread t can reach *)
OwnChunk(t) ==
    (CASE pc[t] \in {"idle"} \cup Pushing -> {tls[t]}
       [] pc[t] \in Giving                -> {loc[t].chunk}
       [] OTHER                           -> {}) \ {Null}

At(where) == Cardinality({t \in Threads : pc[t] \in where})

(***************************************************************************)
(* Every chunk object is on the shared stack once, or empty in its         *)
(* manager, or one thread's (lines 208-385), also when it is recycled      *)
(* under a Pop that has read its _next already.                            *)
(***************************************************************************)
ChunksAccounted ==
    /\ Depth = Cardinality(Stacked)
    /\ Stacked \cup emptyChunks \cup UNION {OwnChunk(t) : t \in Threads} = Chunks
    /\ Stacked \cap emptyChunks = {}
    /\ \A t \in Threads :
          /\ OwnChunk(t) \cap (Stacked \cup emptyChunks) = {}
          /\ \A u \in Threads \ {t} : OwnChunk(t) \cap OwnChunk(u) = {}

(* the blocks in all the chunks *)
SumOf(f, S) == MapThenSumSet(LAMBDA x : f[x], S)

(***************************************************************************)
(* No block is lost and none appears when chunks move between threads:     *)
(* the blocks of the arrays that were allocated are in chunks, with        *)
(* callers, or with a thread inside Alloc or Free.                         *)
(***************************************************************************)
BlocksConserved ==
    SumOf(size, Chunks) + held
        + ChunkSize * At(Adding) + At(Pushing \cup Pushed)
            = ChunkSize * (InitChunkCnt + HeapArrays - heap)

(***************************************************************************)
(* "Chunk FreeStack, holds chunks without an owner that are full of        *)
(* blocks" (line 93), and the chunks of the manager are empty: so the Pop  *)
(* of line 228 and the Push of line 281, whose results nobody looks at,    *)
(* succeed.                                                                *)
(***************************************************************************)
StackedChunksFull ==
    /\ \A c \in Stacked : size[c] = ChunkSize
    /\ \A c \in emptyChunks : size[c] = 0

(***************************************************************************)
(* The debug counters add up: _totalChunk - _useChunk is the number of     *)
(* chunks on the stack, except for the threads between their exchange and  *)
(* their count.                                                            *)
(***************************************************************************)
ChunkCountsExact ==
    totalChunk - useChunk = Depth + At({"CountUse"}) - At({"CountFree"})

-----------------------------------------------------------------------------
(* The inductive invariant *)

Pointers == Chunks \cup {Null}
Tops     == [ptr : Pointers, tag : Nat]
Pcs      == {"idle", "Crash"} \cup Seeking \cup Adding \cup Giving
               \cup Pushing \cup Pushed

TypeOK ==
    /\ freeStackTop \in Tops
    /\ chunkNext \in [Chunks -> Pointers]
    /\ size \in [Chunks -> 0 .. ChunkSize]
    /\ emptyChunks \subseteq Chunks
    /\ tls \in [Threads -> Pointers]
    /\ addAllocCnt \in Int
    /\ heap \in 0 .. HeapArrays
    /\ totalChunk \in Int /\ useChunk \in Int
    /\ held \in Nat
    /\ pc \in [Threads -> Pcs]
    /\ loc \in [Threads -> [chunk : Pointers, top : Tops, other : Pointers]]

(* the shared stack ends *)
ListOK == HasChain(freeStackTop.ptr, chunkNext, Chunks, Null)

(* A Pop that finds the tag it has read has seen no other Pop: its chunk is  *)
(* still stacked, and the _next of a stacked chunk does not change.          *)
PopOK(t) ==
    pc[t] \in {"PopNext", "PopCas"} =>
        /\ loc[t].top.ptr \in Chunks
        /\ loc[t].top.tag =< freeStackTop.tag
        /\ loc[t].top.tag = freeStackTop.tag =>
              /\ loc[t].top.ptr \in Stacked
              /\ pc[t] = "PopCas" => chunkNext[loc[t].top.ptr] = loc[t].other

PushOK(t) == pc[t] = "PushCas" => chunkNext[loc[t].chunk] = loc[t].top.ptr

(* a chunk on its way from the stack to a thread or back is full *)
FullOK(t) ==
    /\ pc[t] \in Pushing => loc[t].chunk = tls[t]
    /\ pc[t] \in Giving \cup Pushing =>
          loc[t].chunk \in Chunks /\ size[loc[t].chunk] = ChunkSize

TLSInv ==
    /\ TypeOK
    /\ ListOK
    /\ \A t \in Threads : PopOK(t) /\ PushOK(t) /\ FullOK(t)
    /\ ChunksAccounted
    /\ StackedChunksFull
    /\ ChunkCountsExact
    /\ BlocksConserved
=============================================================================
