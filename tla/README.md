# A TLA+ model of LoginServer_Chat

LoginServer_Chat is a Windows login server in C++: a network library around an
I/O completion port (`CNetServer`), the login logic that derives from it
(`LoginServer`), and the containers both stand on (`CRingBuffer`,
`CLockFreeQueue`, `CLockFreeStack`, `MemoryPool`, `MemoryPoolTLS`, `CNetPacket`).
This directory holds a model of its core, the TLC runs that check it on small
instances, and TLAPS proofs for all instances. Source files are named relative
to `src/LoginServer_Chat/`.

    tlc -workers 2 -config library_api.cfg MCCNetServer     # one run
    tlapm SessionProofs.tla                                 # one proof module

## 1. The system

| Part | State | Operations | Talks to |
|---|---|---|---|
| `AcceptThread` | `_nowSession`, `_sessionCnt`, `_freeSessionStack` | accept, take a slot, set it up, announce it, post the first receive | kernel, `LoginServer` (`OnClientJoin`) |
| `IOCPWorkerThread` (several) | none of its own | receive, send completion, SENDPOST and RELEASE jobs | completion port, all sessions, `LoginServer` (`OnRecv`) |
| `SESSION` (`_sessionArr`) | `sessionID`, `socket`, `relSocket`, `ioFlag`, `sendFlag`, `sendQ`, `sendPacketArr`, `recvQ`, two `OVERLAPPED` | `SendPost`, `RecvPost`, `EnterSession`, `LeaveSession`, `ReleaseSession` | shared by all threads, no lock |
| public API | | `SendPacket`, `Disconnect` with a session identifier | called by workers inside `OnRecv`, and by any thread of a user of the library |
| `LoginServer` | `characterMap` under a lock | `OnClientJoin`, `OnRecv` (login), `OnClientLeave` | database, Redis, `SendPacket`, `Disconnect` |
| `CNetPacket` | `_refCount`, buffer | `Alloc`, `AddRefCount`, `Free`, `Encode`, `Decode` | `MemoryPoolTLS` |
| `CRingBuffer` | array, `iFront`, `iRear` | `Enqueue`, `Dequeue`, `Peek`, `MoveRear`, `MoveFront`, sizes | receive path |
| `CLockFreeQueue`, `CLockFreeStack`, `MemoryPool`, `MemoryPoolTLS` | tagged pointers, free lists | push, pop, alloc, free | everything above |
| `Start`, `Stop`, monitor threads | `_serverOn`, handles | create and end the threads | main |
| `DBConnector`, `CrashDump`, `cpp_redis`, `tacopie`, MySQL headers | | I/O | outside |

What is hard in it:

* A session slot is recycled without a lock. What protects it is a pair of
  32-bit words, `ioCount` and `releaseFlag`: every thread inside a call, every
  overlapped operation in flight and every SENDPOST job owns one reference, and
  whoever moves both words from 0, 0 to 0, 1 in one compare-and-exchange
  releases the slot. One reference too few is a use after release, one too many
  a slot that is lost.
* Callers come with identifiers they looked up earlier. The slot may be released
  and accepted again between the reads of `EnterSession`.
* Send and receive sides have one owner each. For the send side `sendFlag` says
  so; for the receive side nothing does.
* Every WSASend, WSARecv and post may fail, at once or later, and `Disconnect`
  races with all of them.
* A message may wrap around the end of the receive buffer anywhere, and the
  kernel may cut the stream anywhere.

The correctness conditions by part: *sessions* - exact reference count, no use
after release, one release per life, stale identifiers never act, every ended
session is released; *send side* - one sender, exact packet references, no packet
left behind; *receive side* - one receiver, messages whole and in order, no crash
assertion; *contents* - `OnClientJoin`, `OnRecv`, `OnClientLeave` in this order,
characters outlive their use; *containers* - each implements its abstract queue,
stack or pool, and a recycled packet, node, block or chunk is as good as new.
`PROJECT.json` lists the hazards line by line.

## 2. The modules

| Module | Models | Extends or composes |
|---|---|---|
| `CNetServer` | session life cycle: accept thread, workers, contents threads, the port, `LoginServer`'s callbacks, packet references | `SessionTable` |
| `SessionTable` | what the class promises its contents, stated on the callbacks alone | |
| `MCCNetServer` | symmetry of the instances that TLC checks | `CNetServer` |
| `CRingBuffer` | index arithmetic of the ring buffer, as operators | |
| `RingBufferOps` | a ring buffer object, one action per method | `CRingBuffer`, `ByteQueue` |
| `ByteQueue` | a bounded FIFO queue of bytes | |
| `CNetPacket` | a packet: positions, stream operators, `Encode` and `Decode`, as operators | |
| `RecvPath` | receive path of one session: kernel, `MoveRear`, parse loop, what `Login` reads and answers, `RecvPost`, reuse of the slot and of the packets | `CRingBuffer`, `CNetPacket` |
| `MCRecvPath` | the payloads and keys of the run | `RecvPath` |
| `CLockFreeQueue` | the send queue, `Enqueue` and `Dequeue` | `TicketQueue` |
| `TicketQueue` | a FIFO queue with a separate count, as its callers see it | |
| `CLockFreeStack` | the stack of free slots, `Push` and `Pop` | `AtomicStack` |
| `AtomicStack` | a stack whose operations take effect at one moment | |
| `MemoryPool` | free list of blocks, codes of the debug mode, allocator of additional blocks | |
| `MemoryPoolTLS` | a chunk of blocks per thread, the shared stack of full chunks, the limit | |
| `LinkedList` | walks along a singly linked list, and when a list ends | |
| `SessionProofs` | types, reference count and ownership of sessions; what the contents know, free slots, packets, refinement of `SessionTable` | `CNetServer` |
| `ContainerLemmas` | what Push, Pop, an append and a foreign write do to a list; what the two-piece computations of the ring buffer come to; induction over a set of numbers | `LinkedList`, `CRingBuffer` |
| `RingBufferProofs` | indexes, sizes, refinement of `ByteQueue` | `RingBufferOps`, `ContainerLemmas` |
| `RecvPathProofs` | `Encode` and `Decode`, and the receive path | `RecvPath`, `ContainerLemmas` |
| `StackProofs` | the lock-free stack, refinement of `AtomicStack` | `CLockFreeStack`, `ContainerLemmas` |
| `QueueProofs` | the lock-free queue, refinement of `TicketQueue` | `CLockFreeQueue`, `ContainerLemmas` |
| `MemoryPoolProofs` | the memory pool | `MemoryPool`, `ContainerLemmas` |
| `MemoryPoolTLSProofs` | the thread-local pool, sums over chunks | `MemoryPoolTLS`, `ContainerLemmas` |

### CNetServer

One step of a thread is one access to shared memory (an `Interlocked` operation,
a read of `releaseFlag` or `sessionID`, an update of a container) or one system
call, together with neighbouring accesses that no other thread can tell apart
from it. The program counter names the step: `SpSize` ... `SpPending` is
`SendPost`, `RpLoad` ... `RpPending` `RecvPost`, `Enter`, `ChkFlag`, `ChkId`
`EnterSession`, `DcExchange`, `DcCancel` `Disconnect`, `SqEnqueue`, `SqPost`,
`SqPostFails` `SendPacket`, `Leave` `LeaveSession` with `RequestRelease`,
`RelCas` ... `RelCount` `ReleaseSession`, and `Ac...` `AcceptThread`. `Take...`
is `GetQueuedCompletionStatus` with the dispatch after it, and `Dec` the
decrement at the end of the loop. API calls made from `OnRecv` use the same
actions as those of contents threads; `ret` says where the thread goes on.

Choices that matter:

* `socket` is two 32-bit words. `Disconnect` exchanges the low one
  (`CNetServer.cpp:640`), tests of `INVALID_SOCKET` read both.
* A completion that transferred nothing is "fail", whatever its error: the loop
  looks at `dwTransferred` only.
* The port is unordered. Workers take entries concurrently, so order in the port
  does not order what they do.
* `releaseFlag` of a new `SESSION` is not initialised (`CNetServer.cpp:80-86`):
  `Init` allows both values.
* `sessionCnt` wraps at `SessionCntMax`, which stands for 2^48 - 1.
  An identifier that is kept until the counter has wrapped once around is beyond
  what the code defends against; runs with stale identifiers do not wrap.
* The login's database and Redis calls are a choice between success and failure.
  The packet of a received message is allocated and freed inside one step. The
  traffic counters are left out.
* `sendQ` and `_freeSessionStack` are atomic, which is the promise of the
  lock-free containers: `ImplementsAtomicStack` and `ImplementsTicketQueue`. The
  queue's is for callers that do not enqueue at the same time (see below).
  `LoginServer` sends to a session only from that session's `OnRecv`, and
  `SingleReceiver` says that is one thread; a user of the library that sends from
  its own threads does not have this. `SingleSender` makes one thread at a time
  the dequeuer, for which `Dequeue` succeeds whenever `GetUseSize` was positive;
  `SendPost` relies on that at line 472, where it ignores the result.

Definitions marked "faulty variant" are not part of the specification. Each
stands before the definition it would replace and states a slip that the code
does not make; the entries under "mutants" in `PROJECT.json` use them to show
that a property notices it.

### RecvPath, the ring buffer and the packet

A byte is identified by its position in the client's stream, so a byte that is
lost, repeated or overwritten shows. What a header or a payload byte says is
looked up in the message at that position, as the client's `Encode` left it.
A client sends up to `MaxMessages` messages, at most one of them bad: one with a
wrong code, or one whose last byte was changed, which `Decode` has to notice. (It
does not notice every change: one further ahead alters several decoded bytes,
whose sum may stay the same.) `CRingBuffer` has the arithmetic of both copy pieces
of every method; sizes of 0, which no caller passes, are left out, and so is
`Resize`, which has no caller. `MoveRear` in `RingBufferOps` lets the caller write
anything into the free part first, as a receive does.

`CNetPacket` has 8-bit bytes and the keys of the source. `CHAR` is signed there
and the sums are wider, but everything is cut to 8 bits before it is used, so
arithmetic modulo 256 is the same. `RecvPath` keeps one packet for requests and one
for responses and uses them again at once, the worst case of the pool. `Clear`
resets the positions and `_isEncode` only, so a packet from the pool is one that
is empty (`Empty`), with whatever bytes an earlier message left there.

The fields of the protocol are read byte by byte. `GetData` copies what there is of
a field and leaves the rest of the variable alone. `JobHandler`'s `type` is
uninitialised, so a payload too short for it may be anything that begins with the
bytes that came; `Login` goes on with the remaining bytes of the `_accountNo` of an
earlier request, and `PayloadIntact` says which byte is from where. `AccountSize`
stands for 8. The data bases decide whether a login succeeds; when it does not,
`OnRecv` disconnects the client, and the parse loop goes on until the next WSARecv
fails.

The code does not compare `header.len` with the room of a packet
(`CNetServer.cpp:411`), and `RecvPath` assumes nothing of it. A longer message
overruns the packet, which is undefined: `RecvPath` allows the state "Overrun",
from which nothing is known, and the case in which the memory behind the packet
takes the bytes. Then `Decode`, which goes by `header.len`, accepts the message, and
`OnRecv` can read what `MoveWritePos` has left of it.

### CLockFreeQueue

`_head` and `_tail` carry tags, the exchange that links a node (line 98) has none:
it compares `next` with `_myCode`, which every last node of this queue has had. If
another thread takes the node out of the pool again for an `Enqueue` of its own in
between, the exchange succeeds on a node that is not in the queue. `Enqueue` does
not guard against that. `Usable`, in `Next`, is a rule on its callers that excludes
it; TLC finds a lost node after 38 steps without the rule. Callers that take turns
keep it, because nobody is inside `Enqueue` when one of them calls it (lemma
`OneEnqueuer`), and those of `LoginServer` do. For a user of the library who calls
`SendPacket` for one session from several threads the rule is broken and the results
about the queue do not hold; the repository does not say whether that is allowed.
`Dequeue` has the tag of `_head` and needs nothing.

The queue is not a linearizable queue in the strict sense. `_size` is decremented
first, and while a `Dequeue` of an empty queue is being refused, another one may be
refused although an element has been counted meanwhile. `TicketQueue` says what
holds: elements leave in the order in which they were linked, every counted
element can be reserved once, whoever reserved gets one, and a call is refused only
when nothing is counted or while another is being refused.

`_dummy` is a member of the queue and goes to the pool's `Free` with the first
`Dequeue`. In debug mode, the default, `Free` compares the words around it, which
are `_tail` and `_myCode`, and refuses. In `MEMORYPOOL_MODE_RELEASE` it would be
taken.

The pool is shared by all queues. One queue is modelled: a thread of another queue
uses nodes of its own, and its `_myCode` differs, so it can only be met by a thread
that holds a stale node, which `SingleSender` and `SingleReceiver` exclude in the
server as a whole.

### MemoryPoolTLS

A chunk belongs to one thread, to the shared stack or to the manager of empty
chunks. Inside a chunk no other thread looks, so it is its number of blocks. The
steps are those of the shared stack and of the counters; the manager is a
`MemoryPool` and atomic. `Alloc` dereferences what `ChunkAlloc` returns without
looking: at the limit, or when memory has run out, the thread is at "Crash" and the
others go on. That a chunk from the stack has a block, which `Alloc` takes for
granted too, is `StackedChunksFull`.

### CLockFreeStack and MemoryPool

Both are linked lists that threads change with a compare-and-exchange while other
threads follow pointers they read earlier. One step is one access to `_top`,
`_freeStackTop` or the `_next` of a node, because a thread that stalled may read
the `_next` of a node that has been freed, handed out and is being linked again.
Freed nodes keep their fields, and any of them may come out next; that covers
whatever order the pools below use. Local variables are forgotten on return and
when a loop starts again. In `CLockFreeStack` a failing `Pop` takes effect when it reads
`_top` and finds the dummy node; the other operations with their exchange. In
`MemoryPool` a pointer with its tag is a record, `TagMod` stands for 2^17 tags, and
`Alloc` is not called when the tags could run out. Callers free a block once and
only what they hold, so the refusals of `Free` are there to be shown not to happen
(`MarksExact`).

## 3. What TLC checks

| Run | Bounds | Shows |
|---|---|---|
| `login_server` | 1 slot, 2 workers, 2 packets, counter wraps at 2, so accepts without bound | `TypeOK`; one owner of the send side (`SingleSender`) and of the receive side (`SingleReceiver`); every packet reference accounted for (`PacketRefsExact`); a character for every receiver (`CharacterOfReceiver`); no deadlock |
| `two_sessions` | 2 slots, 3 connections, 2 workers | the accept thread never spins (`PopNeverSpins`); `CNetServer` implements `SessionTable` |
| `library_api` | 1 slot, 2 connections, 2 workers, a contents thread, failing posts, port and accept | `RefCountExact`, `NoUseAfterRelease`, `SingleReleaser`, `StaleIdNeverActs`, and the inductive invariant `ServerInv` |
| `release_liveness` | 1 slot, 1 worker, a contents thread, 1 packet, up to 2 jobs, fair, counter wraps at 2 | `SessionEventuallyReleased`, `DisconnectReleases` |
| `ring_buffer` | 5-byte array, 2 byte values, sizes up to 5 | `IndexOK`, `SizesOK`, implements `ByteQueue` |
| `lock_free_stack` | 2 threads, 3 nodes, 2 values, 3 Pops | no node lost or shared (`NodesAccounted`); the inductive invariant `StackInv`; linearizable (`ImplementsAtomicStack`); loops end (`EveryCallReturns`) |
| `memory_pool` | 2 threads, 1 initial and up to 2 added blocks, 5 tags, failing malloc | one place per block (`BlocksAccounted`); `WithinLimit`; `AddedBlocksListed`; `MarksExact`; loops end (`EveryCallReturns`) |
| `lock_free_queue` | 2 threads, 3 nodes, 2 values, 5 Enqueues | no node lost or shared, `_dummy` never handed out (`NodesAccounted`); `SizeCountsElements`; implements `TicketQueue`; loops end (`EveryCallReturns`) |
| `memory_pool_tls` | 2 threads, 2 blocks per chunk, 2 initial chunks, 1 more allowed, 4 Pops, failing malloc | `ChunksAccounted`, `BlocksConserved`, `StackedChunksFull`, `ChunkCountsExact` |
| `recv_path` | 9-byte array, 2-byte header, 5-byte packets, payload up to 6 bytes in 5 samples, 2-byte account numbers, 2 messages, slot reused | `DeliveredInOrder`, `NeverCrashes`, `DisconnectedForCause`, `PayloadIntact`, `PiecesAreFree`, `RecvHasRoom` |
| `cancel_after_disconnect` | as `login_server` with 1 packet | violated: `DisconnectedIoIsCancelled` |
| `stranded_response` | 1 slot, 3 packets | violated: `NoStrandedPacket` |

Why the bounds are enough: two workers are the least that race on one session,
and most races need one more party, which is the accept thread, the kernel or a
contents thread. One slot is the worst case for reuse; two are needed only to
tell sessions apart. A stale identifier needs one reuse, hence two connections.
Three packets are needed for `stranded_response`: two that make SendPost find the
queue empty, one that is left. `MaxBuf` is 2, so one send may take several
packets, and `MaxJobs` bounds the jobs waiting per slot. In `release_liveness` the
contents thread disconnects while the worker is between the copy of the socket
and WSASend or WSARecv, so sends and receives both slip past the cancel. In
`memory_pool` the only initial block is gone after one Alloc, and enough tags are
left for both threads to be in the code of the limit together.

In `recv_path` the largest message fits exactly into the buffer and is longer than
a packet. The samples are an empty payload, one too short for a type, a login that
is cut inside the account number, a whole one, and one that does not fit; their
bytes are on both sides of the sign bit and their keys make the sums carry. Two
messages are a request and what an earlier one left behind, and as the slot is
reused with the indexes where they were, they wrap around the array.

The recycling that fools a compare-and-exchange needs a
thread that stalls in a Pop and another that pops two nodes and pushes the first
again: two threads, two nodes and three Pops, and the runs have room for one node
more. In the queue three nodes and `_dummy` let a node be dequeued, recycled and
linked again while a thread holds it. In `memory_pool_tls` two chunks circulate and
a third is added, so a chunk can be taken, emptied, given back and stacked again
under a stalled Pop.

`lock_free_stack`, `lock_free_queue`, `memory_pool` and `memory_pool_tls` do not
check deadlock, because the bound on tags ends their behaviours. `EveryCallReturns`
assumes weak fairness of each thread's steps: a thread inside a call goes on. It is
about finitely many calls, as the bound makes them: it shows that a loop looks again
at what others have changed, not that a thread gets through while others succeed
without end, which the code does not promise. `two_sessions` and `library_api` do not
check deadlock: the bound on connections ends the behaviour there, and in
`library_api` a failed accept ends the accept thread. In `recv_path` a process that
was overrun may stop. The other runs go on forever, and TLC finds no deadlock in
them.

Fairness in `release_liveness`: a thread inside a function goes on (weak
fairness of its steps); an entry in the port is taken eventually (strong fairness
per slot and kind: the port is a queue, and workers return to it); the parse loop
ends (the buffer holds finitely many messages). Nothing is assumed of the peer: it
need not connect, send, read or close, and with a send buffer of 0
(`CNetServer.cpp:240`) a send stays in flight as long as it does not read. What the
two properties need of it is a premise inside them:

* `SessionEventuallyReleased` is about a session whose sends do not stay in flight
  forever;
* `DisconnectReleases` is about every peer, with one exception: an operation that
  slipped past `CancelIoEx` (`Slipped`) and stays in flight. That it can slip is the
  first disagreement below;
* both are about contents that stop calling the API for the session (`CallsEnd`).
  Every `EnterSession` raises `ioCount` for a moment, and the exchange of
  `ReleaseSession` fails then; TLC shows that endless calls can keep a release away.

Failing posts are excluded, because the code has no answer to a failed RELEASE post
(`CNetServer.cpp:605`).

### Disagreements found

* `CNetServer.cpp:640` replaces 32 bits of the 64-bit socket. The re-cancelling
  of an operation that slipped past `Disconnect`, described at lines 309, 488,
  530 and 563, compares all 64 bits and never happens. Such an operation ends only
  when the peer acts, and until then it keeps the session of a client that was
  disconnected; `DisconnectReleases` has to except it. The slip also hides a
  second one: the worker loop tests the socket before RELEASE jobs too (line 358)
  and would then drop a reference the job does not own (line 433). With a 64-bit
  exchange alone `RefCountExact` fails, so the two have to be changed together.
* `SendPost` may leave a packet in the queue of a live session with nobody to
  send it (lines 452-460).

## 4. What is proved

Every theorem holds for all values of the constants that satisfy the named
`ASSUME`s of the modules. They say that sets of threads, slots and nodes are
finite, that threads are distinct from each other and null values from the rest,
and that bounds are natural numbers; what goes further is listed below the table.

| Module | Theorem | States |
|---|---|---|
| `SessionProofs` | `TypeCorrect` | `Spec => []TypeOK` |
| | `SessionInvariant` | `Spec => []SessionInv` |
| | `RefCountCorrect` | `Spec => []RefCountExact` |
| | `ReleaseIsSafe`, `ReleasedOnce` | `Spec => []NoUseAfterRelease`, `[]SingleReleaser` |
| | `OneSender`, `OneReceiver` | `Spec => []SingleSender`, `[]SingleReceiver` |
| | `ContentsInvariant`, `ServerInvariant` | `Spec => [](SessionInv /\ ContentsOK)`, `[]ServerInv` |
| | `CharacterExists` | `Spec => []CharacterOfReceiver` |
| | `StaleIdIsRejected` | `Spec => []StaleIdNeverActs`, if the counter does not wrap |
| | `PopFindsASlot` | `Spec => []PopNeverSpins` |
| | `PacketsExact` | `Spec => []PacketRefsExact` |
| | `ImplementsTable` | `Spec => ImplementsSessionTable` |
| `RingBufferProofs` | `IndexesInside`, `SizesCorrect` | `Spec => []IndexOK`, `[]SizesOK` |
| | `RingIsByteQueue` | `Spec => ImplementsByteQueue` |
| `RecvPathProofs` | `DecodeInvertsEncode`, `DecodeDetectsChange` | about the operators, for every payload and key |
| | `RecvInvariant` | `Spec => []RecvInv` |
| | `MessagesInOrder`, `DisconnectsForCause`, `PayloadsIntact` | `Spec => []DeliveredInOrder`, `[]DisconnectedForCause`, `[]PayloadIntact` |
| | `NoCrash`, `PiecesFree`, `RoomToReceive` | `Spec => []NeverCrashes`, `[]PiecesAreFree`, `[]RecvHasRoom` |
| `MemoryPoolProofs` | `PoolInvariant` | `Spec => []PoolInv` |
| | `BlocksSafe`, `LimitKept`, `AddedListed`, `MarksCorrect` | `Spec => []BlocksAccounted`, `[]WithinLimit`, `[]AddedBlocksListed`, `[]MarksExact` |
| `StackProofs` | `StackInvariant`, `StackTypes` | `Spec => []StackInv`, `[]TypeOK` |
| | `NodesSafe` | `Spec => []NodesAccounted` |
| | `StackIsAtomic` | `Spec => ImplementsAtomicStack` |
| `QueueProofs` | `QueueInvariant` | `Spec => []QueueInv` |
| | `QueueNodesSafe`, `SizeExact` | `Spec => []NodesAccounted`, `[]SizeCountsElements` |
| | `QueueIsFifo` | `Spec => ImplementsTicketQueue` |
| `MemoryPoolTLSProofs` | `TLSInvariant` | `Spec => []TLSInv` |
| | `ChunksSafe`, `StackedFull` | `Spec => []ChunksAccounted`, `[]StackedChunksFull` |
| | `CountsCorrect`, `BlocksNeverLost` | `Spec => []ChunkCountsExact`, `[]BlocksConserved` |

Assumptions that a reader should know:

* `StaleIdIsRejected` assumes `MaxAccepts =< SessionCntMax`: fewer than 2^48
  connections. Once the counter has wrapped, an identifier kept that long is
  valid again, which the code does not defend against. No other theorem about
  sessions needs this.
* In `RecvPath` a packet has room for the fields of the response that are modelled
  (`AccountSize + 3 <= PayloadRoom`), and the packets a session finds in the pool
  are empty. Nothing is assumed of the length of messages; what follows an overrun
  of a packet, other than that the memory behind it keeps the bytes, is the state
  "Overrun", of which the properties say nothing. `RecvHasRoom` states inside itself
  that a message fits into the receive buffer.
* In `MemoryPool`, `MemoryPoolTLS` and `CLockFreeQueue` a tag is the upper 17 bits of
  a pointer. `Alloc` of `MemoryPool` is not called when `TagMod` tags could run out,
  and `Alloc` of `MemoryPoolTLS` and `Enqueue` not when a tag could pass `MaxTag`,
  which is below 2^17. These are guards of the model, which the code does not have:
  the results are about behaviours in which no tag comes back. In the code the tags
  wrap, and what has to be excluded is a call that is stalled while a multiple of
  2^17 exchanges succeed on the pointer it has read. The tag of `CLockFreeStack`,
  `_uniqIdx`, has 64 bits and is a natural number in the model. `MaxPops` and
  `MaxTag` appear in no proof.
* The theorems about `CLockFreeQueue` are about callers that keep the rule of
  `Usable` (section 2), which `Next` states and `Enqueue` does not check.

### Sessions, contents and packets

`NoUseAfterRelease` is not inductive: that a count of 0 means nobody is inside
needs the exact count, and the exact count does not say who may still come in.
`SessionInv` adds, as named conjuncts:

* `PlaceOK`, `CallOK`: where each kind of thread can be, and with which arguments;
* `ReachOK`: whatever names a slot - a thread, a RELEASE job, an entry of
  `characterMap` - names one that was accepted before, and while the slot is set
  up again `releaseFlag` is 1 for everybody who comes with an old name;
* `HoldOK`: whoever read `releaseFlag` as 0 after taking a reference, and whatever
  inherited such a reference, is on a slot that is not released;
* `OwnerOK`: a slot is live, being released, free or being set up, one at a time;
* `IdentityOK`: an accepted slot carries its own index and a positive count, and
  the high word of its socket is never all ones, which is what keeps the test in
  the worker loop from skipping a RELEASE job;
* `SenderOK`, `ReceiverOK`: one owner per side.

The count is handled without induction over the threads: the three sets of
reference holders differ in one element before and after a step of one thread
(`OneElement`, `RefStep`), so `CountStep` leaves a comparison of small numbers for
each action. `StayStep` and `ArriveStep` cover the steps that leave the owner of a
slot alone; the seven that change it are proved one by one, and `NobodyInside` is
the fact that makes the compare-and-exchange safe.

`ContentsOK` is inductive together with `SessionInv`:

* `MapOK`: `characterMap` holds the sessions between `OnClientJoin` and
  `OnClientLeave` and no other, from which `CharacterOfReceiver` follows;
* `CountOK`: `_nowSession` counts the slots that are not on the free stack, the
  one about to be taken and those given back and not yet uncounted, so a slot is
  there when the capacity check has passed;
* `IdOK` and `CntOK`: a validated call names the session in its slot, and the
  session being accepted has a greater count than every identifier in use.

Most steps are `Quiet`: they touch neither the tables nor a release, and one lemma
covers them. The refinement of `SessionTable` maps each remaining step.
`PacketOK` adds who holds a packet: a caller inside `SendPacket`, `sendQ`,
`sendPacketArr`; `ArrayOK` says that the array is empty whenever `SendPost` begins to
fill it, which needs `SenderOK`.

### Ring buffer, packet and receive path

`ContainerLemmas` shows, for every array size, that the two pieces of an operation
come to one movement around the end of the array. With that `IndexOK` is
inductive, `SizesOK` follows from it, and each operation is one of the byte queue.

`Encode` and `Decode` are chains in which a byte depends on the one before it, so
they are recursive functions. The library's induction theorems cannot be
instantiated here; `SetInduction` is induction stated with a set instead of a
predicate, proved from well-foundedness, and it suffices. `DecodeDetectsChange`
is about the change `RecvPath` makes: the lowest bit of the last byte.

`RecvInv` says that the bytes behind `iFront` are those of the stream behind the
last delivered message, including the ones that `MoveRear` has not announced yet
(`StreamOK`), that a pending WSARecv has exactly the free part of the array
(`BufferOK`), and that a recycled packet is empty when it is taken and holds as
much of a payload as it has room for when `OnRecv` gets it (`PacketsOK`). What is
read as a header is therefore the header of the next message. The account number
is followed byte by byte: `AccountStep` says which request a byte is from, and
`ShortType` that a request whose type came only in part has no byte of an account.

### Lists under compare-and-exchange

A list that ends is a chain of distinct nodes from its end to its top
(`HasChain`). `ContainerLemmas` shows that a Push prolongs it, a Pop shortens it,
and a write to a node that is not listed leaves it alone; there the walk from the
top, in terms of which the properties are stated, is related to the chain by
induction.

`StackInv` and `PoolInv` have the same core. Whoever stalls between a load and its
exchange may look at a node that others recycle. `PopOK` says what it still knows:
if the tag is the one it loaded, no other Pop has succeeded, so the node is listed,
and the `_next` it has read is the true one because nobody writes that field of a
listed node. `PushOK` says that the node being pushed is linked to the top that was
read, whatever that top has become; Push needs no tag. `OthersOK` proves once what a
step leaves of the other threads' knowledge.

For the stack's refinement the content is the walk's data (`OnTop` relates it
before and after an exchange), and `OthersSame` shows that a step changes the
operation of one thread only. A Pop that returns false has read the dummy node,
because every node that was ever on top has had its `_next` set.

For the pool's limit `LimitOK` counts the threads between the increment of
`_addAllocCnt` and its undoing; `MarksExact` is inductive with the rest.

### The queue

The list of `CLockFreeQueue` grows at its far end, so the chain is walked from
`_head` and an Enqueue is an append (`AppendedChain`). `QueueInv` adds to the
properties:

* `ListOK`: the list ends, and `_tail` is its last node or the one before;
* `EnqOK`: a node that an Enqueue has read as the tail is not being enqueued by
  anybody, and as long as its `next` holds the code it is still the tail. This is
  what stands in for the tag that the exchange of line 98 does not have, and it is
  where `Usable` is needed: only a node from the pool gets the code again;
* `TailOK`: whoever finds `_tail` with the tag it has read moves it to the node
  behind it, whichever of the three exchanges it is;
* `DeqOK`: a Dequeue that finds `_head` with the tag it has read has seen no other,
  so the successor and the element it has read are those of the list, and `_tail`
  has left the node that is freed;
* `TicketsOK`: whoever has decremented `_size` below 0 is about to undo it.

From `SizeCountsElements` and `TicketsOK` follows the lemma `Reserved`: while a
thread has a reservation the list is not empty, so the loop of Dequeue ends with
an element and never gives the reservation up. In the refinement an element enters the
content with the exchange that links its node and leaves with the exchange of
`_head`; a ticket appears when `_size` is incremented and goes when a decrement
succeeds. The other steps of the two loops are stutters (`Unseen`).

### The thread-local pool

`TLSInv` is the core of `PoolInv` for the shared stack, with `FullOK`: a chunk on
its way from the stack to a thread or back is full. Every step changes the size of
its own chunk or of an empty one (`OwnSize`), so it spoils neither the stack nor
another thread's chunk, and the unchecked `Take` of line 228 never meets an empty
chunk. `Moves` reduces `ChunksAccounted` to the three places a step exchanges
chunks between, and `AtStep` counts the threads that are between an exchange and
their count.

`BlocksConserved` is about a sum over the set of chunks, which is a fold of the
community modules. `SumUnfold` shows that the fold has the recursion one expects,
and `SubsetInduction`, stated with a set of subsets instead of a predicate, gives
what is needed of it: a change of one size changes the sum by as much
(`SumStep`), and the initial sum is a product (`SumConstant`).

### Only model-checked

* Liveness (`SessionEventuallyReleased`, `DisconnectReleases`, `EveryCallReturns`):
  outside what the prover handles.
* The two violated properties, which are statements about single executions.

Every invariant, every action property and every refinement that a passing run
checks has a theorem. The inductive invariants were given to TLC before they were
proved. `ServerInv` and `StackInv` are among the properties of their runs;
`RecvInv`, `PoolInv`, `QueueInv` and `TLSInv` are not, and were checked with the
constants of `recv_path`, `memory_pool`, `lock_free_queue` and `memory_pool_tls`.

## 5. What is not modelled, and the plan

Not modelled:

* `Start`, `Stop` and the monitor thread. `Init` of `CNetServer` is the state after
  `Start`. `main` does not restart a server, and there is no state after `Stop` to
  go on from: the clients' operations are still pending when the threads end
  (`CNetServer.cpp:144-148` says that this is to be added), the array of thread
  handles is read after it was deleted (176-181), more than 64 workers are not
  waited for, and `_freeSessionStack`, `_isServerOff` and `characterMap` are not
  reset. What follows is undefined behaviour, not a protocol.
* The rest of `Login`: connections per thread, the query and its result, the Redis
  entry, the other fields of the response. The outcome of the login is a choice in
  `CNetServer`. The state these calls change is in the database client and in Redis.
* The traffic and login counters, which are only displayed.
* `DBConnector` and `CrashDump` (pure I/O), the rest of `CommonProtocol.h`
  (constants of other servers).
* `cpp_redis`, `tacopie` and the MySQL headers: third-party headers, four fifths of
  the lines of the repository, of which the program uses four calls.

A next step would be to replace the manager of empty chunks in `MemoryPoolTLS` and
the pools of nodes in the queue and the stack by `MemoryPool` itself, and to
derive the rule of `Usable` from `SingleReceiver` for the queues of the server; here
they are separate modules, related by the argument of section 2.
