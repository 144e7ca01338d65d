------------------------ MODULE MemoryPoolTLSProofs -------------------------
(***************************************************************************)
(* TLSInv is an inductive invariant of MemoryPoolTLS, for any threads, any *)
(* size of a chunk, any number of chunks and of arrays and any limit.      *)
(*                                                                         *)
(* The shared stack is a chain of full chunks, and the argument for its    *)
(* exchanges is that of MemoryPool: a Pop whose tag is still the one it    *)
(* loaded has seen no other Pop, and nobody writes to a stacked chunk.  A  *)
(* step changes the size of a chunk that the thread owns, or that comes    *)
(* out of the manager, and so of no chunk that others rely on.  The sum of *)
(* the sizes is a fold over the set of chunks; SumStep says what a change  *)
(* of one size does to it, by induction over the subsets.                  *)
(***************************************************************************)
EXTENDS MemoryPoolTLS, ContainerLemmas

-----------------------------------------------------------------------------
(* the element that a sum over s adds first *)
Pick(s) == CHOOSE x \in s : TRUE

(* g is the sum of f over the subsets of S *)
SumAt(g, f, s) == g[s] = IF s = {} THEN 0 ELSE f[Pick(s)] + g[s \ {Pick(s)}]

IsSum(g, f, S) == \A s \in SUBSET S : SumAt(g, f, s)

LEMMA Smaller ==
    ASSUME NEW S, IsFiniteSet(S), NEW s \in SUBSET S
    PROVE  /\ Cardinality(s) \in Nat
           /\ s # {} => /\ Pick(s) \in s /\ s \ {Pick(s)} \in SUBSET S
                        /\ Cardinality(s \ {Pick(s)}) = Cardinality(s) - 1
           /\ s # {} <=> Cardinality(s) # 0
<1>1. IsFiniteSet(s) /\ Cardinality(s) \in Nat
  BY FS_Subset, FS_CardinalityType
<1>2. s # {} <=> Cardinality(s) # 0
  BY <1>1, FS_EmptySet
<1>3. s # {} => Pick(s) \in s
  BY DEF Pick
<1>4. s # {} => Cardinality(s \ {Pick(s)}) = Cardinality(s) - 1
  BY <1>1, <1>3, FS_RemoveElement
<1> QED
  BY <1>1, <1>2, <1>3, <1>4

(* induction over the subsets of a finite set *)
LEMMA SubsetInduction ==
    ASSUME NEW S, IsFiniteSet(S), NEW T, {} \in T,
           \A s \in SUBSET S : s # {} /\ s \ {Pick(s)} \in T => s \in T
    PROVE  SUBSET S \subseteq T
<1> DEFINE U == {n \in Nat : \A s \in SUBSET S : Cardinality(s) = n => s \in T}
<1>1. 0 \in U
  BY Smaller
<1>2. ASSUME NEW n \in Nat, n \in U
      PROVE  n + 1 \in U
  <2>1. ASSUME NEW s \in SUBSET S, Cardinality(s) = n + 1
        PROVE  s \in T
    <3>1. /\ s # {} /\ s \ {Pick(s)} \in SUBSET S
          /\ Cardinality(s \ {Pick(s)}) = Cardinality(s) - 1
      BY <2>1, Smaller
    <3>2. Cardinality(s \ {Pick(s)}) = n
      BY <2>1, <3>1
    <3>3. s \ {Pick(s)} \in T
      BY <1>2, <3>1, <3>2
    <3> QED
      BY <3>1, <3>3
  <2> QED
    BY <2>1
<1> HIDE DEF U
<1>3. Nat \subseteq U
  BY <1>1, <1>2, SetInduction
<1>4. ASSUME NEW s \in SUBSET S PROVE s \in T
  <2>1. Cardinality(s) \in Nat
    BY Smaller
  <2> QED
    BY <1>3, <2>1 DEF U
<1> QED
  BY <1>4

(* there is such a function *)
LEMMA SumExists ==
    ASSUME NEW S, IsFiniteSet(S), NEW f \in [S -> Nat]
    PROVE  \E g \in [SUBSET S -> Nat] : IsSum(g, f, S)
<1> DEFINE Upto(g, n) == \A s \in SUBSET S : Cardinality(s) <= n => SumAt(g, f, s)
           T == {n \in Nat : \E g \in [SUBSET S -> Nat] : Upto(g, n)}
<1>1. 0 \in T
  <2> DEFINE g == [s \in SUBSET S |-> 0]
  <2>1. g \in [SUBSET S -> Nat]
    OBVIOUS
  <2>2. ASSUME NEW s \in SUBSET S, Cardinality(s) <= 0
        PROVE  SumAt(g, f, s)
    <3>1. Cardinality(s) \in Nat /\ (s # {} <=> Cardinality(s) # 0)
      BY Smaller
    <3>2. s = {}
      BY <2>2, <3>1
    <3> QED
      BY <3>2 DEF SumAt
  <2> HIDE DEF g
  <2> QED
    BY <2>1, <2>2
<1>2. ASSUME NEW n \in Nat, n \in T
      PROVE  n + 1 \in T
  <2>1. PICK g \in [SUBSET S -> Nat] : Upto(g, n)
    BY <1>2
  <2> DEFINE h == [s \in SUBSET S |-> IF Cardinality(s) = n + 1
                                      THEN f[Pick(s)] + g[s \ {Pick(s)}] ELSE g[s]]
  <2>2. ASSUME NEW s \in SUBSET S, Cardinality(s) = n + 1
        PROVE  f[Pick(s)] + g[s \ {Pick(s)}] \in Nat
    <3>1. Pick(s) \in S /\ s \ {Pick(s)} \in SUBSET S
      BY <2>2, Smaller
    <3> QED
      BY <3>1
  <2>3. h \in [SUBSET S -> Nat]
    BY <2>2
  <2>4. \A s \in SUBSET S : h[s] = IF Cardinality(s) = n + 1
                                   THEN f[Pick(s)] + g[s \ {Pick(s)}] ELSE g[s]
    OBVIOUS
  <2> HIDE DEF h
  <2>5. ASSUME NEW s \in SUBSET S, Cardinality(s) <= n + 1
        PROVE  SumAt(h, f, s)
    <3>1. /\ Cardinality(s) \in Nat
          /\ s # {} => /\ s \ {Pick(s)} \in SUBSET S
                       /\ Cardinality(s \ {Pick(s)}) = Cardinality(s) - 1
          /\ s # {} <=> Cardinality(s) # 0
      BY Smaller
    <3>2. s # {} => h[s \ {Pick(s)}] = g[s \ {Pick(s)}]
      <4>1. s # {} => Cardinality(s \ {Pick(s)}) # n + 1
        BY <2>5, <3>1
      <4> QED
        BY <2>4, <3>1, <4>1
    <3>3. CASE Cardinality(s) = n + 1
      <4>1. s # {} /\ h[s] = f[Pick(s)] + g[s \ {Pick(s)}]
        BY <2>4, <3>1, <3>3
      <4> QED
        BY <3>2, <4>1 DEF SumAt
    <3>4. CASE Cardinality(s) # n + 1
      <4>1. Cardinality(s) <= n /\ h[s] = g[s]
        BY <2>4, <2>5, <3>1, <3>4
      <4>2. SumAt(g, f, s)
        BY <2>1, <4>1
      <4> QED
        BY <3>2, <4>1, <4>2 DEF SumAt
    <3> QED
      BY <3>3, <3>4
  <2> QED
    BY <2>3, <2>5
<1> HIDE DEF T
<1>3. Nat \subseteq T
  BY <1>1, <1>2, SetInduction
<1>4. Cardinality(S) \in Nat
  BY FS_CardinalityType
<1>5. PICK g \in [SUBSET S -> Nat] : Upto(g, Cardinality(S))
  BY <1>3, <1>4 DEF T
<1>6. ASSUME NEW s \in SUBSET S PROVE SumAt(g, f, s)
  <2>1. Cardinality(s) <= Cardinality(S)
    BY FS_Subset
  <2> QED
    BY <1>5, <2>1
<1> QED
  BY <1>6 DEF IsSum

(* and the sum of FiniteSetsExt is its value *)
LEMMA SumUnfold ==
    ASSUME NEW S, IsFiniteSet(S), NEW f \in [S -> Nat]
    PROVE  \E g : IsSum(g, f, S) /\ SumOf(f, S) = g[S]
<1> DEFINE iter[s \in SUBSET S] ==
              IF s = {} THEN 0
              ELSE LET x == CHOOSE x \in s : TRUE
                   IN  f[x] + iter[s \ {x}]
<1>1. SumOf(f, S) = iter[S]
  BY DEF SumOf, MapThenSumSet, MapThenFoldSet
<1>2. PICK h \in [SUBSET S -> Nat] : IsSum(h, f, S)
  BY SumExists
<1>3. h = [s \in SUBSET S |-> IF s = {} THEN 0
                              ELSE LET x == CHOOSE x \in s : TRUE
                                   IN  f[x] + h[s \ {x}]]
  BY <1>2 DEF IsSum, SumAt, Pick
<1>4. iter = [s \in SUBSET S |-> IF s = {} THEN 0
                                 ELSE LET x == CHOOSE x \in s : TRUE
                                      IN  f[x] + iter[s \ {x}]]
  BY <1>3 DEF iter
<1> HIDE DEF iter
<1>5. IsSum(iter, f, S)
  BY <1>4 DEF IsSum, SumAt, Pick
<1> QED
  BY <1>1, <1>5

LEMMA SumNat ==
    ASSUME NEW S, IsFiniteSet(S), NEW f \in [S -> Nat], NEW g, IsSum(g, f, S)
    PROVE  \A s \in SUBSET S : g[s] \in Nat
<1> DEFINE T == {s \in SUBSET S : g[s] \in Nat}
<1>1. {} \in T
  BY DEF IsSum, SumAt
<1>2. ASSUME NEW s \in SUBSET S, s # {}, s \ {Pick(s)} \in T
      PROVE  s \in T
  <2>1. Pick(s) \in S
    BY <1>2, Smaller
  <2>2. g[s] = f[Pick(s)] + g[s \ {Pick(s)}]
    BY <1>2 DEF IsSum, SumAt
  <2> QED
    BY <1>2, <2>1, <2>2
<1> HIDE DEF T
<1>3. SUBSET S \subseteq T
  BY <1>1, <1>2, SubsetInduction
<1> QED
  BY <1>3 DEF T

(* one element of f changes *)
LEMMA SumStep ==
    ASSUME NEW S, IsFiniteSet(S), NEW f \in [S -> Nat], NEW f2 \in [S -> Nat],
           NEW c \in S, \A x \in S : x # c => f2[x] = f[x]
    PROVE  SumOf(f2, S) = SumOf(f, S) + f2[c] - f[c]
<1>1. PICK g : IsSum(g, f, S) /\ SumOf(f, S) = g[S]
  BY SumUnfold
<1>2. PICK h : IsSum(h, f2, S) /\ SumOf(f2, S) = h[S]
  BY SumUnfold
<1>3. \A s \in SUBSET S : g[s] \in Nat /\ h[s] \in Nat
  BY <1>1, <1>2, SumNat
<1> DEFINE T == {s \in SUBSET S : h[s] = g[s] + IF c \in s THEN f2[c] - f[c] ELSE 0}
<1>4. {} \in T
  <2>1. g[{}] = 0 /\ h[{}] = 0
    BY <1>1, <1>2 DEF IsSum, SumAt
  <2> QED
    BY <2>1
<1>5. ASSUME NEW s \in SUBSET S, s # {}, s \ {Pick(s)} \in T
      PROVE  s \in T
  <2> DEFINE x == Pick(s)
             r == s \ {x}
  <2>1. x \in s /\ x \in S /\ r \in SUBSET S
    BY <1>5, Smaller
  <2>2. g[s] = f[x] + g[r] /\ h[s] = f2[x] + h[r]
    BY <1>1, <1>2, <1>5 DEF IsSum, SumAt
  <2>3. h[r] = g[r] + IF c \in r THEN f2[c] - f[c] ELSE 0
    BY <1>5
  <2>4. g[r] \in Nat /\ h[r] \in Nat /\ f[x] \in Nat /\ f2[x] \in Nat
        /\ f[c] \in Nat /\ f2[c] \in Nat
    BY <1>3, <2>1
  <2>5. x = c => c \in s /\ c \notin r
    BY <2>1
  <2>6. x # c => (c \in s <=> c \in r) /\ f2[x] = f[x]
    BY <2>1
  <2> HIDE DEF x, r
  <2>7. CASE x = c
    BY <2>2, <2>3, <2>4, <2>5, <2>7
  <2>8. CASE x # c
    BY <2>2, <2>3, <2>4, <2>6, <2>8
  <2> QED
    BY <2>7, <2>8
<1> HIDE DEF T
<1>6. SUBSET S \subseteq T
  BY <1>4, <1>5, SubsetInduction
<1>7. S \in SUBSET S
  OBVIOUS
<1>8. h[S] = g[S] + (f2[c] - f[c]) /\ g[S] \in Nat
  BY <1>3, <1>6, <1>7 DEF T
<1> QED
  BY <1>1, <1>2, <1>8

(* f is the same number on a part of S and 0 elsewhere *)
LEMMA SumConstant ==
    ASSUME NEW S, IsFiniteSet(S), NEW A \in SUBSET S, NEW k \in Nat
    PROVE  SumOf([x \in S |-> IF x \in A THEN k ELSE 0], S) = k * Cardinality(A)
<1> DEFINE f == [x \in S |-> IF x \in A THEN k ELSE 0]
<1>1. f \in [S -> Nat] /\ \A x \in S : f[x] = IF x \in A THEN k ELSE 0
  OBVIOUS
<1> HIDE DEF f
<1>2. PICK g : IsSum(g, f, S) /\ SumOf(f, S) = g[S]
  BY <1>1, SumUnfold
<1>3. \A s \in SUBSET S : g[s] \in Nat
  BY <1>1, <1>2, SumNat
<1> DEFINE N(s) == Cardinality(s \cap A)
           T == {s \in SUBSET S : g[s] = k * N(s)}
<1>4. {} \in T
  <2>1. {} \cap A = {} /\ Cardinality({}) = 0
    BY FS_EmptySet
  <2>2. g[{}] = 0
    BY <1>2 DEF IsSum, SumAt
  <2> QED
    BY <2>1, <2>2
<1>5. ASSUME NEW s \in SUBSET S, s # {}, s \ {Pick(s)} \in T
      PROVE  s \in T
  <2> DEFINE x == Pick(s)
             r == s \ {x}
  <2>1. x \in s /\ x \in S /\ r \in SUBSET S
    BY <1>5, Smaller
  <2>2. g[s] = f[x] + g[r]
    BY <1>2, <1>5 DEF IsSum, SumAt
  <2>3. g[r] = k * N(r)
    BY <1>5
  <2>4. IsFiniteSet(s \cap A) /\ N(s) \in Nat /\ r \cap A = (s \cap A) \ {x}
    BY FS_Subset, FS_CardinalityType
  <2>5. N(r) = IF x \in A THEN N(s) - 1 ELSE N(s)
    <3> HIDE DEF x, r
    <3>1. Cardinality((s \cap A) \ {x}) =
             IF x \in s \cap A THEN Cardinality(s \cap A) - 1 ELSE Cardinality(s \cap A)
      BY <2>4, FS_RemoveElement
    <3> QED
      BY <2>1, <2>4, <3>1
  <2> HIDE DEF x, r, N
  <2>6. CASE x \in A
    <3>1. f[x] = k /\ N(r) = N(s) - 1
      BY <1>1, <2>1, <2>5, <2>6
    <3>2. k * N(s) = k + k * (N(s) - 1)
      BY <2>4
    <3> QED
      BY <2>2, <2>3, <3>1, <3>2
  <2>7. CASE x \notin A
    <3>1. f[x] = 0 /\ N(r) = N(s)
      BY <1>1, <2>1, <2>5, <2>7
    <3>2. g[r] \in Nat
      BY <1>3, <2>1
    <3>3. g[s] = g[r]
      BY <2>2, <3>1, <3>2
    <3> QED
      BY <2>3, <3>1, <3>3
  <2> QED
    BY <2>6, <2>7
<1> HIDE DEF T, N
<1>6. SUBSET S \subseteq T
  BY <1>4, <1>5, SubsetInduction
<1>7. g[S] = k * N(S) /\ S \cap A = A
  BY <1>6 DEF T
<1> QED
  BY <1>2, <1>7 DEF f, N

-----------------------------------------------------------------------------
Locals == [chunk : Pointers, top : Tops, other : Pointers]

LEMMA ChunkSets == IsFiniteSet(Chunks) /\ Null \notin Chunks
<1>1. 1 \in Int /\ MaxChunks \in Int
  BY TLSAssumption
<1> QED
  BY <1>1, FS_Interval DEF Chunks, Null

LEMMA NoLocalsType == NoLocals \in Locals
  BY DEF NoLocals, Locals, Pointers, Tops, Null

(* what a thread owns, by the place where it is *)
LEMMA OwnIs ==
    ASSUME NEW t
    PROVE  /\ pc[t] \in {"idle"} \cup Pushing => OwnChunk(t) = {tls[t]} \ {Null}
           /\ pc[t] \in Giving => OwnChunk(t) = {loc[t].chunk} \ {Null}
           /\ pc[t] \notin {"idle"} \cup Pushing \cup Giving => OwnChunk(t) = {}
  BY DEF OwnChunk, Pushing, Giving

LEMMA OwnIsNext ==
    ASSUME NEW t
    PROVE  /\ pc'[t] \in {"idle"} \cup Pushing => OwnChunk(t)' = {tls'[t]} \ {Null}
           /\ pc'[t] \in Giving => OwnChunk(t)' = {loc'[t].chunk} \ {Null}
           /\ pc'[t] \notin {"idle"} \cup Pushing \cup Giving => OwnChunk(t)' = {}
  BY DEF OwnChunk, Pushing, Giving

-----------------------------------------------------------------------------
(* A step of thread t: the others stay where they are, a _next changes only  *)
(* in the chunk that t owns, and a size only there or in an empty chunk.     *)
OnlyThread(t) ==
    \A u \in Threads \ {t} : pc'[u] = pc[u] /\ loc'[u] = loc[u] /\ tls'[u] = tls[u]

OwnNext(t) == \A x \in Chunks : chunkNext'[x] # chunkNext[x] => x \in OwnChunk(t)

OwnSize(t) == \A x \in Chunks : size'[x] # size[x] => x \in OwnChunk(t) \cup emptyChunks

LEMMA GotoOnly ==
    ASSUME TypeOK, NEW t \in Threads, NEW here, NEW there, Goto(t, here, there)
    PROVE  /\ pc[t] = here /\ pc'[t] = there
           /\ \A u \in Threads \ {t} : pc'[u] = pc[u]
           /\ there \in Pcs => pc' \in [Threads -> Pcs]
  BY DEF TypeOK, Goto

LEMMA LocOnly ==
    ASSUME TypeOK, NEW t \in Threads, NEW l, loc' = [loc EXCEPT ![t] = l]
    PROVE  /\ loc'[t] = l
           /\ \A u \in Threads \ {t} : loc'[u] = loc[u]
           /\ l \in Locals => loc' \in [Threads -> Locals]
  BY DEF TypeOK, Locals

LEMMA ForgetOnly ==
    ASSUME TypeOK, NEW t \in Threads, Forget(t)
    PROVE  /\ \A u \in Threads \ {t} : loc'[u] = loc[u]
           /\ loc' \in [Threads -> Locals]
  BY LocOnly, NoLocalsType DEF Forget

(* a thread gets a chunk and forgets the rest *)
LEMMA GetOnly ==
    ASSUME TypeOK, NEW t \in Threads, NEW c \in Chunks,
           loc' = [loc EXCEPT ![t] = [NoLocals EXCEPT !.chunk = c]]
    PROVE  /\ loc'[t].chunk = c
           /\ \A u \in Threads \ {t} : loc'[u] = loc[u]
           /\ loc' \in [Threads -> Locals]
<1> DEFINE l == [NoLocals EXCEPT !.chunk = c]
<1>1. l \in Locals /\ l.chunk = c
  BY NoLocalsType DEF Locals, Pointers
<1>2. loc' = [loc EXCEPT ![t] = l]
  OBVIOUS
<1> HIDE DEF l
<1> QED
  BY <1>1, <1>2, LocOnly

LEMMA TlsOnly ==
    ASSUME TypeOK, NEW t \in Threads, NEW c \in Pointers, tls' = [tls EXCEPT ![t] = c]
    PROVE  /\ tls'[t] = c
           /\ \A u \in Threads \ {t} : tls'[u] = tls[u]
           /\ tls' \in [Threads -> Pointers]
  BY DEF TypeOK

(* a local variable is assigned *)
LEMMA ChunkField ==
    ASSUME TypeOK, NEW t \in Threads, NEW x, loc' = [loc EXCEPT ![t].chunk = x]
    PROVE  /\ loc'[t].chunk = x
           /\ \A u \in Threads \ {t} : loc'[u] = loc[u]
           /\ x \in Pointers => loc' \in [Threads -> Locals]
<1>1. loc[t] \in Locals
  BY DEF TypeOK, Locals
<1> QED
  BY <1>1 DEF TypeOK, Locals

LEMMA TopField ==
    ASSUME TypeOK, NEW t \in Threads, NEW x, loc' = [loc EXCEPT ![t].top = x]
    PROVE  /\ loc'[t].top = x /\ loc'[t].chunk = loc[t].chunk
           /\ \A u \in Threads \ {t} : loc'[u] = loc[u]
           /\ x \in Tops => loc' \in [Threads -> Locals]
<1>1. loc[t] \in Locals
  BY DEF TypeOK, Locals
<1> QED
  BY <1>1 DEF TypeOK, Locals

LEMMA OtherField ==
    ASSUME TypeOK, NEW t \in Threads, NEW x, loc' = [loc EXCEPT ![t].other = x]
    PROVE  /\ loc'[t].other = x /\ loc'[t].top = loc[t].top
           /\ \A u \in Threads \ {t} : loc'[u] = loc[u]
           /\ x \in Pointers => loc' \in [Threads -> Locals]
<1>1. loc[t] \in Locals
  BY DEF TypeOK, Locals
<1> QED
  BY <1>1 DEF TypeOK, Locals

-----------------------------------------------------------------------------
(* the number of threads in a set of places *)
LEMMA AtStep ==
    ASSUME NEW t \in Threads, \A u \in Threads \ {t} : pc'[u] = pc[u], NEW W
    PROVE  /\ At(W) \in Nat /\ At(W)' \in Nat
           /\ At(W)' = At(W) + (IF pc'[t] \in W THEN 1 ELSE 0)
                             - (IF pc[t] \in W THEN 1 ELSE 0)
<1> DEFINE A == {u \in Threads : pc[u] \in W}
           B == {u \in Threads : pc'[u] \in W}
<1>1. IsFiniteSet(A) /\ Cardinality(A) \in Nat /\ IsFiniteSet(B) /\ Cardinality(B) \in Nat
  BY FS_Subset, FS_CardinalityType, TLSAssumption
<1>2. B = IF pc'[t] \in W THEN A \cup {t} ELSE A \ {t}
  OBVIOUS
<1>3. t \in A <=> pc[t] \in W
  OBVIOUS
<1>4. At(W) = Cardinality(A) /\ At(W)' = Cardinality(B)
  BY DEF At
<1> HIDE DEF A, B
<1>5. Cardinality(A \cup {t}) = IF t \in A THEN Cardinality(A) ELSE Cardinality(A) + 1
  BY <1>1, FS_AddElement
<1>6. Cardinality(A \ {t}) = IF t \in A THEN Cardinality(A) - 1 ELSE Cardinality(A)
  BY <1>1, FS_RemoveElement
<1>7. CASE pc'[t] \in W
  BY <1>1, <1>2, <1>3, <1>4, <1>5, <1>7
<1>8. CASE pc'[t] \notin W
  BY <1>1, <1>2, <1>3, <1>4, <1>6, <1>8
<1> QED
  BY <1>7, <1>8

(* the number of threads of a place that t neither enters nor leaves *)
LEMMA AtFrame ==
    ASSUME NEW t \in Threads, \A u \in Threads \ {t} : pc'[u] = pc[u], NEW W,
           pc'[t] \in W <=> pc[t] \in W
    PROVE  At(W)' = At(W)
<1>1. {u \in Threads : pc'[u] \in W} = {u \in Threads : pc[u] \in W}
  OBVIOUS
<1> QED
  BY <1>1 DEF At

(* the stack, counted *)
LEMMA StackCounted ==
    ASSUME ListOK
    PROVE  /\ Depth = Cardinality(Stacked) /\ IsFiniteSet(Stacked) /\ Depth \in Nat
           /\ freeStackTop.ptr \in Chunks => freeStackTop.ptr \in Stacked
<1>1. /\ Length(List, Chunks) = Cardinality(Listed(List, Chunks))
      /\ freeStackTop.ptr \in Chunks => freeStackTop.ptr \in Listed(List, Chunks)
  BY ListCounted, ChunkSets DEF ListOK, List
<1>2. IsFiniteSet(Stacked)
  <2>1. Stacked \subseteq Chunks
    BY DEF Stacked, Listed
  <2> QED
    BY <2>1, ChunkSets, FS_Subset
<1>3. Cardinality(Stacked) \in Nat
  BY <1>2, FS_CardinalityType
<1> QED
  BY <1>1, <1>2, <1>3 DEF Depth, Stacked

LEMMA StackCountedNext ==
    ASSUME ListOK'
    PROVE  Depth' = Cardinality(Stacked') /\ IsFiniteSet(Stacked') /\ Depth' \in Nat
<1> DEFINE w == Walk(freeStackTop'.ptr, chunkNext', Chunks, Null)
<1>1. Length(w, Chunks) = Cardinality(Listed(w, Chunks))
  BY ListCounted, ChunkSets DEF ListOK
<1>2. Depth' = Length(w, Chunks) /\ Stacked' = Listed(w, Chunks)
  BY DEF Depth, Stacked, List
<1>3. Listed(w, Chunks) \subseteq Chunks
  BY DEF Listed
<1> HIDE DEF w
<1>4. IsFiniteSet(Listed(w, Chunks))
  BY <1>3, ChunkSets, FS_Subset
<1>5. Cardinality(Listed(w, Chunks)) \in Nat
  BY <1>4, FS_CardinalityType
<1> QED
  BY <1>1, <1>2, <1>4, <1>5

LEMMA ChunksSumNat == ASSUME NEW f \in [Chunks -> Nat] PROVE SumOf(f, Chunks) \in Nat
<1>1. PICK g : IsSum(g, f, Chunks) /\ SumOf(f, Chunks) = g[Chunks]
  BY ChunkSets, SumUnfold
<1> QED
  BY <1>1, ChunkSets, SumNat

LEMMA SumIsNat == ASSUME TypeOK PROVE SumOf(size, Chunks) \in Nat
  BY ChunksSumNat, TLSAssumption DEF TypeOK

LEMMA ChunksSum ==
    ASSUME NEW f \in [Chunks -> Nat], NEW f2 \in [Chunks -> Nat], NEW c \in Chunks,
           \A x \in Chunks : x # c => f2[x] = f[x]
    PROVE  SumOf(f2, Chunks) = SumOf(f, Chunks) + f2[c] - f[c]
<1>1. IsFiniteSet(Chunks)
  BY ChunkSets
<1> QED
  BY <1>1, SumStep, Zenon

(* the blocks in the chunks, when the size of one chunk changes *)
LEMMA SizeStep ==
    ASSUME TypeOK, NEW c \in Chunks, NEW v \in 0 .. ChunkSize,
           size' = [size EXCEPT ![c] = v]
    PROVE  /\ SumOf(size, Chunks) \in Nat
           /\ SumOf(size, Chunks)' = SumOf(size, Chunks) + v - size[c]
           /\ size' \in [Chunks -> 0 .. ChunkSize]
           /\ size'[c] = v /\ \A x \in Chunks : x # c => size'[x] = size[x]
<1>1. size \in [Chunks -> 0 .. ChunkSize] /\ size' \in [Chunks -> 0 .. ChunkSize]
  BY DEF TypeOK
<1>2. size \in [Chunks -> Nat] /\ size' \in [Chunks -> Nat] /\ v \in Nat
  BY <1>1, TLSAssumption
<1>3. /\ SumOf(size, Chunks) \in Nat
      /\ SumOf(size', Chunks) = SumOf(size, Chunks) + v - size[c]
  <2>1. size'[c] = v /\ \A x \in Chunks : x # c => size'[x] = size[x]
    BY <1>1
  <2>2. SumOf(size', Chunks) = SumOf(size, Chunks) + size'[c] - size[c]
    BY <1>2, <2>1, ChunksSum
  <2> QED
    BY <2>1, <2>2, SumIsNat
<1> QED
  BY <1>1, <1>3

-----------------------------------------------------------------------------
(* t moves chunks between the stack, the manager and itself *)
Moves(t) ==
    /\ Stacked' \cup emptyChunks' \cup OwnChunk(t)' =
          Stacked \cup emptyChunks \cup OwnChunk(t)
    /\ Stacked' \cap emptyChunks' = {}
    /\ OwnChunk(t)' \cap (Stacked' \cup emptyChunks') = {}

LEMMA OthersOwn ==
    ASSUME NEW t \in Threads, OnlyThread(t), NEW u \in Threads \ {t}
    PROVE  OwnChunk(u)' = OwnChunk(u)
  BY DEF OnlyThread, OwnChunk

LEMMA AccountStep ==
    ASSUME ChunksAccounted, NEW t \in Threads, OnlyThread(t), Moves(t), ListOK'
    PROVE  ChunksAccounted'
<1> DEFINE Mine == Stacked \cup emptyChunks \cup OwnChunk(t)
           Others == UNION {OwnChunk(u) : u \in Threads \ {t}}
<1>1. Depth' = Cardinality(Stacked')
  BY StackCountedNext
<1>2. \A u \in Threads \ {t} : OwnChunk(u)' = OwnChunk(u)
  BY OthersOwn
<1>3. /\ Stacked \cup emptyChunks \cup UNION {OwnChunk(u) : u \in Threads} = Chunks
      /\ \A u \in Threads :
           /\ OwnChunk(u) \cap (Stacked \cup emptyChunks) = {}
           /\ \A v \in Threads \ {u} : OwnChunk(u) \cap OwnChunk(v) = {}
  BY DEF ChunksAccounted
<1>4. UNION {OwnChunk(u) : u \in Threads} = OwnChunk(t) \cup Others
  OBVIOUS
<1>5. Mine \cup Others = Chunks
  BY <1>3, <1>4
<1>6. \A u \in Threads \ {t} : OwnChunk(u) \cap Mine = {}
  BY <1>3
<1>7. Stacked' \cup emptyChunks' \cup OwnChunk(t)' = Mine
  BY DEF Moves
<1>8. UNION {OwnChunk(u)' : u \in Threads} = OwnChunk(t)' \cup Others
  BY <1>2
<1>9. Stacked' \cup emptyChunks' \cup UNION {OwnChunk(u)' : u \in Threads} = Chunks
  <2> HIDE DEF Mine, Others
  <2> QED
    BY <1>5, <1>7, <1>8
<1>10. \A u \in Threads \ {t} :
          /\ OwnChunk(u)' \cap (Stacked' \cup emptyChunks') = {}
          /\ OwnChunk(u)' \cap OwnChunk(t)' = {}
  <2> HIDE DEF Mine
  <2> QED
    BY <1>2, <1>6, <1>7
<1>11. \A u \in Threads : \A v \in Threads \ {u} : OwnChunk(u)' \cap OwnChunk(v)' = {}
  BY <1>2, <1>3, <1>10
<1>12. \A u \in Threads : OwnChunk(u)' \cap (Stacked' \cup emptyChunks') = {}
  BY <1>10 DEF Moves
<1> QED
  BY <1>1, <1>9, <1>11, <1>12 DEF ChunksAccounted, Moves

(* the other threads still have what they rely on *)
LEMMA OthersOK ==
    ASSUME TLSInv, NEW t \in Threads, OnlyThread(t), OwnNext(t), OwnSize(t),
           freeStackTop'.tag \in Nat, freeStackTop.tag <= freeStackTop'.tag,
           freeStackTop'.tag = freeStackTop.tag => Stacked \subseteq Stacked',
           NEW u \in Threads \ {t}
    PROVE  PopOK(u)' /\ PushOK(u)' /\ FullOK(u)'
<1>1. pc'[u] = pc[u] /\ loc'[u] = loc[u] /\ tls'[u] = tls[u]
  BY DEF OnlyThread
<1>2. PopOK(u) /\ PushOK(u) /\ FullOK(u)
  BY DEF TLSInv
<1>3. /\ OwnChunk(t) \cap Stacked = {} /\ OwnChunk(t) \cap OwnChunk(u) = {}
      /\ OwnChunk(u) \cap emptyChunks = {}
  BY DEF TLSInv, ChunksAccounted
<1>4. freeStackTop.tag \in Nat /\ loc[u].top.tag \in Nat
  BY DEF TLSInv, TypeOK, Tops
<1>5. ASSUME pc[u] \in Giving \cup Pushing
      PROVE  loc[u].chunk \in Chunks /\ loc[u].chunk \in OwnChunk(u)
  <2>1. loc[u].chunk \in Chunks /\ (pc[u] \in Pushing => loc[u].chunk = tls[u])
    BY <1>2, <1>5 DEF FullOK
  <2>2. loc[u].chunk # Null
    BY <2>1, ChunkSets
  <2> QED
    BY <1>5, <2>1, <2>2, OwnIs
<1>6. PopOK(u)'
  <2> SUFFICES ASSUME pc[u] \in {"PopNext", "PopCas"}
               PROVE  /\ loc[u].top.ptr \in Chunks
                      /\ loc[u].top.tag =< freeStackTop'.tag
                      /\ loc[u].top.tag = freeStackTop'.tag =>
                            /\ loc[u].top.ptr \in Stacked'
                            /\ pc[u] = "PopCas" => chunkNext'[loc[u].top.ptr] = loc[u].other
    BY <1>1 DEF PopOK
  <2>1. loc[u].top.ptr \in Chunks /\ loc[u].top.tag =< freeStackTop.tag
    BY <1>2 DEF PopOK
  <2>2. loc[u].top.tag =< freeStackTop'.tag
    BY <1>4, <2>1
  <2>3. ASSUME loc[u].top.tag = freeStackTop'.tag
        PROVE  /\ loc[u].top.ptr \in Stacked'
               /\ pc[u] = "PopCas" => chunkNext'[loc[u].top.ptr] = loc[u].other
    <3>1. freeStackTop'.tag = freeStackTop.tag /\ loc[u].top.tag = freeStackTop.tag
      BY <1>4, <2>1, <2>3
    <3>2. /\ loc[u].top.ptr \in Stacked
          /\ pc[u] = "PopCas" => chunkNext[loc[u].top.ptr] = loc[u].other
      BY <1>2, <3>1 DEF PopOK
    <3>3. chunkNext'[loc[u].top.ptr] = chunkNext[loc[u].top.ptr]
      BY <1>3, <2>1, <3>2 DEF OwnNext
    <3> QED
      BY <3>1, <3>2, <3>3
  <2> QED
    BY <2>1, <2>2, <2>3
<1>7. PushOK(u)'
  <2> SUFFICES ASSUME pc[u] = "PushCas"
               PROVE  chunkNext'[loc[u].chunk] = loc[u].top.ptr
    BY <1>1 DEF PushOK
  <2>1. chunkNext'[loc[u].chunk] = chunkNext[loc[u].chunk]
    BY <1>3, <1>5 DEF OwnNext, Pushing
  <2> QED
    BY <1>2, <2>1 DEF PushOK
<1>8. FullOK(u)'
  <2>1. ASSUME pc[u] \in Giving \cup Pushing
        PROVE  size'[loc[u].chunk] = size[loc[u].chunk]
    BY <1>3, <1>5, <2>1 DEF OwnSize
  <2> QED
    BY <1>1, <1>2, <2>1 DEF FullOK
<1> QED
  BY <1>6, <1>7, <1>8

(* what is left to show of a step *)
LEMMA StepInv ==
    ASSUME TLSInv, NEW t \in Threads, OnlyThread(t), OwnNext(t), OwnSize(t),
           freeStackTop.tag <= freeStackTop'.tag,
           freeStackTop'.tag = freeStackTop.tag => Stacked \subseteq Stacked',
           PopOK(t)', PushOK(t)', FullOK(t)', Moves(t),
           TypeOK', ListOK', StackedChunksFull', ChunkCountsExact', BlocksConserved'
    PROVE  TLSInv'
<1>1. ChunksAccounted'
  BY AccountStep DEF TLSInv
<1>2. freeStackTop'.tag \in Nat
  BY DEF TypeOK, Tops
<1>3. \A u \in Threads : PopOK(u)' /\ PushOK(u)' /\ FullOK(u)'
  BY <1>2, OthersOK
<1> QED
  BY <1>1, <1>3 DEF TLSInv

-----------------------------------------------------------------------------
(* what a step leaves alone *)

LEMMA StackFrame ==
    ASSUME TLSInv, NEW t \in Threads, freeStackTop' = freeStackTop, OwnNext(t)
    PROVE  ListOK' /\ Stacked' = Stacked /\ Depth' = Depth
<1> DEFINE b == freeStackTop.ptr
<1>1. HasChain(b, chunkNext, Chunks, Null)
  BY DEF TLSInv, ListOK
<1>2. \A x \in Listed(Walk(b, chunkNext, Chunks, Null), Chunks) : chunkNext'[x] = chunkNext[x]
  <2>1. Stacked = Listed(Walk(b, chunkNext, Chunks, Null), Chunks)
    BY DEF Stacked, List
  <2>2. Stacked \subseteq Chunks /\ OwnChunk(t) \cap Stacked = {}
    BY DEF TLSInv, ChunksAccounted
  <2> QED
    BY <2>1, <2>2 DEF OwnNext
<1> HIDE DEF b
<1>3. /\ HasChain(b, chunkNext', Chunks, Null)
      /\ Walk(b, chunkNext', Chunks, Null) = Walk(b, chunkNext, Chunks, Null)
  BY <1>1, <1>2, ChunkSets, SameList
<1> QED
  BY <1>3 DEF b, ListOK, Stacked, Depth, List

LEMMA MovesNot ==
    ASSUME TLSInv, NEW t \in Threads, emptyChunks' = emptyChunks, Stacked' = Stacked,
           OwnChunk(t)' = OwnChunk(t)
    PROVE  Moves(t)
  BY DEF TLSInv, ChunksAccounted, Moves

LEMMA CountsFrame ==
    ASSUME TLSInv, NEW t \in Threads, OnlyThread(t), Depth' = Depth,
           UNCHANGED <<totalChunk, useChunk>>,
           pc[t] \notin {"CountUse", "CountFree"}, pc'[t] \notin {"CountUse", "CountFree"}
    PROVE  ChunkCountsExact'
<1>1. At({"CountUse"})' = At({"CountUse"}) /\ At({"CountFree"})' = At({"CountFree"})
  BY AtFrame DEF OnlyThread
<1> QED
  BY <1>1 DEF TLSInv, ChunkCountsExact

(* 1 for a thread that has a block of its caller inside Free *)
Carried(t) == IF pc[t] \in Pushing \cup Pushed THEN 1 ELSE 0

LEMMA Balance ==
    ASSUME NEW s0 \in Nat, NEW s1 \in Nat, NEW h0 \in Nat, NEW h1 \in Nat,
           NEW k0 \in Nat, NEW k1 \in Nat, NEW n0 \in Nat, NEW n1 \in Nat, NEW a \in Int,
           NEW r, s1 + h1 + k1 = s0 + h0 + k0, n1 = n0 + k1 - k0, s0 + h0 + a + n0 = r
    PROVE  s1 + h1 + a + n1 = r
  OBVIOUS

LEMMA ConserveStep ==
    ASSUME TLSInv, NEW t \in Threads, OnlyThread(t), heap' = heap,
           pc[t] \notin Adding, pc'[t] \notin Adding,
           held' \in Nat, SumOf(size, Chunks)' \in Nat,
           SumOf(size, Chunks)' + held' + Carried(t)' =
              SumOf(size, Chunks) + held + Carried(t)
    PROVE  BlocksConserved'
<1> DEFINE W == Pushing \cup Pushed
           a == ChunkSize * At(Adding)
           r == ChunkSize * (InitChunkCnt + HeapArrays - heap)
<1>1. At(Adding)' = At(Adding)
  BY AtFrame DEF OnlyThread
<1>2. /\ At(W) \in Nat /\ At(W)' \in Nat
      /\ At(W)' = At(W) + (IF pc'[t] \in W THEN 1 ELSE 0) - (IF pc[t] \in W THEN 1 ELSE 0)
  BY AtStep DEF OnlyThread
<1>3. At(W)' = At(W) + Carried(t)' - Carried(t) /\ Carried(t) \in Nat /\ Carried(t)' \in Nat
  <2> HIDE DEF W
  <2>1. /\ Carried(t) = (IF pc[t] \in W THEN 1 ELSE 0)
        /\ Carried(t)' = (IF pc'[t] \in W THEN 1 ELSE 0)
    BY DEF Carried, W
  <2> QED
    BY <1>2, <2>1
<1>4. SumOf(size, Chunks) + held + a + At(W) = r
  BY DEF TLSInv, BlocksConserved
<1>5. SumOf(size, Chunks) \in Nat /\ held \in Nat
  BY SumIsNat DEF TLSInv, TypeOK
<1>6. a \in Int
  <2>1. At(Adding) \in Nat /\ ChunkSize \in Nat
    BY AtStep, TLSAssumption DEF OnlyThread
  <2> QED
    BY <2>1
<1>7. SumOf(size, Chunks)' + held' + a + At(W)' = r
  <2> HIDE DEF a, r, W
  <2> QED
    BY ONLY <1>2, <1>3, <1>4, <1>5, <1>6, Balance,
            held' \in Nat, SumOf(size, Chunks)' \in Nat,
            SumOf(size, Chunks)' + held' + Carried(t)' =
               SumOf(size, Chunks) + held + Carried(t)
<1> QED
  BY <1>1, <1>7 DEF BlocksConserved

LEMMA ConserveFrame ==
    ASSUME TLSInv, NEW t \in Threads, OnlyThread(t), UNCHANGED <<heap, size, held>>,
           pc[t] \notin Adding, pc'[t] \notin Adding,
           pc'[t] \in Pushing \cup Pushed <=> pc[t] \in Pushing \cup Pushed
    PROVE  BlocksConserved'
<1>1. At(Adding)' = At(Adding) /\ At(Pushing \cup Pushed)' = At(Pushing \cup Pushed)
  BY AtFrame DEF OnlyThread
<1> QED
  BY <1>1 DEF TLSInv, BlocksConserved

(* no chunk moves and none changes its size *)
LEMMA StayStep ==
    ASSUME TLSInv, NEW t \in Threads, OnlyThread(t), OwnNext(t), TypeOK',
           UNCHANGED <<freeStackTop, size, emptyChunks>>, OwnChunk(t)' = OwnChunk(t),
           ChunkCountsExact', BlocksConserved', PopOK(t)', PushOK(t)', FullOK(t)'
    PROVE  TLSInv'
<1>1. ListOK' /\ Stacked' = Stacked
  BY StackFrame
<1>2. Moves(t)
  BY <1>1, MovesNot
<1>3. StackedChunksFull'
  BY <1>1 DEF TLSInv, StackedChunksFull
<1>4. OwnSize(t)
  BY DEF OwnSize
<1>5. freeStackTop.tag <= freeStackTop'.tag
  BY DEF TLSInv, TypeOK, Tops
<1> QED
  BY <1>1, <1>2, <1>3, <1>4, <1>5, StepInv

(* and nothing is counted *)
LEMMA QuietStep ==
    ASSUME TLSInv, NEW t \in Threads, OnlyThread(t), OwnNext(t), TypeOK',
           UNCHANGED <<freeStackTop, size, emptyChunks, heap, held, totalChunk, useChunk>>,
           OwnChunk(t)' = OwnChunk(t),
           pc[t] \notin Adding \cup {"CountUse", "CountFree"},
           pc'[t] \notin Adding \cup {"CountUse", "CountFree"},
           pc'[t] \in Pushing \cup Pushed <=> pc[t] \in Pushing \cup Pushed,
           PopOK(t)', PushOK(t)', FullOK(t)'
    PROVE  TLSInv'
<1>1. Depth' = Depth
  BY StackFrame
<1>2. ChunkCountsExact'
  BY <1>1, CountsFrame
<1>3. BlocksConserved'
  BY ConserveFrame
<1> QED
  BY <1>2, <1>3, StayStep

(* t ends with chunk c, whose size has changed *)
LEMMA BlockStep ==
    ASSUME TLSInv, NEW t \in Threads, OnlyThread(t), TypeOK',
           pc[t] \in {"idle", "Take", "Replace"}, pc'[t] = "idle",
           NEW c \in Chunks, c \in OwnChunk(t) \cup emptyChunks, OwnChunk(t) \subseteq {c},
           tls'[t] = c, emptyChunks' = emptyChunks \ {c},
           NEW v \in 0 .. ChunkSize, size' = [size EXCEPT ![c] = v],
           held' + v = held + size[c] + (IF pc[t] = "Replace" THEN 1 ELSE 0),
           UNCHANGED <<stackVars, addVars, cntVars>>
    PROVE  TLSInv'
<1>1. TypeOK
  BY DEF TLSInv
<1>2. UNCHANGED <<freeStackTop, chunkNext, addAllocCnt, heap, totalChunk, useChunk>>
  BY DEF stackVars, addVars, cntVars
<1>3. OwnNext(t)
  BY <1>2 DEF OwnNext
<1>4. ListOK' /\ Stacked' = Stacked /\ Depth' = Depth
  BY <1>2, <1>3, StackFrame
<1>5. OwnChunk(t)' = {c}
  <2>1. c # Null
    BY ChunkSets
  <2> QED
    BY <2>1, OwnIsNext
<1>6. /\ SumOf(size, Chunks) \in Nat
      /\ SumOf(size, Chunks)' = SumOf(size, Chunks) + v - size[c]
      /\ size'[c] = v /\ \A x \in Chunks : x # c => size'[x] = size[x]
  BY <1>1, SizeStep
<1>7. OwnSize(t)
  BY <1>6 DEF OwnSize
<1>8. /\ Stacked \cap emptyChunks = {}
      /\ OwnChunk(t) \cap (Stacked \cup emptyChunks) = {}
  BY DEF TLSInv, ChunksAccounted
<1>9. Moves(t)
  BY <1>4, <1>5, <1>8 DEF Moves
<1>10. c \notin Stacked /\ Stacked \subseteq Chunks /\ emptyChunks \subseteq Chunks
  <2>1. Stacked \subseteq Chunks /\ emptyChunks \subseteq Chunks
    BY <1>1 DEF Stacked, Listed, TypeOK
  <2> QED
    BY <1>8, <2>1
<1>11. StackedChunksFull'
  <2>1. \A x \in Stacked' : size'[x] = ChunkSize
    BY <1>4, <1>6, <1>10 DEF TLSInv, StackedChunksFull
  <2>2. \A x \in emptyChunks' : size'[x] = 0
    BY <1>6, <1>10 DEF TLSInv, StackedChunksFull
  <2> QED
    BY <2>1, <2>2 DEF StackedChunksFull
<1>12. ChunkCountsExact'
  BY <1>2, <1>4, CountsFrame
<1>13. BlocksConserved'
  <2>1. Carried(t) = (IF pc[t] = "Replace" THEN 1 ELSE 0) /\ Carried(t)' = 0
    BY DEF Carried, Pushing, Pushed
  <2>2. held \in Nat /\ held' \in Nat /\ v \in Nat /\ size[c] \in Nat
    BY <1>1, TLSAssumption DEF TypeOK
  <2>3. /\ SumOf(size, Chunks)' \in Nat
        /\ SumOf(size, Chunks)' + held' + Carried(t)' = SumOf(size, Chunks) + held + Carried(t)
    <3> DEFINE s0 == SumOf(size, Chunks)
               s1 == SumOf(size, Chunks)'
               k0 == Carried(t)
               k1 == Carried(t)'
    <3>1. /\ s0 \in Nat /\ s1 = s0 + v - size[c] /\ k1 = 0 /\ k0 \in Nat
          /\ held' + v = held + size[c] + k0
      BY <1>6, <2>1
    <3>2. s1 \in Nat
      <4>1. SumOf(size, Chunks)' \in Nat
        <5>1. size' \in [Chunks -> Nat]
          BY TLSAssumption DEF TypeOK
        <5> QED
          BY <5>1, ChunksSumNat
      <4> QED
        BY <4>1
    <3> HIDE DEF s0, s1, k0, k1
    <3>3. s1 + held' + k1 = s0 + held + k0
      BY ONLY <2>2, <3>1, <3>2
    <3> QED
      BY <3>2, <3>3 DEF s0, s1, k0, k1
  <2> QED
    BY <1>2, <2>2, <2>3, ConserveStep DEF Adding
<1>14. PopOK(t)' /\ PushOK(t)' /\ FullOK(t)'
  BY DEF PopOK, PushOK, FullOK, Giving, Pushing
<1>15. freeStackTop.tag <= freeStackTop'.tag
  BY <1>1, <1>2 DEF TypeOK, Tops
<1> QED
  BY <1>3, <1>4, <1>7, <1>9, <1>11, <1>12, <1>13, <1>14, <1>15, StepInv

-----------------------------------------------------------------------------
(* Alloc *)

LEMMA AllocLocalInv ==
    ASSUME TLSInv, NEW t \in Threads, AllocLocal(t)
    PROVE  TLSInv'
<1> DEFINE c == tls[t]
<1>1. TypeOK
  BY DEF TLSInv
<1>2. /\ pc[t] = "idle" /\ c # Null /\ size[c] # 0
      /\ size' = [size EXCEPT ![c] = @ - 1] /\ held' = held + 1
      /\ UNCHANGED <<stackVars, emptyChunks, tls, addVars, cntVars, pc, loc>>
  BY DEF AllocLocal, NeedsChunk, Give
<1>3. c \in Chunks /\ OwnChunk(t) = {c}
  BY <1>1, <1>2, OwnIs DEF TypeOK, Pointers
<1>4. c \notin emptyChunks
  BY <1>3 DEF TLSInv, ChunksAccounted
<1>5. size[c] \in 0 .. ChunkSize /\ size[c] - 1 \in 0 .. ChunkSize
  <2>1. size[c] \in 0 .. ChunkSize
    BY <1>1, <1>3 DEF TypeOK
  <2>2. ChunkSize \in Nat /\ size[c] # 0
    BY <1>2, TLSAssumption
  <2> QED
    BY ONLY <2>1, <2>2
<1>6. size' = [size EXCEPT ![c] = size[c] - 1]
  BY <1>2
<1>7. TypeOK'
  <2>1. size' \in [Chunks -> 0 .. ChunkSize]
    BY <1>1, <1>3, <1>5, <1>6, SizeStep
  <2>2. held' \in Nat
    BY <1>1, <1>2 DEF TypeOK
  <2> QED
    BY <1>1, <1>2, <2>1, <2>2 DEF TypeOK, stackVars, addVars, cntVars
<1>8. OnlyThread(t)
  BY <1>2 DEF OnlyThread
<1>9. /\ pc'[t] = "idle" /\ tls'[t] = c /\ emptyChunks' = emptyChunks \ {c}
      /\ OwnChunk(t) \subseteq {c}
  BY <1>2, <1>3, <1>4
<1>10. held' + (size[c] - 1) = held + size[c] + (IF pc[t] = "Replace" THEN 1 ELSE 0)
  <2>1. held \in Nat /\ size[c] \in Nat
    BY <1>1, <1>5, TLSAssumption DEF TypeOK
  <2> QED
    BY <1>2, <2>1
<1>11. UNCHANGED <<stackVars, addVars, cntVars>>
  BY <1>2
<1> HIDE DEF c
<1> QED
  BY <1>2, <1>3, <1>5, <1>6, <1>7, <1>8, <1>9, <1>10, <1>11, BlockStep

LEMMA AllocChunkInv ==
    ASSUME TLSInv, NEW t \in Threads, AllocChunk(t)
    PROVE  TLSInv'
<1> DEFINE E == {tls[t]} \ {Null}
<1>1. TypeOK
  BY DEF TLSInv
<1>2. /\ Goto(t, "idle", "PopLoad") /\ (tls[t] # Null => size[tls[t]] = 0)
      /\ emptyChunks' = emptyChunks \cup E
      /\ UNCHANGED <<stackVars, size, tls, addVars, cntVars, held, loc>>
  BY DEF AllocChunk, NeedsChunk
<1>3. /\ pc[t] = "idle" /\ pc'[t] = "PopLoad"
      /\ \A u \in Threads \ {t} : pc'[u] = pc[u]
      /\ pc' \in [Threads -> Pcs]
  BY <1>1, <1>2, GotoOnly DEF Pcs, Seeking
<1>4. E \subseteq Chunks /\ \A x \in E : size[x] = 0
  BY <1>1, <1>2 DEF TypeOK, Pointers
<1>5. OwnChunk(t) = E /\ OwnChunk(t)' = {}
  BY <1>3, OwnIs, OwnIsNext DEF Pushing, Giving
<1> HIDE DEF E
<1>6. UNCHANGED <<freeStackTop, chunkNext, size, tls, heap, totalChunk,
                  useChunk, held, loc>>
  BY <1>2 DEF stackVars, addVars, cntVars
<1>7. TypeOK'
  BY <1>1, <1>2, <1>3, <1>4 DEF TypeOK, stackVars, addVars, cntVars
<1>8. OnlyThread(t) /\ OwnNext(t) /\ OwnSize(t)
  BY <1>3, <1>6 DEF OnlyThread, OwnNext, OwnSize
<1>9. ListOK' /\ Stacked' = Stacked /\ Depth' = Depth
  BY <1>6, <1>8, StackFrame
<1>10. Moves(t)
  BY <1>2, <1>5, <1>9 DEF TLSInv, ChunksAccounted, Moves
<1>11. StackedChunksFull'
  BY <1>2, <1>4, <1>6, <1>9 DEF TLSInv, StackedChunksFull
<1>12. ChunkCountsExact'
  BY <1>3, <1>6, <1>8, <1>9, CountsFrame
<1>13. BlocksConserved'
  BY <1>3, <1>6, <1>8, ConserveFrame DEF Adding, Pushing, Pushed
<1>14. PopOK(t)' /\ PushOK(t)' /\ FullOK(t)'
  BY <1>3 DEF PopOK, PushOK, FullOK, Giving, Pushing
<1>15. freeStackTop.tag <= freeStackTop'.tag
  BY <1>1, <1>6 DEF TypeOK, Tops
<1> QED
  BY <1>7, <1>8, <1>9, <1>10, <1>11, <1>12, <1>13, <1>14, <1>15, StepInv

LEMMA PopLoadInv ==
    ASSUME TLSInv, NEW t \in Threads, PopLoad(t)
    PROVE  TLSInv'
<1> DEFINE there == IF freeStackTop.ptr = Null THEN "AddCount" ELSE "PopNext"
<1>1. TypeOK /\ ListOK
  BY DEF TLSInv
<1>2. /\ Goto(t, "PopLoad", there)
      /\ loc' = [loc EXCEPT ![t].top = freeStackTop]
      /\ UNCHANGED <<stackVars, chunkVars, addVars, cntVars, held>>
  BY DEF PopLoad
<1>3. there \in {"AddCount", "PopNext"} /\ (there = "PopNext" => freeStackTop.ptr # Null)
  OBVIOUS
<1> HIDE DEF there
<1>4. /\ pc[t] = "PopLoad" /\ pc'[t] = there
      /\ \A u \in Threads \ {t} : pc'[u] = pc[u]
      /\ pc' \in [Threads -> Pcs]
  BY <1>1, <1>2, <1>3, GotoOnly DEF Pcs, Seeking
<1>5. /\ loc'[t].top = freeStackTop
      /\ \A u \in Threads \ {t} : loc'[u] = loc[u]
      /\ loc' \in [Threads -> Locals]
  BY <1>1, <1>2, TopField DEF TypeOK
<1>6. TypeOK'
  BY <1>1, <1>2, <1>4, <1>5 DEF TypeOK, Locals, stackVars, chunkVars, addVars, cntVars
<1>7. UNCHANGED <<freeStackTop, chunkNext, size, emptyChunks, tls, heap,
                  totalChunk, useChunk, held>>
  BY <1>2 DEF stackVars, chunkVars, addVars, cntVars
<1>8. OnlyThread(t) /\ OwnNext(t)
  BY <1>4, <1>5, <1>7 DEF OnlyThread, OwnNext
<1>9. OwnChunk(t)' = OwnChunk(t)
  BY <1>3, <1>4, OwnIs, OwnIsNext DEF Pushing, Giving
<1>10. PopOK(t)'
  <2>1. CASE there = "PopNext"
    <3>1. freeStackTop.ptr \in Chunks /\ freeStackTop.tag \in Nat
      BY <1>1, <1>3, <2>1 DEF TypeOK, Tops, Pointers
    <3>2. freeStackTop.ptr \in Stacked
      BY <1>1, <3>1, StackCounted
    <3>3. Stacked' = Stacked
      BY <1>7 DEF Stacked, List
    <3> QED
      BY <1>4, <1>5, <1>7, <2>1, <3>1, <3>2, <3>3 DEF PopOK
  <2>2. CASE there = "AddCount"
    BY <1>4, <2>2 DEF PopOK
  <2> QED
    BY <1>3, <2>1, <2>2
<1>11. PushOK(t)' /\ FullOK(t)'
  BY <1>3, <1>4 DEF PushOK, FullOK, Giving, Pushing
<1> QED
  BY <1>3, <1>4, <1>6, <1>7, <1>8, <1>9, <1>10, <1>11, QuietStep DEF Adding, Pushing, Pushed

LEMMA PopNextInv ==
    ASSUME TLSInv, NEW t \in Threads, PopNext(t)
    PROVE  TLSInv'
<1>1. TypeOK
  BY DEF TLSInv
<1>2. /\ Goto(t, "PopNext", "PopCas")
      /\ loc' = [loc EXCEPT ![t].other = chunkNext[loc[t].top.ptr]]
      /\ UNCHANGED <<stackVars, chunkVars, addVars, cntVars, held>>
  BY DEF PopNext
<1>3. /\ pc[t] = "PopNext" /\ pc'[t] = "PopCas"
      /\ \A u \in Threads \ {t} : pc'[u] = pc[u]
      /\ pc' \in [Threads -> Pcs]
  BY <1>1, <1>2, GotoOnly DEF Pcs, Seeking
<1>4. /\ loc[t].top.ptr \in Chunks
      /\ loc[t].top.tag =< freeStackTop.tag
      /\ loc[t].top.tag = freeStackTop.tag => loc[t].top.ptr \in Stacked
  BY <1>3 DEF TLSInv, PopOK
<1>5. /\ loc'[t].top = loc[t].top /\ loc'[t].other = chunkNext[loc[t].top.ptr]
      /\ \A u \in Threads \ {t} : loc'[u] = loc[u]
      /\ loc' \in [Threads -> Locals]
  <2>1. chunkNext[loc[t].top.ptr] \in Pointers
    BY <1>1, <1>4 DEF TypeOK
  <2> QED
    BY <1>1, <1>2, <2>1, OtherField
<1>6. TypeOK'
  BY <1>1, <1>2, <1>3, <1>5 DEF TypeOK, Locals, stackVars, chunkVars, addVars, cntVars
<1>7. UNCHANGED <<freeStackTop, chunkNext, size, emptyChunks, tls, heap,
                  totalChunk, useChunk, held>>
  BY <1>2 DEF stackVars, chunkVars, addVars, cntVars
<1>8. OnlyThread(t) /\ OwnNext(t)
  BY <1>3, <1>5, <1>7 DEF OnlyThread, OwnNext
<1>9. OwnChunk(t)' = OwnChunk(t)
  BY <1>3, OwnIs, OwnIsNext DEF Pushing, Giving
<1>10. PopOK(t)'
  <2>1. Stacked' = Stacked
    BY <1>7 DEF Stacked, List
  <2> QED
    BY <1>4, <1>5, <1>7, <2>1 DEF PopOK
<1>11. PushOK(t)' /\ FullOK(t)'
  BY <1>3 DEF PushOK, FullOK, Giving, Pushing
<1> QED
  BY <1>3, <1>6, <1>7, <1>8, <1>9, <1>10, <1>11, QuietStep DEF Adding, Pushing, Pushed

(* the exchange of Pop: the tag tells that the chunk read is still the top   *)
(* and its _next what it was                                                 *)
LEMMA PopCasInv ==
    ASSUME TLSInv, NEW t \in Threads, PopCas(t)
    PROVE  TLSInv'
<1>1. TypeOK
  BY DEF TLSInv
<1>2. /\ pc[t] = "PopCas"
      /\ UNCHANGED <<chunkNext, size, emptyChunks, tls, addVars,
                     totalChunk, useChunk, held>>
  BY DEF PopCas, Goto, chunkVars, cntVars
<1>3. CASE freeStackTop # loc[t].top
  <2>1. Goto(t, "PopCas", "PopLoad") /\ Forget(t) /\ freeStackTop' = freeStackTop
    BY <1>3 DEF PopCas
  <2>2. /\ pc'[t] = "PopLoad"
        /\ \A u \in Threads \ {t} : pc'[u] = pc[u]
        /\ pc' \in [Threads -> Pcs]
    BY <1>1, <2>1, GotoOnly DEF Pcs, Seeking
  <2>3. (\A u \in Threads \ {t} : loc'[u] = loc[u]) /\ loc' \in [Threads -> Locals]
    BY <1>1, <2>1, ForgetOnly
  <2>4. TypeOK'
    BY <1>1, <1>2, <2>1, <2>2, <2>3 DEF TypeOK, Locals, addVars
  <2>5. OnlyThread(t) /\ OwnNext(t)
    BY <1>2, <2>2, <2>3 DEF OnlyThread, OwnNext
  <2>6. OwnChunk(t)' = OwnChunk(t)
    BY <1>2, <2>2, OwnIs, OwnIsNext DEF Pushing, Giving
  <2>7. PopOK(t)' /\ PushOK(t)' /\ FullOK(t)'
    BY <2>2 DEF PopOK, PushOK, FullOK, Giving, Pushing
  <2> QED
    BY <1>2, <2>1, <2>2, <2>4, <2>5, <2>6, <2>7, QuietStep
       DEF Adding, Pushing, Pushed, addVars
<1>4. CASE freeStackTop = loc[t].top
  <2> DEFINE b == freeStackTop.ptr
  <2>1. /\ Goto(t, "PopCas", "CountUse")
        /\ freeStackTop' = [ptr |-> loc[t].other, tag |-> loc[t].top.tag + 1]
        /\ loc' = [loc EXCEPT ![t] = [NoLocals EXCEPT !.chunk = b]]
    BY <1>4 DEF PopCas, PopTag
  <2>2. b \in Chunks /\ b \in Stacked /\ chunkNext[b] = loc[t].other
    BY <1>2, <1>4 DEF TLSInv, PopOK
  <2>3. /\ pc'[t] = "CountUse"
        /\ \A u \in Threads \ {t} : pc'[u] = pc[u]
        /\ pc' \in [Threads -> Pcs]
    BY <1>1, <2>1, GotoOnly DEF Pcs, Giving
  <2>4. /\ loc'[t].chunk = b
        /\ \A u \in Threads \ {t} : loc'[u] = loc[u]
        /\ loc' \in [Threads -> Locals]
    <3> HIDE DEF b
    <3> QED
      BY <1>1, <2>1, <2>2, GetOnly
  <2>5. /\ freeStackTop.tag \in Nat /\ freeStackTop' \in Tops
        /\ freeStackTop'.tag = freeStackTop.tag + 1
    <3>1. freeStackTop.tag \in Nat /\ loc[t].other \in Pointers
      BY <1>1 DEF TypeOK, Tops
    <3> QED
      BY <1>4, <2>1, <3>1 DEF Tops
  <2>6. TypeOK'
    BY <1>1, <1>2, <2>3, <2>4, <2>5 DEF TypeOK, Locals, addVars
  <2>7. OnlyThread(t) /\ OwnNext(t) /\ OwnSize(t)
    BY <1>2, <2>3, <2>4 DEF OnlyThread, OwnNext, OwnSize
  <2>8. ListOK' /\ Stacked' = Stacked \ {b}
    <3>1. HasChain(b, chunkNext, Chunks, Null)
      BY DEF TLSInv, ListOK
    <3>2. freeStackTop'.ptr = chunkNext[b] /\ chunkNext' = chunkNext
      BY <1>2, <2>1, <2>2
    <3>3. Stacked = Listed(Walk(b, chunkNext, Chunks, Null), Chunks)
      BY DEF Stacked, List
    <3> HIDE DEF b
    <3>4. /\ HasChain(chunkNext[b], chunkNext, Chunks, Null)
          /\ Listed(Walk(chunkNext[b], chunkNext, Chunks, Null), Chunks) =
                Listed(Walk(b, chunkNext, Chunks, Null), Chunks) \ {b}
      BY <2>2, <3>1, ChunkSets, PoppedList
    <3> QED
      BY <3>2, <3>3, <3>4 DEF ListOK, Stacked, List
  <2>9. OwnChunk(t) = {} /\ OwnChunk(t)' = {b}
    <3>1. b # Null
      BY <2>2, ChunkSets
    <3> QED
      BY <1>2, <2>3, <2>4, <3>1, OwnIs, OwnIsNext DEF Pushing, Giving
  <2>10. size[b] = ChunkSize /\ b \notin emptyChunks
    BY <2>2 DEF TLSInv, StackedChunksFull, ChunksAccounted
  <2> HIDE DEF b
  <2>11. Moves(t)
    BY <1>2, <2>2, <2>8, <2>9, <2>10 DEF TLSInv, ChunksAccounted, Moves
  <2>12. StackedChunksFull'
    BY <1>2, <2>8 DEF TLSInv, StackedChunksFull
  <2>13. ChunkCountsExact'
    <3>1. At({"CountFree"})' = At({"CountFree"})
      BY <1>2, <2>3, AtFrame
    <3>2. /\ At({"CountUse"}) \in Nat
          /\ At({"CountUse"})' = At({"CountUse"})
                + (IF pc'[t] \in {"CountUse"} THEN 1 ELSE 0)
                - (IF pc[t] \in {"CountUse"} THEN 1 ELSE 0)
      BY <2>3, AtStep
    <3>3. At({"CountUse"})' = At({"CountUse"}) + 1
      BY <1>2, <2>3, <3>2
    <3>4. Depth = Cardinality(Stacked) /\ IsFiniteSet(Stacked) /\ Depth \in Nat
      BY StackCounted DEF TLSInv
    <3>5. Depth' = Cardinality(Stacked')
      BY <2>8, StackCountedNext
    <3>6. Depth' = Depth - 1
      BY <2>2, <2>8, <3>4, <3>5, FS_RemoveElement
    <3>7. At({"CountFree"}) \in Nat
      BY <2>3, AtStep
    <3>8. totalChunk - useChunk = Depth + At({"CountUse"}) - At({"CountFree"})
      BY DEF TLSInv, ChunkCountsExact
    <3>9. totalChunk' - useChunk' = Depth' + At({"CountUse"})' - At({"CountFree"})'
      BY <1>2, <3>1, <3>2, <3>3, <3>4, <3>6, <3>7, <3>8
    <3> QED
      BY <3>9 DEF ChunkCountsExact
  <2>14. BlocksConserved'
    BY <1>2, <2>3, <2>7, ConserveFrame DEF Adding, Pushing, Pushed, addVars
  <2>15. PopOK(t)' /\ PushOK(t)' /\ FullOK(t)'
    BY <1>2, <2>2, <2>3, <2>4, <2>10 DEF PopOK, PushOK, FullOK, Giving, Pushing
  <2>16. /\ freeStackTop.tag <= freeStackTop'.tag
         /\ freeStackTop'.tag # freeStackTop.tag
    BY <2>5
  <2> QED
    BY <2>6, <2>7, <2>8, <2>11, <2>12, <2>13, <2>14, <2>15, <2>16, StepInv
<1> QED
  BY <1>3, <1>4

-----------------------------------------------------------------------------
(* Alloc: the stack was empty *)

LEMMA AddCountInv ==
    ASSUME TLSInv, NEW t \in Threads, AddCount(t)
    PROVE  TLSInv'
<1> DEFINE myNum == addAllocCnt + 1
           there == CASE myNum = AddAllocMax -> "Crash"
                      [] myNum > AddAllocMax -> "AddUndo"
                      [] OTHER               -> "Malloc"
<1>1. TypeOK
  BY DEF TLSInv
<1>2. /\ Goto(t, "AddCount", there) /\ addAllocCnt' = myNum
      /\ UNCHANGED <<stackVars, chunkVars, heap, cntVars, held, loc>>
  BY DEF AddCount
<1>3. there \in {"Crash", "AddUndo", "Malloc"}
  <2>1. addAllocCnt \in Int /\ AddAllocMax \in Nat
    BY <1>1, TLSAssumption DEF TypeOK
  <2> QED
    BY <2>1
<1> HIDE DEF there
<1>4. /\ pc[t] = "AddCount" /\ pc'[t] = there
      /\ \A u \in Threads \ {t} : pc'[u] = pc[u]
      /\ pc' \in [Threads -> Pcs]
  BY <1>1, <1>2, <1>3, GotoOnly DEF Pcs, Seeking
<1>5. TypeOK'
  <2>1. addAllocCnt' \in Int
    BY <1>1, <1>2 DEF TypeOK
  <2> QED
    BY <1>1, <1>2, <1>4, <2>1 DEF TypeOK, stackVars, chunkVars, cntVars
<1>6. UNCHANGED <<freeStackTop, chunkNext, size, emptyChunks, tls, heap, totalChunk,
                  useChunk, held, loc>>
  BY <1>2 DEF stackVars, chunkVars, cntVars
<1>7. OnlyThread(t) /\ OwnNext(t)
  BY <1>4, <1>6 DEF OnlyThread, OwnNext
<1>8. OwnChunk(t)' = OwnChunk(t)
  BY <1>3, <1>4, OwnIs, OwnIsNext DEF Pushing, Giving
<1>9. PopOK(t)' /\ PushOK(t)' /\ FullOK(t)'
  BY <1>3, <1>4 DEF PopOK, PushOK, FullOK, Giving, Pushing
<1> QED
  BY <1>3, <1>4, <1>5, <1>6, <1>7, <1>8, <1>9, QuietStep DEF Adding, Pushing, Pushed

LEMMA AddUndoInv ==
    ASSUME TLSInv, NEW t \in Threads, AddUndo(t)
    PROVE  TLSInv'
<1>1. TypeOK
  BY DEF TLSInv
<1>2. /\ Goto(t, "AddUndo", "Crash") /\ addAllocCnt' = addAllocCnt - 1
      /\ UNCHANGED <<stackVars, chunkVars, heap, cntVars, held, loc>>
  BY DEF AddUndo
<1>3. /\ pc[t] = "AddUndo" /\ pc'[t] = "Crash"
      /\ \A u \in Threads \ {t} : pc'[u] = pc[u]
      /\ pc' \in [Threads -> Pcs]
  BY <1>1, <1>2, GotoOnly DEF Pcs
<1>4. TypeOK'
  <2>1. addAllocCnt' \in Int
    BY <1>1, <1>2 DEF TypeOK
  <2> QED
    BY <1>1, <1>2, <1>3, <2>1 DEF TypeOK, stackVars, chunkVars, cntVars
<1>5. UNCHANGED <<freeStackTop, chunkNext, size, emptyChunks, tls, heap, totalChunk,
                  useChunk, held, loc>>
  BY <1>2 DEF stackVars, chunkVars, cntVars
<1>6. OnlyThread(t) /\ OwnNext(t)
  BY <1>3, <1>5 DEF OnlyThread, OwnNext
<1>7. OwnChunk(t)' = OwnChunk(t)
  BY <1>3, OwnIs, OwnIsNext DEF Pushing, Giving
<1>8. PopOK(t)' /\ PushOK(t)' /\ FullOK(t)'
  BY <1>3 DEF PopOK, PushOK, FullOK, Giving, Pushing
<1> QED
  BY <1>3, <1>4, <1>5, <1>6, <1>7, <1>8, QuietStep DEF Adding, Pushing, Pushed

LEMMA Distribute ==
    ASSUME NEW k \in Nat, NEW m \in Int, NEW n \in Int, n = m + 1
    PROVE  k * n = k * m + k /\ k * m \in Int /\ k * n \in Int
<1>1. k * (m + 1) = k * m + k /\ k * m \in Int
  OBVIOUS
<1> QED
  BY <1>1

LEMMA MallocInv ==
    ASSUME TLSInv, NEW t \in Threads, Malloc(t)
    PROVE  TLSInv'
<1>1. TypeOK
  BY DEF TLSInv
<1>2. /\ pc[t] = "Malloc"
      /\ UNCHANGED <<freeStackTop, chunkNext, size, emptyChunks, tls, addAllocCnt,
                     totalChunk, useChunk, held, loc>>
  BY DEF Malloc, Goto, stackVars, chunkVars, cntVars
<1>3. CASE Goto(t, "Malloc", "Crash") /\ heap' = heap
  <2>1. /\ pc'[t] = "Crash"
        /\ \A u \in Threads \ {t} : pc'[u] = pc[u]
        /\ pc' \in [Threads -> Pcs]
    BY <1>1, <1>3, GotoOnly DEF Pcs
  <2>2. TypeOK'
    BY <1>1, <1>2, <1>3, <2>1 DEF TypeOK
  <2>3. OnlyThread(t) /\ OwnNext(t)
    BY <1>2, <2>1 DEF OnlyThread, OwnNext
  <2>4. OwnChunk(t)' = OwnChunk(t)
    BY <1>2, <2>1, OwnIs, OwnIsNext DEF Pushing, Giving
  <2>5. PopOK(t)' /\ PushOK(t)' /\ FullOK(t)'
    BY <2>1 DEF PopOK, PushOK, FullOK, Giving, Pushing
  <2> QED
    BY <1>2, <1>3, <2>1, <2>2, <2>3, <2>4, <2>5, QuietStep DEF Adding, Pushing, Pushed
<1>4. CASE Goto(t, "Malloc", "Fill") /\ heap > 0 /\ heap' = heap - 1
  <2>1. /\ pc'[t] = "Fill"
        /\ \A u \in Threads \ {t} : pc'[u] = pc[u]
        /\ pc' \in [Threads -> Pcs]
    BY <1>1, <1>4, GotoOnly DEF Pcs, Adding
  <2>2. heap \in Int /\ heap' \in 0 .. HeapArrays
    <3>1. heap \in 0 .. HeapArrays /\ HeapArrays \in Nat
      BY <1>1, TLSAssumption DEF TypeOK
    <3> QED
      BY <1>4, <3>1
  <2>3. TypeOK'
    BY <1>1, <1>2, <2>1, <2>2 DEF TypeOK
  <2>4. OnlyThread(t) /\ OwnNext(t)
    BY <1>2, <2>1 DEF OnlyThread, OwnNext
  <2>5. OwnChunk(t)' = OwnChunk(t)
    BY <1>2, <2>1, OwnIs, OwnIsNext DEF Pushing, Giving
  <2>6. PopOK(t)' /\ PushOK(t)' /\ FullOK(t)'
    BY <2>1 DEF PopOK, PushOK, FullOK, Giving, Pushing
  <2>7. ChunkCountsExact'
    <3>1. Depth' = Depth
      BY <1>2, <2>4, StackFrame
    <3> QED
      BY <1>2, <2>1, <2>4, <3>1, CountsFrame
  <2>8. BlocksConserved'
    <3> DEFINE s == SumOf(size, Chunks)
               W == Pushing \cup Pushed
               r0 == InitChunkCnt + HeapArrays - heap
               r1 == InitChunkCnt + HeapArrays - heap'
    <3>1. At(W)' = At(W)
      BY <1>2, <2>1, AtFrame DEF Pushing, Pushed
    <3>2. At(Adding) \in Nat /\ At(Adding)' = At(Adding) + 1
      <4>1. /\ At(Adding) \in Nat
            /\ At(Adding)' = At(Adding) + (IF pc'[t] \in Adding THEN 1 ELSE 0)
                                        - (IF pc[t] \in Adding THEN 1 ELSE 0)
        BY <2>1, AtStep
      <4>2. pc'[t] \in Adding /\ pc[t] \notin Adding
        BY <1>2, <2>1 DEF Adding
      <4> QED
        BY <4>1, <4>2
    <3>3. r0 \in Int /\ r1 \in Int /\ r1 = r0 + 1
      BY <1>4, <2>2, TLSAssumption
    <3>4. s + held + ChunkSize * At(Adding) + At(W) = ChunkSize * r0
      BY DEF TLSInv, BlocksConserved
    <3>5. s \in Nat /\ held \in Nat /\ At(W) \in Nat /\ ChunkSize \in Nat
      BY <1>1, <2>1, SumIsNat, AtStep, TLSAssumption DEF TypeOK
    <3> DEFINE a0 == ChunkSize * At(Adding)
               a1 == ChunkSize * At(Adding)'
               q0 == ChunkSize * r0
               q1 == ChunkSize * r1
    <3> HIDE DEF s, W, r0, r1
    <3>6. a1 = a0 + ChunkSize /\ a0 \in Int
      <4>1. At(Adding) \in Int /\ At(Adding)' \in Int
        BY <3>2
      <4> QED
        BY <3>2, <3>5, <4>1, Distribute
    <3>7. q1 = q0 + ChunkSize /\ q0 \in Int
      BY <3>3, <3>5, Distribute
    <3>8. s + held + a0 + At(W) = q0
      BY <3>4
    <3> HIDE DEF a0, a1, q0, q1
    <3>9. s + held + a1 + At(W) = q1
      BY ONLY <3>5, <3>6, <3>7, <3>8
    <3>10. s + held + ChunkSize * At(Adding)' + At(W)' = ChunkSize * r1
      BY <3>1, <3>9 DEF a1, q1
    <3> QED
      BY <1>2, <3>10 DEF BlocksConserved, s, W, r1
  <2> QED
    BY <1>2, <2>3, <2>4, <2>5, <2>6, <2>7, <2>8, StayStep
<1> QED
  BY <1>3, <1>4 DEF Malloc

(* an empty chunk gets the blocks of the array and is the thread's *)
LEMMA FillInv ==
    ASSUME TLSInv, NEW t \in Threads, Fill(t)
    PROVE  TLSInv'
<1>1. TypeOK
  BY DEF TLSInv
<1>2. PICK c \in emptyChunks :
         /\ emptyChunks' = emptyChunks \ {c}
         /\ size' = [size EXCEPT ![c] = ChunkSize]
         /\ loc' = [loc EXCEPT ![t] = [NoLocals EXCEPT !.chunk = c]]
  BY DEF Fill
<1>3. /\ Goto(t, "Fill", "CountTotal")
      /\ UNCHANGED <<freeStackTop, chunkNext, tls, addVars, heap,
                     totalChunk, useChunk, held>>
  BY DEF Fill, stackVars, addVars, cntVars
<1>4. c \in Chunks /\ size[c] = 0 /\ c \notin Stacked /\ c # Null
  BY <1>1, ChunkSets DEF TLSInv, TypeOK, StackedChunksFull, ChunksAccounted
<1>5. /\ pc[t] = "Fill" /\ pc'[t] = "CountTotal"
      /\ \A u \in Threads \ {t} : pc'[u] = pc[u]
      /\ pc' \in [Threads -> Pcs]
  BY <1>1, <1>3, GotoOnly DEF Pcs, Giving
<1>6. /\ loc'[t].chunk = c
      /\ \A u \in Threads \ {t} : loc'[u] = loc[u]
      /\ loc' \in [Threads -> Locals]
  BY <1>1, <1>2, <1>4, GetOnly
<1>7. ChunkSize \in Nat /\ ChunkSize \in 0 .. ChunkSize
  BY TLSAssumption
<1>8. /\ SumOf(size, Chunks) \in Nat
      /\ SumOf(size, Chunks)' = SumOf(size, Chunks) + ChunkSize - size[c]
      /\ size' \in [Chunks -> 0 .. ChunkSize]
      /\ size'[c] = ChunkSize /\ \A x \in Chunks : x # c => size'[x] = size[x]
  BY <1>1, <1>2, <1>4, <1>7, SizeStep
<1>9. TypeOK'
  BY <1>1, <1>2, <1>3, <1>5, <1>6, <1>8 DEF TypeOK, Locals, addVars
<1>10. OnlyThread(t) /\ OwnNext(t) /\ OwnSize(t)
  BY <1>3, <1>5, <1>6, <1>8 DEF OnlyThread, OwnNext, OwnSize
<1>11. ListOK' /\ Stacked' = Stacked /\ Depth' = Depth
  BY <1>3, <1>10, StackFrame
<1>12. OwnChunk(t) = {} /\ OwnChunk(t)' = {c}
  BY <1>4, <1>5, <1>6, OwnIs, OwnIsNext DEF Pushing, Giving
<1>13. Moves(t)
  BY <1>2, <1>4, <1>11, <1>12 DEF TLSInv, ChunksAccounted, Moves
<1>14. StackedChunksFull'
  <2>1. Stacked \subseteq Chunks /\ emptyChunks \subseteq Chunks
    BY <1>1 DEF Stacked, Listed, TypeOK
  <2>2. \A x \in Stacked' : size'[x] = ChunkSize
    BY <1>4, <1>8, <1>11, <2>1 DEF TLSInv, StackedChunksFull
  <2>3. \A x \in emptyChunks' : size'[x] = 0
    BY <1>2, <1>8, <2>1 DEF TLSInv, StackedChunksFull
  <2> QED
    BY <2>2, <2>3 DEF StackedChunksFull
<1>15. ChunkCountsExact'
  BY <1>3, <1>5, <1>10, <1>11, CountsFrame
<1>16. BlocksConserved'
  <2> DEFINE s0 == SumOf(size, Chunks)
             s1 == SumOf(size, Chunks)'
             W == Pushing \cup Pushed
             r == ChunkSize * (InitChunkCnt + HeapArrays - heap)
  <2>1. At(W)' = At(W)
    BY <1>5, AtFrame DEF Pushing, Pushed
  <2>2. At(Adding) \in Nat /\ At(Adding)' \in Nat /\ At(Adding) = At(Adding)' + 1
    <3>1. /\ At(Adding) \in Nat /\ At(Adding)' \in Nat
          /\ At(Adding)' = At(Adding) + (IF pc'[t] \in Adding THEN 1 ELSE 0)
                                      - (IF pc[t] \in Adding THEN 1 ELSE 0)
      BY <1>5, AtStep
    <3>2. pc'[t] \notin Adding /\ pc[t] \in Adding
      BY <1>5 DEF Adding
    <3> QED
      BY <3>1, <3>2
  <2>3. s0 + held + ChunkSize * At(Adding) + At(W) = r
    BY DEF TLSInv, BlocksConserved
  <2>4. s0 \in Nat /\ held \in Nat /\ At(W) \in Nat /\ ChunkSize \in Nat
    BY <1>1, <1>5, SumIsNat, AtStep, TLSAssumption DEF TypeOK
  <2>5. s1 = s0 + ChunkSize
    BY <1>4, <1>8, <2>4
  <2> DEFINE a0 == ChunkSize * At(Adding)
             a1 == ChunkSize * At(Adding)'
  <2> HIDE DEF s0, s1, W, r
  <2>6. a0 = a1 + ChunkSize /\ a1 \in Int
    <3>1. At(Adding) \in Int /\ At(Adding)' \in Int
      BY <2>2
    <3> QED
      BY <2>2, <2>4, <3>1, Distribute
  <2>7. s0 + held + a0 + At(W) = r
    BY <2>3
  <2> HIDE DEF a0, a1
  <2>8. s1 + held + a1 + At(W) = r
    BY ONLY <2>4, <2>5, <2>6, <2>7
  <2>9. s1 + held' + ChunkSize * At(Adding)' + At(W)' = r
    BY <1>3, <2>1, <2>8 DEF a1
  <2> QED
    BY <1>3, <2>9 DEF BlocksConserved, s1, W, r
<1>17. PopOK(t)' /\ PushOK(t)' /\ FullOK(t)'
  BY <1>4, <1>5, <1>6, <1>8 DEF PopOK, PushOK, FullOK, Giving, Pushing
<1>18. freeStackTop.tag <= freeStackTop'.tag
  BY <1>1, <1>3 DEF TypeOK, Tops
<1> QED
  BY <1>9, <1>10, <1>11, <1>13, <1>14, <1>15, <1>16, <1>17, <1>18, StepInv

LEMMA CountTotalInv ==
    ASSUME TLSInv, NEW t \in Threads, CountTotal(t)
    PROVE  TLSInv'
<1>1. TypeOK
  BY DEF TLSInv
<1>2. /\ Goto(t, "CountTotal", "CountUse") /\ totalChunk' = totalChunk + 1
      /\ UNCHANGED <<freeStackTop, chunkNext, size, emptyChunks, tls, addAllocCnt, heap,
                     useChunk, held, loc>>
  BY DEF CountTotal, stackVars, chunkVars, addVars
<1>3. /\ pc[t] = "CountTotal" /\ pc'[t] = "CountUse"
      /\ \A u \in Threads \ {t} : pc'[u] = pc[u]
      /\ pc' \in [Threads -> Pcs]
  BY <1>1, <1>2, GotoOnly DEF Pcs, Giving
<1>4. TypeOK'
  <2>1. totalChunk' \in Int
    BY <1>1, <1>2 DEF TypeOK
  <2> QED
    BY <1>1, <1>2, <1>3, <2>1 DEF TypeOK
<1>5. OnlyThread(t) /\ OwnNext(t)
  BY <1>2, <1>3 DEF OnlyThread, OwnNext
<1>6. OwnChunk(t)' = OwnChunk(t)
  BY <1>2, <1>3, OwnIs, OwnIsNext DEF Pushing, Giving
<1>7. ChunkCountsExact'
  <2>1. Depth' = Depth
    BY <1>2, <1>5, StackFrame
  <2>2. At({"CountFree"})' = At({"CountFree"}) /\ At({"CountFree"}) \in Nat
    BY <1>3, AtFrame, AtStep
  <2>3. At({"CountUse"}) \in Nat /\ At({"CountUse"})' = At({"CountUse"}) + 1
    <3>1. /\ At({"CountUse"}) \in Nat
          /\ At({"CountUse"})' = At({"CountUse"})
                + (IF pc'[t] \in {"CountUse"} THEN 1 ELSE 0)
                - (IF pc[t] \in {"CountUse"} THEN 1 ELSE 0)
      BY <1>3, AtStep
    <3> QED
      BY <1>3, <3>1
  <2>4. /\ totalChunk - useChunk = Depth + At({"CountUse"}) - At({"CountFree"})
        /\ totalChunk \in Int /\ useChunk \in Int /\ Depth \in Nat
    BY <1>1, StackCounted DEF TLSInv, ChunkCountsExact, TypeOK
  <2>5. totalChunk' - useChunk' = Depth' + At({"CountUse"})' - At({"CountFree"})'
    <3> DEFINE d0 == Depth
               d1 == Depth'
               f0 == At({"CountFree"})
               f1 == At({"CountFree"})'
               n0 == At({"CountUse"})
               n1 == At({"CountUse"})'
    <3>1. /\ d0 \in Nat /\ d1 = d0 /\ f0 \in Nat /\ f1 = f0 /\ n0 \in Nat /\ n1 = n0 + 1
          /\ totalChunk - useChunk = d0 + n0 - f0
      BY <2>1, <2>2, <2>3, <2>4
    <3> HIDE DEF d0, d1, f0, f1, n0, n1
    <3>2. totalChunk' - useChunk' = d1 + n1 - f1
      BY <1>2, <2>4, <3>1
    <3> QED
      BY <3>2 DEF d1, f1, n1
  <2> QED
    BY <2>5 DEF ChunkCountsExact
<1>8. BlocksConserved'
  BY <1>2, <1>3, <1>5, ConserveFrame DEF Adding, Pushing, Pushed
<1>9. PopOK(t)' /\ PushOK(t)' /\ FullOK(t)'
  BY <1>2, <1>3 DEF TLSInv, PopOK, PushOK, FullOK, Giving, Pushing
<1> QED
  BY <1>2, <1>4, <1>5, <1>6, <1>7, <1>8, <1>9, StayStep

LEMMA CountUseInv ==
    ASSUME TLSInv, NEW t \in Threads, CountUse(t)
    PROVE  TLSInv'
<1>1. TypeOK
  BY DEF TLSInv
<1>2. /\ Goto(t, "CountUse", "Take") /\ useChunk' = useChunk + 1
      /\ UNCHANGED <<freeStackTop, chunkNext, size, emptyChunks, tls, addAllocCnt, heap,
                     totalChunk, held, loc>>
  BY DEF CountUse, stackVars, chunkVars, addVars
<1>3. /\ pc[t] = "CountUse" /\ pc'[t] = "Take"
      /\ \A u \in Threads \ {t} : pc'[u] = pc[u]
      /\ pc' \in [Threads -> Pcs]
  BY <1>1, <1>2, GotoOnly DEF Pcs, Giving
<1>4. TypeOK'
  <2>1. useChunk' \in Int
    BY <1>1, <1>2 DEF TypeOK
  <2> QED
    BY <1>1, <1>2, <1>3, <2>1 DEF TypeOK
<1>5. OnlyThread(t) /\ OwnNext(t)
  BY <1>2, <1>3 DEF OnlyThread, OwnNext
<1>6. OwnChunk(t)' = OwnChunk(t)
  BY <1>2, <1>3, OwnIs, OwnIsNext DEF Pushing, Giving
<1>7. ChunkCountsExact'
  <2>1. Depth' = Depth
    BY <1>2, <1>5, StackFrame
  <2>2. At({"CountFree"})' = At({"CountFree"}) /\ At({"CountFree"}) \in Nat
    BY <1>3, AtFrame, AtStep
  <2>3. At({"CountUse"}) \in Nat /\ At({"CountUse"})' = At({"CountUse"}) - 1
    <3>1. /\ At({"CountUse"}) \in Nat
          /\ At({"CountUse"})' = At({"CountUse"})
                + (IF pc'[t] \in {"CountUse"} THEN 1 ELSE 0)
                - (IF pc[t] \in {"CountUse"} THEN 1 ELSE 0)
      BY <1>3, AtStep
    <3> QED
      BY <1>3, <3>1
  <2>4. /\ totalChunk - useChunk = Depth + At({"CountUse"}) - At({"CountFree"})
        /\ totalChunk \in Int /\ useChunk \in Int /\ Depth \in Nat
    BY <1>1, StackCounted DEF TLSInv, ChunkCountsExact, TypeOK
  <2>5. totalChunk' - useChunk' = Depth' + At({"CountUse"})' - At({"CountFree"})'
    <3> DEFINE d0 == Depth
               d1 == Depth'
               f0 == At({"CountFree"})
               f1 == At({"CountFree"})'
               n0 == At({"CountUse"})
               n1 == At({"CountUse"})'
    <3>1. /\ d0 \in Nat /\ d1 = d0 /\ f0 \in Nat /\ f1 = f0 /\ n0 \in Nat /\ n1 = n0 - 1
          /\ totalChunk - useChunk = d0 + n0 - f0
      BY <2>1, <2>2, <2>3, <2>4
    <3> HIDE DEF d0, d1, f0, f1, n0, n1
    <3>2. totalChunk' - useChunk' = d1 + n1 - f1
      BY <1>2, <2>4, <3>1
    <3> QED
      BY <3>2 DEF d1, f1, n1
  <2> QED
    BY <2>5 DEF ChunkCountsExact
<1>8. BlocksConserved'
  BY <1>2, <1>3, <1>5, ConserveFrame DEF Adding, Pushing, Pushed
<1>9. PopOK(t)' /\ PushOK(t)' /\ FullOK(t)'
  BY <1>2, <1>3 DEF TLSInv, PopOK, PushOK, FullOK, Giving, Pushing
<1> QED
  BY <1>2, <1>4, <1>5, <1>6, <1>7, <1>8, <1>9, StayStep

(* the chunk is full, so Alloc finds a block in it *)
LEMMA TakeInv ==
    ASSUME TLSInv, NEW t \in Threads, Take(t)
    PROVE  TLSInv'
<1> DEFINE c == loc[t].chunk
<1>1. TypeOK
  BY DEF TLSInv
<1>2. pc[t] = "Take"
  BY DEF Take, Goto
<1>3. c \in Chunks /\ c # Null /\ size[c] = ChunkSize /\ ChunkSize \in Nat \ {0}
  BY <1>2, ChunkSets, TLSAssumption DEF TLSInv, FullOK, Giving
<1>4. /\ Goto(t, "Take", "idle") /\ size' = [size EXCEPT ![c] = @ - 1] /\ held' = held + 1
      /\ Forget(t) /\ tls' = [tls EXCEPT ![t] = c]
      /\ UNCHANGED <<stackVars, emptyChunks, addVars, cntVars>>
  BY <1>3 DEF Take, Give
<1>5. OwnChunk(t) = {c}
  BY <1>2, <1>3, OwnIs DEF Giving
<1>6. c \notin emptyChunks
  BY <1>5 DEF TLSInv, ChunksAccounted
<1>7. size[c] - 1 \in 0 .. ChunkSize
  BY ONLY <1>3
<1>8. size' = [size EXCEPT ![c] = size[c] - 1]
  BY <1>4
<1>9. /\ pc'[t] = "idle"
      /\ \A u \in Threads \ {t} : pc'[u] = pc[u]
      /\ pc' \in [Threads -> Pcs]
  BY <1>1, <1>4, GotoOnly DEF Pcs
<1>10. (\A u \in Threads \ {t} : loc'[u] = loc[u]) /\ loc' \in [Threads -> Locals]
  BY <1>1, <1>4, ForgetOnly
<1>11. /\ tls'[t] = c /\ \A u \in Threads \ {t} : tls'[u] = tls[u]
       /\ tls' \in [Threads -> Pointers]
  BY <1>1, <1>3, <1>4, TlsOnly DEF Pointers
<1> HIDE DEF c
<1>12. TypeOK'
  <2>1. size' \in [Chunks -> 0 .. ChunkSize]
    BY <1>1, <1>3, <1>7, <1>8, SizeStep
  <2>2. held' \in Nat
    BY <1>1, <1>4 DEF TypeOK
  <2> QED
    BY <1>1, <1>4, <1>9, <1>10, <1>11, <2>1, <2>2
       DEF TypeOK, Locals, stackVars, addVars, cntVars
<1>13. OnlyThread(t)
  BY <1>9, <1>10, <1>11 DEF OnlyThread
<1>14. emptyChunks' = emptyChunks \ {c} /\ OwnChunk(t) \subseteq {c}
  BY <1>4, <1>5, <1>6
<1>15. held' + (size[c] - 1) = held + size[c] + (IF pc[t] = "Replace" THEN 1 ELSE 0)
  <2>1. held \in Nat /\ size[c] \in Nat
    BY <1>1, <1>3 DEF TypeOK
  <2> QED
    BY <1>2, <1>4, <2>1
<1>16. UNCHANGED <<stackVars, addVars, cntVars>>
  BY <1>4
<1> QED
  BY <1>2, <1>3, <1>5, <1>7, <1>8, <1>9, <1>11, <1>12, <1>13, <1>14, <1>15, <1>16, BlockStep

-----------------------------------------------------------------------------
(* Free *)

LEMMA FreeLocalInv ==
    ASSUME TLSInv, NEW t \in Threads, FreeLocal(t)
    PROVE  TLSInv'
<1>1. TypeOK
  BY DEF TLSInv
<1>2. PICK c \in IF tls[t] = Null THEN emptyChunks ELSE {tls[t]} :
         /\ ~IsFull(c)
         /\ emptyChunks' = emptyChunks \ {c}
         /\ tls' = [tls EXCEPT ![t] = c]
         /\ size' = [size EXCEPT ![c] = @ + 1]
  BY DEF FreeLocal
<1>3. /\ pc[t] = "idle" /\ held > 0 /\ held' = held - 1
      /\ UNCHANGED <<stackVars, addVars, cntVars, pc, loc>>
  BY DEF FreeLocal
<1>4. c \in Chunks /\ c \in OwnChunk(t) \cup emptyChunks /\ OwnChunk(t) \subseteq {c}
  <2>1. OwnChunk(t) = {tls[t]} \ {Null}
    BY <1>3, OwnIs
  <2>2. CASE tls[t] = Null
    BY <1>1, <1>2, <2>1, <2>2 DEF TypeOK
  <2>3. CASE tls[t] # Null
    BY <1>1, <1>2, <2>1, <2>3 DEF TypeOK, Pointers
  <2> QED
    BY <2>2, <2>3
<1>5. size[c] \in 0 .. ChunkSize /\ size[c] + 1 \in 0 .. ChunkSize
  <2>1. size[c] \in 0 .. ChunkSize
    BY <1>1, <1>4 DEF TypeOK
  <2>2. ChunkSize \in Nat /\ size[c] # ChunkSize
    BY <1>2, TLSAssumption DEF IsFull
  <2> QED
    BY ONLY <2>1, <2>2
<1>6. size' = [size EXCEPT ![c] = size[c] + 1]
  BY <1>2
<1>7. /\ tls'[t] = c /\ \A u \in Threads \ {t} : tls'[u] = tls[u]
      /\ tls' \in [Threads -> Pointers]
  BY <1>1, <1>2, <1>4, TlsOnly DEF Pointers
<1>8. TypeOK'
  <2>1. size' \in [Chunks -> 0 .. ChunkSize]
    BY <1>1, <1>4, <1>5, <1>6, SizeStep
  <2>2. held' \in Nat
    BY <1>1, <1>3 DEF TypeOK
  <2> QED
    BY <1>1, <1>2, <1>3, <1>7, <2>1, <2>2 DEF TypeOK, stackVars, addVars, cntVars
<1>9. OnlyThread(t)
  BY <1>3, <1>7 DEF OnlyThread
<1>10. held' + (size[c] + 1) = held + size[c] + (IF pc[t] = "Replace" THEN 1 ELSE 0)
  <2>1. held \in Nat /\ size[c] \in Nat
    BY <1>1, <1>5, TLSAssumption DEF TypeOK
  <2> QED
    BY <1>3, <2>1
<1>11. pc'[t] = "idle" /\ emptyChunks' = emptyChunks \ {c}
       /\ UNCHANGED <<stackVars, addVars, cntVars>>
  BY <1>2, <1>3
<1> QED
  BY <1>3, <1>4, <1>5, <1>6, <1>7, <1>8, <1>9, <1>10, <1>11, BlockStep

LEMMA FreeChunkInv ==
    ASSUME TLSInv, NEW t \in Threads, FreeChunk(t)
    PROVE  TLSInv'
<1>1. TypeOK
  BY DEF TLSInv
<1>2. /\ Goto(t, "idle", "PushLoad") /\ held > 0 /\ held' = held - 1
      /\ tls[t] \in Chunks /\ size[tls[t]] = ChunkSize
      /\ loc' = [loc EXCEPT ![t].chunk = tls[t]]
      /\ UNCHANGED <<freeStackTop, chunkNext, size, emptyChunks, tls, addAllocCnt, heap,
                     totalChunk, useChunk>>
  BY DEF FreeChunk, IsFull, stackVars, chunkVars, addVars, cntVars
<1>3. /\ pc[t] = "idle" /\ pc'[t] = "PushLoad"
      /\ \A u \in Threads \ {t} : pc'[u] = pc[u]
      /\ pc' \in [Threads -> Pcs]
  BY <1>1, <1>2, GotoOnly DEF Pcs, Pushing
<1>4. /\ loc'[t].chunk = tls[t]
      /\ \A u \in Threads \ {t} : loc'[u] = loc[u]
      /\ loc' \in [Threads -> Locals]
  BY <1>1, <1>2, ChunkField DEF Pointers
<1>5. held \in Nat /\ held' \in Nat /\ held = held' + 1
  BY <1>1, <1>2 DEF TypeOK
<1>6. TypeOK'
  BY <1>1, <1>2, <1>3, <1>4, <1>5 DEF TypeOK, Locals
<1>7. OnlyThread(t) /\ OwnNext(t)
  BY <1>2, <1>3, <1>4 DEF OnlyThread, OwnNext
<1>8. OwnChunk(t)' = OwnChunk(t)
  BY <1>2, <1>3, OwnIs, OwnIsNext DEF Pushing
<1>9. ChunkCountsExact'
  <2>1. Depth' = Depth
    BY <1>2, <1>7, StackFrame
  <2> QED
    BY <1>2, <1>3, <1>7, <2>1, CountsFrame
<1>10. BlocksConserved'
  <2>1. Carried(t) = 0 /\ Carried(t)' = 1
    BY <1>3 DEF Carried, Pushing, Pushed
  <2>2. SumOf(size, Chunks) \in Nat /\ SumOf(size, Chunks)' = SumOf(size, Chunks)
    BY <1>1, <1>2, SumIsNat
  <2>3. SumOf(size, Chunks)' + held' + Carried(t)' = SumOf(size, Chunks) + held + Carried(t)
    <3> DEFINE s == SumOf(size, Chunks)
    <3>1. s \in Nat
      BY <2>2
    <3> HIDE DEF s
    <3>2. s + held' + 1 = s + held + 0
      BY ONLY <1>5, <3>1
    <3> QED
      BY <2>1, <2>2, <3>2 DEF s
  <2> QED
    BY <1>2, <1>3, <1>5, <1>7, <2>2, <2>3, ConserveStep DEF Adding
<1>11. PopOK(t)' /\ PushOK(t)' /\ FullOK(t)'
  BY <1>2, <1>3, <1>4 DEF PopOK, PushOK, FullOK, Giving, Pushing
<1> QED
  BY <1>2, <1>6, <1>7, <1>8, <1>9, <1>10, <1>11, StayStep

LEMMA PushLoadInv ==
    ASSUME TLSInv, NEW t \in Threads, PushLoad(t)
    PROVE  TLSInv'
<1>1. TypeOK
  BY DEF TLSInv
<1>2. /\ Goto(t, "PushLoad", "PushLink")
      /\ loc' = [loc EXCEPT ![t].top = freeStackTop]
      /\ UNCHANGED <<freeStackTop, chunkNext, size, emptyChunks, tls, addAllocCnt, heap,
                     totalChunk, useChunk, held>>
  BY DEF PushLoad, stackVars, chunkVars, addVars, cntVars
<1>3. /\ pc[t] = "PushLoad" /\ pc'[t] = "PushLink"
      /\ \A u \in Threads \ {t} : pc'[u] = pc[u]
      /\ pc' \in [Threads -> Pcs]
  BY <1>1, <1>2, GotoOnly DEF Pcs, Pushing
<1>4. /\ loc'[t].chunk = loc[t].chunk
      /\ \A u \in Threads \ {t} : loc'[u] = loc[u]
      /\ loc' \in [Threads -> Locals]
  BY <1>1, <1>2, TopField DEF TypeOK
<1>5. TypeOK'
  BY <1>1, <1>2, <1>3, <1>4 DEF TypeOK, Locals
<1>6. OnlyThread(t) /\ OwnNext(t)
  BY <1>2, <1>3, <1>4 DEF OnlyThread, OwnNext
<1>7. OwnChunk(t)' = OwnChunk(t)
  BY <1>2, <1>3, OwnIs, OwnIsNext DEF Pushing
<1>8. PopOK(t)' /\ PushOK(t)' /\ FullOK(t)'
  BY <1>2, <1>3, <1>4 DEF TLSInv, PopOK, PushOK, FullOK, Giving, Pushing
<1> QED
  BY <1>2, <1>3, <1>5, <1>6, <1>7, <1>8, QuietStep DEF Adding, Pushing, Pushed

LEMMA PushLinkInv ==
    ASSUME TLSInv, NEW t \in Threads, PushLink(t)
    PROVE  TLSInv'
<1> DEFINE c == loc[t].chunk
<1>1. TypeOK
  BY DEF TLSInv
<1>2. /\ Goto(t, "PushLink", "PushCas")
      /\ chunkNext' = [chunkNext EXCEPT ![c] = loc[t].top.ptr]
      /\ UNCHANGED <<freeStackTop, size, emptyChunks, tls, addAllocCnt, heap, totalChunk,
                     useChunk, held, loc>>
  BY DEF PushLink, chunkVars, addVars, cntVars
<1>3. /\ pc[t] = "PushLink" /\ pc'[t] = "PushCas"
      /\ \A u \in Threads \ {t} : pc'[u] = pc[u]
      /\ pc' \in [Threads -> Pcs]
  BY <1>1, <1>2, GotoOnly DEF Pcs, Pushing
<1>4. c \in Chunks /\ c = tls[t] /\ c # Null /\ size[c] = ChunkSize
  BY <1>3, ChunkSets DEF TLSInv, FullOK, Pushing
<1>5. loc[t].top.ptr \in Pointers
  BY <1>1 DEF TypeOK, Tops
<1>6. OwnChunk(t) = {c} /\ OwnChunk(t)' = {c}
  BY <1>2, <1>3, <1>4, OwnIs, OwnIsNext DEF Pushing
<1>7. TypeOK'
  BY <1>1, <1>2, <1>3, <1>5 DEF TypeOK
<1>8. OnlyThread(t)
  BY <1>2, <1>3 DEF OnlyThread
<1>9. OwnNext(t)
  BY <1>1, <1>2, <1>6 DEF OwnNext, TypeOK
<1>10. PushOK(t)'
  BY <1>1, <1>2, <1>4 DEF PushOK, TypeOK
<1>11. PopOK(t)' /\ FullOK(t)'
  BY <1>2, <1>3, <1>4 DEF PopOK, FullOK, Giving, Pushing
<1> QED
  BY <1>2, <1>3, <1>6, <1>7, <1>8, <1>9, <1>10, <1>11, QuietStep DEF Adding, Pushing, Pushed

(* the exchange of Push: whatever the top has become since, the chunk is     *)
(* linked to it                                                              *)
LEMMA PushCasInv ==
    ASSUME TLSInv, NEW t \in Threads, PushCas(t)
    PROVE  TLSInv'
<1> DEFINE c == loc[t].chunk
<1>1. TypeOK
  BY DEF TLSInv
<1>2. /\ pc[t] = "PushCas"
      /\ UNCHANGED <<chunkNext, size, emptyChunks, tls, addAllocCnt, heap, totalChunk,
                     useChunk, held>>
  BY DEF PushCas, Goto, chunkVars, addVars, cntVars
<1>3. c \in Chunks /\ c = tls[t] /\ c # Null /\ size[c] = ChunkSize
  BY <1>2, ChunkSets DEF TLSInv, FullOK, Pushing
<1>4. OwnChunk(t) = {c}
  BY <1>2, <1>3, OwnIs DEF Pushing
<1>5. CASE freeStackTop # loc[t].top
  <2>1. Goto(t, "PushCas", "PushLoad") /\ UNCHANGED <<freeStackTop, loc>>
    BY <1>5 DEF PushCas
  <2>2. /\ pc'[t] = "PushLoad"
        /\ \A u \in Threads \ {t} : pc'[u] = pc[u]
        /\ pc' \in [Threads -> Pcs]
    BY <1>1, <2>1, GotoOnly DEF Pcs, Pushing
  <2>3. TypeOK'
    BY <1>1, <1>2, <2>1, <2>2 DEF TypeOK
  <2>4. OnlyThread(t) /\ OwnNext(t)
    BY <1>2, <2>1, <2>2 DEF OnlyThread, OwnNext
  <2>5. OwnChunk(t)' = OwnChunk(t)
    BY <1>2, <1>3, <1>4, <2>2, OwnIsNext DEF Pushing
  <2>6. PopOK(t)' /\ PushOK(t)' /\ FullOK(t)'
    BY <1>2, <1>3, <2>1, <2>2 DEF PopOK, PushOK, FullOK, Giving, Pushing
  <2> QED
    BY <1>2, <2>1, <2>2, <2>3, <2>4, <2>5, <2>6, QuietStep DEF Adding, Pushing, Pushed
<1>6. CASE freeStackTop = loc[t].top
  <2> DEFINE b == freeStackTop.ptr
  <2>1. /\ Goto(t, "PushCas", "CountFree") /\ Forget(t)
        /\ freeStackTop' = [ptr |-> c, tag |-> freeStackTop.tag]
    BY <1>6 DEF PushCas
  <2>2. /\ pc'[t] = "CountFree"
        /\ \A u \in Threads \ {t} : pc'[u] = pc[u]
        /\ pc' \in [Threads -> Pcs]
    BY <1>1, <2>1, GotoOnly DEF Pcs, Pushed
  <2>3. (\A u \in Threads \ {t} : loc'[u] = loc[u]) /\ loc' \in [Threads -> Locals]
    BY <1>1, <2>1, ForgetOnly
  <2>4. chunkNext[c] = b /\ c \notin Stacked /\ c \notin emptyChunks
    BY <1>2, <1>4, <1>6 DEF TLSInv, PushOK, ChunksAccounted
  <2>5. /\ freeStackTop'.ptr = c /\ freeStackTop'.tag = freeStackTop.tag
        /\ freeStackTop.tag \in Nat /\ freeStackTop' \in Tops
    <3>1. freeStackTop.tag \in Nat /\ c \in Pointers
      BY <1>1, <1>3 DEF TypeOK, Tops, Pointers
    <3> QED
      BY <2>1, <3>1 DEF Tops
  <2>6. TypeOK'
    BY <1>1, <1>2, <2>2, <2>3, <2>5 DEF TypeOK, Locals
  <2>7. OnlyThread(t) /\ OwnNext(t) /\ OwnSize(t)
    BY <1>2, <2>2, <2>3 DEF OnlyThread, OwnNext, OwnSize
  <2>8. ListOK' /\ Stacked' = Stacked \cup {c}
    <3>1. HasChain(b, chunkNext, Chunks, Null)
      BY DEF TLSInv, ListOK
    <3>2. Stacked = Listed(Walk(b, chunkNext, Chunks, Null), Chunks)
      BY DEF Stacked, List
    <3> HIDE DEF b, c
    <3>3. /\ HasChain(c, chunkNext, Chunks, Null)
          /\ Listed(Walk(c, chunkNext, Chunks, Null), Chunks) =
                Listed(Walk(b, chunkNext, Chunks, Null), Chunks) \cup {c}
      BY <1>3, <2>4, <3>1, <3>2, ChunkSets, PushedList
    <3> QED
      BY <1>2, <2>5, <3>2, <3>3 DEF ListOK, Stacked, List
  <2>9. OwnChunk(t)' = {}
    BY <2>2, OwnIsNext DEF Pushing, Giving
  <2> HIDE DEF b, c
  <2>10. Moves(t)
    BY <1>2, <1>4, <2>4, <2>8, <2>9 DEF TLSInv, ChunksAccounted, Moves
  <2>11. StackedChunksFull'
    BY <1>2, <1>3, <2>8 DEF TLSInv, StackedChunksFull
  <2>12. ChunkCountsExact'
    <3>1. At({"CountUse"})' = At({"CountUse"}) /\ At({"CountUse"}) \in Nat
      BY <1>2, <2>2, AtFrame, AtStep
    <3>2. /\ At({"CountFree"}) \in Nat
          /\ At({"CountFree"})' = At({"CountFree"})
                + (IF pc'[t] \in {"CountFree"} THEN 1 ELSE 0)
                - (IF pc[t] \in {"CountFree"} THEN 1 ELSE 0)
      BY <2>2, AtStep
    <3>3. At({"CountFree"})' = At({"CountFree"}) + 1
      BY <1>2, <2>2, <3>2
    <3>4. Depth = Cardinality(Stacked) /\ IsFiniteSet(Stacked) /\ Depth \in Nat
      BY StackCounted DEF TLSInv
    <3>5. Depth' = Cardinality(Stacked')
      BY <2>8, StackCountedNext
    <3>6. Depth' = Depth + 1
      BY <2>4, <2>8, <3>4, <3>5, FS_AddElement
    <3>7. totalChunk - useChunk = Depth + At({"CountUse"}) - At({"CountFree"})
      BY DEF TLSInv, ChunkCountsExact
    <3>8. totalChunk' - useChunk' = Depth' + At({"CountUse"})' - At({"CountFree"})'
      BY <1>2, <3>1, <3>2, <3>3, <3>4, <3>6, <3>7
    <3> QED
      BY <3>8 DEF ChunkCountsExact
  <2>13. BlocksConserved'
    BY <1>2, <2>2, <2>7, ConserveFrame DEF Adding, Pushing, Pushed
  <2>14. PopOK(t)' /\ PushOK(t)' /\ FullOK(t)'
    BY <2>2 DEF PopOK, PushOK, FullOK, Giving, Pushing
  <2>15. freeStackTop.tag <= freeStackTop'.tag /\ Stacked \subseteq Stacked'
    BY <2>5, <2>8
  <2> QED
    BY <2>6, <2>7, <2>8, <2>10, <2>11, <2>12, <2>13, <2>14, <2>15, StepInv
<1> QED
  BY <1>5, <1>6

LEMMA CountFreeInv ==
    ASSUME TLSInv, NEW t \in Threads, CountFree(t)
    PROVE  TLSInv'
<1>1. TypeOK
  BY DEF TLSInv
<1>2. /\ Goto(t, "CountFree", "Replace") /\ useChunk' = useChunk - 1
      /\ UNCHANGED <<freeStackTop, chunkNext, size, emptyChunks, tls, addAllocCnt, heap,
                     totalChunk, held, loc>>
  BY DEF CountFree, stackVars, chunkVars, addVars
<1>3. /\ pc[t] = "CountFree" /\ pc'[t] = "Replace"
      /\ \A u \in Threads \ {t} : pc'[u] = pc[u]
      /\ pc' \in [Threads -> Pcs]
  BY <1>1, <1>2, GotoOnly DEF Pcs, Pushed
<1>4. TypeOK'
  <2>1. useChunk' \in Int
    BY <1>1, <1>2 DEF TypeOK
  <2> QED
    BY <1>1, <1>2, <1>3, <2>1 DEF TypeOK
<1>5. OnlyThread(t) /\ OwnNext(t)
  BY <1>2, <1>3 DEF OnlyThread, OwnNext
<1>6. OwnChunk(t)' = OwnChunk(t)
  BY <1>3, OwnIs, OwnIsNext DEF Pushing, Giving
<1>7. ChunkCountsExact'
  <2>1. Depth' = Depth
    BY <1>2, <1>5, StackFrame
  <2>2. At({"CountUse"})' = At({"CountUse"}) /\ At({"CountUse"}) \in Nat
    BY <1>3, AtFrame, AtStep
  <2>3. At({"CountFree"}) \in Nat /\ At({"CountFree"})' = At({"CountFree"}) - 1
    <3>1. /\ At({"CountFree"}) \in Nat
          /\ At({"CountFree"})' = At({"CountFree"})
                + (IF pc'[t] \in {"CountFree"} THEN 1 ELSE 0)
                - (IF pc[t] \in {"CountFree"} THEN 1 ELSE 0)
      BY <1>3, AtStep
    <3> QED
      BY <1>3, <3>1
  <2>4. /\ totalChunk - useChunk = Depth + At({"CountUse"}) - At({"CountFree"})
        /\ totalChunk \in Int /\ useChunk \in Int /\ Depth \in Nat
    BY <1>1, StackCounted DEF TLSInv, ChunkCountsExact, TypeOK
  <2>5. totalChunk' - useChunk' = Depth' + At({"CountUse"})' - At({"CountFree"})'
    <3> DEFINE d0 == Depth
               d1 == Depth'
               f0 == At({"CountFree"})
               f1 == At({"CountFree"})'
               n0 == At({"CountUse"})
               n1 == At({"CountUse"})'
    <3>1. /\ d0 \in Nat /\ d1 = d0 /\ f0 \in Nat /\ f1 = f0 - 1 /\ n0 \in Nat /\ n1 = n0
          /\ totalChunk - useChunk = d0 + n0 - f0
      BY <2>1, <2>2, <2>3, <2>4
    <3> HIDE DEF d0, d1, f0, f1, n0, n1
    <3>2. totalChunk' - useChunk' = d1 + n1 - f1
      BY <1>2, <2>4, <3>1
    <3> QED
      BY <3>2 DEF d1, f1, n1
  <2> QED
    BY <2>5 DEF ChunkCountsExact
<1>8. BlocksConserved'
  BY <1>2, <1>3, <1>5, ConserveFrame DEF Adding, Pushing, Pushed
<1>9. PopOK(t)' /\ PushOK(t)' /\ FullOK(t)'
  BY <1>3 DEF PopOK, PushOK, FullOK, Giving, Pushing
<1> QED
  BY <1>2, <1>4, <1>5, <1>6, <1>7, <1>8, <1>9, StayStep

(* an empty chunk has room for the block *)
LEMMA ReplaceInv ==
    ASSUME TLSInv, NEW t \in Threads, Replace(t)
    PROVE  TLSInv'
<1>1. TypeOK
  BY DEF TLSInv
<1>2. PICK c \in emptyChunks :
         /\ emptyChunks' = emptyChunks \ {c}
         /\ size' = [size EXCEPT ![c] = @ + 1]
         /\ tls' = [tls EXCEPT ![t] = c]
  BY DEF Replace
<1>3. /\ Goto(t, "Replace", "idle") /\ Forget(t)
      /\ UNCHANGED <<stackVars, addVars, cntVars, held>>
  BY DEF Replace, Return
<1>4. /\ pc[t] = "Replace" /\ pc'[t] = "idle"
      /\ \A u \in Threads \ {t} : pc'[u] = pc[u]
      /\ pc' \in [Threads -> Pcs]
  BY <1>1, <1>3, GotoOnly DEF Pcs
<1>5. (\A u \in Threads \ {t} : loc'[u] = loc[u]) /\ loc' \in [Threads -> Locals]
  BY <1>1, <1>3, ForgetOnly
<1>6. c \in Chunks /\ size[c] = 0
  BY <1>1 DEF TLSInv, TypeOK, StackedChunksFull
<1>7. OwnChunk(t) = {}
  BY <1>4, OwnIs DEF Pushing, Giving
<1>8. 1 \in 0 .. ChunkSize
  BY TLSAssumption
<1>9. size' = [size EXCEPT ![c] = 1]
  BY <1>2, <1>6
<1>10. /\ tls'[t] = c /\ \A u \in Threads \ {t} : tls'[u] = tls[u]
       /\ tls' \in [Threads -> Pointers]
  BY <1>1, <1>2, <1>6, TlsOnly DEF Pointers
<1>11. TypeOK'
  <2>1. size' \in [Chunks -> 0 .. ChunkSize]
    BY <1>1, <1>6, <1>8, <1>9, SizeStep
  <2> QED
    BY <1>1, <1>2, <1>3, <1>4, <1>5, <1>10, <2>1
       DEF TypeOK, Locals, stackVars, addVars, cntVars
<1>12. OnlyThread(t)
  BY <1>4, <1>5, <1>10 DEF OnlyThread
<1>13. held' + 1 = held + size[c] + (IF pc[t] = "Replace" THEN 1 ELSE 0)
  <2>1. held \in Nat
    BY <1>1 DEF TypeOK
  <2> QED
    BY <1>3, <1>4, <1>6, <2>1
<1>14. /\ c \in OwnChunk(t) \cup emptyChunks /\ OwnChunk(t) \subseteq {c}
       /\ emptyChunks' = emptyChunks \ {c} /\ UNCHANGED <<stackVars, addVars, cntVars>>
  BY <1>2, <1>3, <1>7
<1> QED
  BY <1>4, <1>6, <1>8, <1>9, <1>10, <1>11, <1>12, <1>13, <1>14, BlockStep

-----------------------------------------------------------------------------
(* the constructor links the chunks of its arrays into the stack *)
LEMMA InitList ==
    ASSUME Init
    PROVE  ListOK /\ Stacked = 1 .. InitChunkCnt /\ Depth = InitChunkCnt
<1> DEFINE n == InitChunkCnt
           L == [i \in 0 .. n |-> i]
<1>1. /\ freeStackTop.ptr = n
      /\ chunkNext = [c \in Chunks |-> IF c <= n THEN c - 1 ELSE Null]
  BY DEF Init
<1>2. n \in Nat /\ \A i \in 1 .. n : i \in Chunks
  BY TLSAssumption DEF Chunks
<1>3. L \in [0 .. n -> Chunks \cup {Null}]
  BY <1>2 DEF Null
<1>4. IsChain(L, n, n, chunkNext, Chunks, Null)
  <2>1. \A i \in 1 .. n : L[i] \in Chunks /\ chunkNext[L[i]] = L[i - 1]
    BY <1>1, <1>2
  <2>2. L[0] = Null /\ L[n] = n /\ \A i, j \in 1 .. n : L[i] = L[j] => i = j
    BY <1>2 DEF Null
  <2> QED
    BY <2>1, <2>2 DEF IsChain
<1>5. Members(L, n) = 1 .. n
  <2>1. \A i \in 1 .. n : i \in 0 .. n
    BY <1>2
  <2>2. \A i \in 1 .. n : L[i] = i
    BY <2>1
  <2> HIDE DEF L, n
  <2> QED
    BY <2>2 DEF Members
<1> HIDE DEF L, n
<1>6. n \in 0 .. Cardinality(Chunks)
  <2>1. n <= Cardinality(Chunks)
    BY <1>2, <1>4, ChunkSets, ChainShort
  <2>2. Cardinality(Chunks) \in Nat
    BY ChunkSets, FS_CardinalityType
  <2> QED
    BY <1>2, <2>1, <2>2
<1>7. HasChain(n, chunkNext, Chunks, Null)
  BY <1>3, <1>4, <1>6 DEF HasChain
<1>8. /\ Listed(Walk(n, chunkNext, Chunks, Null), Chunks) = Members(L, n)
      /\ Length(Walk(n, chunkNext, Chunks, Null), Chunks) = n
  BY <1>4, <1>6, ChunkSets, ListOfChain
<1> QED
  BY <1>1, <1>5, <1>7, <1>8 DEF ListOK, Stacked, Depth, List, n

LEMMA InitTLSInv == ASSUME Init PROVE TLSInv
<1> DEFINE n == InitChunkCnt
<1>1. /\ freeStackTop = [ptr |-> n, tag |-> 0]
      /\ chunkNext = [c \in Chunks |-> IF c <= n THEN c - 1 ELSE Null]
      /\ size = [c \in Chunks |-> IF c <= n THEN ChunkSize ELSE 0]
      /\ emptyChunks = {c \in Chunks : c > n}
      /\ tls = [t \in Threads |-> Null]
      /\ addAllocCnt = -1 /\ heap = HeapArrays
      /\ totalChunk = n /\ useChunk = 0 /\ held = 0
      /\ pc = [t \in Threads |-> "idle"]
      /\ loc = [t \in Threads |-> NoLocals]
  BY DEF Init
<1>2. \A t \in Threads : pc[t] = "idle" /\ tls[t] = Null
  BY <1>1
<1>3. /\ n \in Nat /\ n \in Pointers /\ 1 .. n \subseteq Chunks
      /\ \A c \in Chunks : c <= n <=> c \in 1 .. n
      /\ \A c \in Chunks : c > n <=> c \notin 1 .. n
      /\ \A c \in Chunks : c <= n => c - 1 \in Pointers
  BY TLSAssumption DEF Chunks, Pointers, Null
<1>4. ListOK /\ Stacked = 1 .. n /\ Depth = n
  BY InitList
<1>5. TypeOK
  <2>1. freeStackTop \in Tops
    BY <1>1, <1>3 DEF Tops
  <2>2. chunkNext \in [Chunks -> Pointers]
    BY <1>1, <1>3 DEF Pointers
  <2>3. size \in [Chunks -> 0 .. ChunkSize]
    BY <1>1, TLSAssumption
  <2>4. pc \in [Threads -> Pcs]
    BY <1>1 DEF Pcs
  <2>5. loc \in [Threads -> Locals]
    BY <1>1, NoLocalsType
  <2>6. tls \in [Threads -> Pointers] /\ emptyChunks \subseteq Chunks
    BY <1>1 DEF Pointers
  <2>7. addAllocCnt \in Int /\ totalChunk \in Int /\ useChunk \in Int /\ held \in Nat
    BY <1>1, <1>3
  <2>8. heap \in 0 .. HeapArrays
    BY <1>1, TLSAssumption
  <2> QED
    BY <2>1, <2>2, <2>3, <2>4, <2>5, <2>6, <2>7, <2>8 DEF TypeOK, Locals
<1>6. \A t \in Threads : PopOK(t) /\ PushOK(t) /\ FullOK(t)
  BY <1>2 DEF PopOK, PushOK, FullOK, Giving, Pushing
<1>7. ChunksAccounted
  <2>1. \A t \in Threads : OwnChunk(t) = {}
    BY <1>2, OwnIs
  <2>2. UNION {OwnChunk(t) : t \in Threads} = {}
    BY <2>1
  <2>3. Depth = Cardinality(Stacked)
    BY <1>4, StackCounted
  <2>4. emptyChunks = Chunks \ (1 .. n)
    BY <1>1, <1>3
  <2> QED
    BY <1>3, <1>4, <2>1, <2>2, <2>3, <2>4 DEF ChunksAccounted
<1>8. StackedChunksFull
  <2>1. \A c \in 1 .. n : size[c] = ChunkSize
    BY <1>1, <1>3
  <2>2. \A c \in emptyChunks : size[c] = 0
    BY <1>1, <1>3
  <2> QED
    BY <1>4, <2>1, <2>2 DEF StackedChunksFull
<1>9. ASSUME NEW W, "idle" \notin W PROVE At(W) = 0
  <2>1. {t \in Threads : pc[t] \in W} = {}
    BY <1>2, <1>9
  <2> QED
    BY <2>1, FS_EmptySet DEF At
<1>10. ChunkCountsExact
  <2>1. At({"CountUse"}) = 0 /\ At({"CountFree"}) = 0
    BY <1>9
  <2> QED
    BY <1>1, <1>3, <1>4, <2>1 DEF ChunkCountsExact
<1>11. BlocksConserved
  <2>1. At(Adding) = 0 /\ At(Pushing \cup Pushed) = 0
    <3>1. "idle" \notin Adding /\ "idle" \notin Pushing \cup Pushed
      BY DEF Adding, Pushing, Pushed
    <3> QED
      BY <1>9, <3>1
  <2>2. size = [c \in Chunks |-> IF c \in 1 .. n THEN ChunkSize ELSE 0]
    BY <1>1, <1>3
  <2>3. ChunkSize \in Nat /\ n \in Nat /\ HeapArrays \in Nat
    BY TLSAssumption
  <2>4. Cardinality(1 .. n) = n
    <3>1. Cardinality(1 .. n) = IF 1 > n THEN 0 ELSE n - 1 + 1
      BY <2>3, FS_Interval
    <3> QED
      BY <2>3, <3>1
  <2> DEFINE A == 1 .. n
             F == [c \in Chunks |-> IF c \in A THEN ChunkSize ELSE 0]
  <2>5. A \in SUBSET Chunks
    BY <1>3
  <2> HIDE DEF A
  <2>6. SumOf(F, Chunks) = ChunkSize * Cardinality(A)
    BY <2>3, <2>5, ChunkSets, SumConstant
  <2>7. SumOf(size, Chunks) = ChunkSize * n
    BY <2>2, <2>4, <2>6 DEF A
  <2>8. ChunkSize * n \in Nat
    BY <2>3
  <2>9. n + HeapArrays - heap = n
    BY <1>1, <2>3
  <2> QED
    BY <1>1, <2>1, <2>3, <2>7, <2>8, <2>9 DEF BlocksConserved
<1> QED
  BY <1>4, <1>5, <1>6, <1>7, <1>8, <1>10, <1>11 DEF TLSInv

LEMMA NextTLSInv == ASSUME TLSInv, [Next]_vars PROVE TLSInv'
<1>1. ASSUME NEW t \in Threads, AllocLocal(t) \/ AllocChunk(t) PROVE TLSInv'
  BY <1>1, AllocLocalInv, AllocChunkInv
<1>2. ASSUME NEW t \in Threads, FreeLocal(t) \/ FreeChunk(t) PROVE TLSInv'
  BY <1>2, FreeLocalInv, FreeChunkInv
<1>3. ASSUME NEW t \in Threads, Step(t) PROVE TLSInv'
  BY <1>3, PopLoadInv, PopNextInv, PopCasInv, AddCountInv, AddUndoInv, MallocInv,
     FillInv, CountTotalInv, CountUseInv, TakeInv, PushLoadInv, PushLinkInv,
     PushCasInv, CountFreeInv, ReplaceInv
     DEF Step
<1>4. CASE UNCHANGED vars
  <2> USE <1>4 DEF vars, stackVars, chunkVars, addVars, cntVars
  <2>1. List' = List
    BY DEF List
  <2>2. Depth' = Depth /\ Stacked' = Stacked
    BY <2>1 DEF Depth, Stacked
  <2>3. TypeOK' /\ ListOK'
    BY DEF TLSInv, TypeOK, ListOK
  <2>4. \A t \in Threads : PopOK(t)' /\ PushOK(t)' /\ FullOK(t)'
    BY <2>2 DEF TLSInv, PopOK, PushOK, FullOK
  <2>5. ChunksAccounted'
    BY <2>2 DEF TLSInv, ChunksAccounted, OwnChunk
  <2>6. StackedChunksFull'
    BY <2>2 DEF TLSInv, StackedChunksFull
  <2>7. ChunkCountsExact'
    BY <2>2 DEF TLSInv, ChunkCountsExact, At
  <2>8. BlocksConserved'
    BY DEF TLSInv, BlocksConserved, At
  <2> QED
    BY <2>3, <2>4, <2>5, <2>6, <2>7, <2>8 DEF TLSInv
<1> QED
  BY <1>1, <1>2, <1>3, <1>4 DEF Next

-----------------------------------------------------------------------------
(***************************************************************************)
(* TLSInv holds in every state of the pool: the shared stack ends, an      *)
(* exchange that succeeds finds the chunk it relies on, chunks in transit  *)
(* are full, and the counts are exact (MemoryPoolTLS.h 208-385).           *)
(***************************************************************************)
THEOREM TLSInvariant == Spec => []TLSInv
<1>1. Init => TLSInv
  BY InitTLSInv
<1>2. TLSInv /\ [Next]_vars => TLSInv'
  BY NextTLSInv
<1> QED
  BY <1>1, <1>2, PTL DEF Spec

(***************************************************************************)
(* No chunk is lost and none has two owners, for any number of threads, as *)
(* long as no tag is used twice (Push and Pop of the shared stack,         *)
(* MemoryPoolTLS.h 208-385).                                               *)
(***************************************************************************)
THEOREM ChunksSafe == Spec => []ChunksAccounted
<1>1. TLSInv => ChunksAccounted
  BY DEF TLSInv
<1> QED
  BY <1>1, TLSInvariant, PTL

(***************************************************************************)
(* Every chunk on the shared stack is full and every chunk of the manager  *)
(* empty (MemoryPoolTLS.h 93), so Alloc never takes a block out of an      *)
(* empty chunk (line 228) and Free never puts one into a full one (281).   *)
(***************************************************************************)
THEOREM StackedFull == Spec => []StackedChunksFull
<1>1. TLSInv => StackedChunksFull
  BY DEF TLSInv
<1> QED
  BY <1>1, TLSInvariant, PTL

(***************************************************************************)
(* The debug counters _totalChunk and _useChunk agree with the stack in    *)
(* every interleaving of the threads that change them (ChunkAlloc and      *)
(* ChunkFree, MemoryPoolTLS.h 290-385).                                    *)
(***************************************************************************)
THEOREM CountsCorrect == Spec => []ChunkCountsExact
<1>1. TLSInv => ChunkCountsExact
  BY DEF TLSInv
<1> QED
  BY <1>1, TLSInvariant, PTL

(***************************************************************************)
(* Alloc and Free lose no block and invent none, whatever thread frees     *)
(* what another one allocated (MemoryPoolTLS.h 208-288).                   *)
(***************************************************************************)
THEOREM BlocksNeverLost == Spec => []BlocksConserved
<1>1. TLSInv => BlocksConserved
  BY DEF TLSInv
<1> QED
  BY <1>1, TLSInvariant, PTL
=============================================================================
